--------------------------- MODULE SharedSnapshot ---------------------------
(***************************************************************************)
(* What the snapshot cache promises its consumers, without locks, commands *)
(* or errors: there is one snapshot; a consumer is handed it as long as it *)
(* is younger than TTL; once it is older, one refresh replaces it, and no  *)
(* other begins, nor is anyone handed the old one, until that one ends.    *)
(* A hand-over is one step: a consumer never holds anything but what was   *)
(* current at a moment between its question and its answer.                *)
(*                                                                         *)
(* Source of the promise: README.md "Load-control design" and the cache.ttl*)
(* row of its configuration table.                                         *)
(***************************************************************************)
EXTENDS Naturals

CONSTANTS
    Consumers,
    TTL,    \* the least time between the end of a refresh and the next one
    Serials \* bound: snapshots are numbered modulo Serials

VARIABLES
    current,    \* number of the snapshot, 0 before the first
    age,        \* time since the refresh that made it, capped at TTL
    refreshing, \* the consumer whose refresh is under way, a set of at most one
    given       \* given[c]: number of the snapshot c holds, or 0

vars == << current, age, refreshing, given >>

Following(n) == (n % Serials) + 1

Init ==
    /\ current = 0
    /\ age = TTL
    /\ refreshing = {}
    /\ given = [c \in Consumers |-> 0]

HandOver(c) ==
    /\ refreshing = {}
    /\ current # 0
    /\ age < TTL
    /\ given' = [given EXCEPT ![c] = current]
    /\ UNCHANGED << current, age, refreshing >>

BeginRefresh(c) ==
    /\ refreshing = {}
    /\ age = TTL
    /\ refreshing' = {c}
    /\ UNCHANGED << current, age, given >>

EndRefresh(c) ==
    /\ refreshing = {c}
    /\ current' = Following(current)
    /\ age' = 0
    /\ given' = [given EXCEPT ![c] = current']
    /\ refreshing' = {}

Release(c) ==
    /\ given' = [given EXCEPT ![c] = 0]
    /\ UNCHANGED << current, age, refreshing >>

Age ==
    /\ age < TTL
    /\ age' = age + 1
    /\ UNCHANGED << current, refreshing, given >>

Next ==
    \/ \E c \in Consumers :
          HandOver(c) \/ BeginRefresh(c) \/ EndRefresh(c) \/ Release(c)
    \/ Age

Spec == Init /\ [][Next]_vars
=============================================================================
