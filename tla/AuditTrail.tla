----------------------------- MODULE AuditTrail -----------------------------
(***************************************************************************)
(* What the history archive promises to someone who audits it, stated      *)
(* without files, locks, state index or failures: a trail of links that    *)
(* only grows, in which every new link names a parent that is already      *)
(* there and carries a larger sequence number than its parent.  With       *)
(* Linear = TRUE the parent is always the newest link, so the trail is one *)
(* chain; with Linear = FALSE it may branch, but it still has one root.    *)
(*                                                                         *)
(* Source of the promise: README.md "Historical analytics and audit" and   *)
(* the Envelope type of internal/history/store.go.                         *)
(***************************************************************************)
EXTENDS Naturals, Sequences

CONSTANTS
    Genesis,   \* the empty previous_hash of the first record
    Linear     \* TRUE: the trail may not branch

VARIABLE trail \* sequence of [hash, previous, sequence]

\* The hash the next link of an unbranched trail has to name.
Newest(t) == IF t = << >> THEN Genesis ELSE t[Len(t)].hash

\* A link may name the root, or a link of t with a smaller sequence number.
Rooted(link, t) ==
    \/ link.previous = Genesis
    \/ \E i \in DOMAIN t : /\ t[i].hash = link.previous
                           /\ t[i].sequence < link.sequence

Joins(link, t) ==
    /\ \A i \in DOMAIN t : t[i].hash # link.hash
    /\ Rooted(link, t)
    /\ Linear => link.previous = Newest(t)

Init == trail = << >>

Extend ==
    /\ Len(trail') = Len(trail) + 1
    /\ \A i \in DOMAIN trail : trail'[i] = trail[i]
    /\ Joins(trail'[Len(trail')], trail)

Spec == Init /\ [][Extend]_trail
=============================================================================
