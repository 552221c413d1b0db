--------------------------- MODULE SnapshotCache ---------------------------
(***************************************************************************)
(* internal/slurm/cache.go over internal/slurm/collector.go, with their    *)
(* callers in cmd/slurm-insights-exporter/main.go: HTTP requests, whose    *)
(* context ends when the client goes away, and the archive goroutine, with *)
(* context.Background().                                                   *)
(*                                                                         *)
(* Cache.Get holds c.mu while it looks at the snapshot and, when that is   *)
(* too old, for the whole of the collection it then runs with the context  *)
(* of the caller that found it so.                                         *)
(***************************************************************************)
EXTENDS Collector

CONSTANTS
    Requests,   \* HTTP requests that read the cache
    Background, \* callers whose context never ends: the archive goroutine
    Nobody,     \* c.mu is free
    NoSnapshot, \* c.at.IsZero(), and a caller that holds no snapshot
    TTL,        \* the cache's ttl
    Serials     \* bound: snapshots are numbered modulo Serials

\* How old what is handed out can be while no command outlives its kill: the
\* cache's TTL and one collection, and for the slow tier's data the lifetime of
\* an entry and another command on top.
StalenessBound == TTL + SlowRefresh + 2 * Timeout

ASSUME CacheAssumption ==
    /\ Callers = Requests \cup Background
    /\ Requests \cap Background = {}
    /\ Nobody \notin Callers
    /\ TTL \in Nat
    /\ Serials \in Nat \ {0}
    /\ MaxAge > StalenessBound

VARIABLES
    pc,       \* where each caller stands in Get
    holder,   \* who holds c.mu across a collection
    cached,   \* c.snap
    cacheAge, \* time.Since(c.at), capped at TTL
    given,    \* the snapshot a caller's Get returned, until it has used it
    asked     \* callers that called Get in this unit of time

cacheVars == << pc, holder, cached, cacheAge, given, asked >>
vars == << collectorVars, cacheVars >>

Snapshots ==
    [data : [Collectors -> Outputs], errors : SUBSET Collectors,
     tried : SUBSET Collectors, late : SUBSET Collectors, began : Outputs,
     serial : 1 .. Serials]

ASSUME SnapshotAssumption == NoSnapshot \notin Snapshots

TypeOK ==
    /\ CollectorTypeOK
    /\ pc \in [Callers -> {"idle", "waiting", "collecting", "answered"}]
    /\ holder \in Callers \cup {Nobody}
    /\ cached \in Snapshots \cup {NoSnapshot}
    /\ cacheAge \in 0 .. TTL
    /\ given \in [Callers -> Snapshots \cup {NoSnapshot}]
    /\ asked \subseteq Callers

Init ==
    /\ CollectorInit
    /\ pc = [c \in Callers |-> "idle"]
    /\ holder = Nobody
    /\ cached = NoSnapshot
    /\ cacheAge = TTL
    /\ given = [c \in Callers |-> NoSnapshot]
    /\ asked = {}

-----------------------------------------------------------------------------
(* Get.                                                                    *)

\* A handler, or the archive's ticker, calls Get and comes to c.mu.Lock().
\* Bound: each caller does so at most once in a unit of time.
Request(c) ==
    /\ pc[c] = "idle"
    /\ c \notin asked
    /\ asked' = asked \cup {c}
    /\ pc' = [pc EXCEPT ![c] = "waiting"]
    /\ cancelled' = cancelled \ {c}
    /\ UNCHANGED << task, start, slowData, slurm, good, holder, cached,
                    cacheAge, given >>

\* The client of a request goes away.  Waiting for c.mu does not notice.
Cancel(c) ==
    /\ c \in Requests \ cancelled
    /\ pc[c] \in {"waiting", "collecting"}
    /\ cancelled' = cancelled \cup {c}
    /\ UNCHANGED << task, start, slowData, slurm, good, cacheVars >>

\* Mutant: Get without c.mu.
LocksAnyway(c) == pc[c] = "waiting"

CanLock(c) == pc[c] = "waiting" /\ holder = Nobody
CacheValid == cached # NoSnapshot /\ cacheAge < TTL

\* The snapshot is young enough: lock, return it, unlock.
Hit(c) ==
    /\ CanLock(c)
    /\ CacheValid
    /\ pc' = [pc EXCEPT ![c] = "answered"]
    /\ given' = [given EXCEPT ![c] = cached]
    /\ UNCHANGED << collectorVars, holder, cached, cacheAge, asked >>

\* It is not: lock and collect.
Miss(c) ==
    /\ CanLock(c)
    /\ ~CacheValid
    /\ holder' = c
    /\ pc' = [pc EXCEPT ![c] = "collecting"]
    /\ StartCollect(c)
    /\ UNCHANGED << slowData, cancelled, slurm, good, cached, cacheAge, given,
                    asked >>

NextSerial == IF cached = NoSnapshot THEN 1 ELSE (cached.serial % Serials) + 1

Fetched(c) ==
    [data |-> Collected(c).data, errors |-> Collected(c).errors,
     tried |-> Collected(c).tried, late |-> Collected(c).late,
     began |-> Collected(c).began, serial |-> NextSerial]

\* Mutants: c.at is not set; an early return skips Unlock.
KeepsAge(c) == cached' = Fetched(c) /\ UNCHANGED cacheAge
UnlockSkipped == holder' \in {Nobody, holder}

Replaces(c) == cached' = Fetched(c) /\ cacheAge' = 0
Unlock == holder' = Nobody

\* The collection is over: replace the snapshot, errors or not, and unlock.
Store(c) ==
    /\ pc[c] = "collecting"
    /\ AllDone(c)
    /\ Replaces(c)
    /\ given' = [given EXCEPT ![c] = Fetched(c)]
    /\ Unlock
    /\ pc' = [pc EXCEPT ![c] = "answered"]
    /\ EndCollect(c)
    /\ UNCHANGED << slowData, cancelled, slurm, good, asked >>

\* The handler has written its response, or AppendSnapshot has returned.
Finish(c) ==
    /\ pc[c] = "answered"
    /\ pc' = [pc EXCEPT ![c] = "idle"]
    /\ given' = [given EXCEPT ![c] = NoSnapshot]
    /\ cancelled' = cancelled \ {c}
    /\ UNCHANGED << task, start, slowData, slurm, good, holder, cached,
                    cacheAge, asked >>

Collecting(c, k) == CollectorStep(c, k) /\ UNCHANGED cacheVars

Environment == SlurmChanges /\ UNCHANGED cacheVars

OlderSnapshot(s) ==
    IF s = NoSnapshot THEN s
    ELSE [s EXCEPT !.data = [k \in Collectors |-> Older(s.data[k])],
                   !.began = Older(s.began)]

\* Only commands take time: whoever can take the lock, store a snapshot or
\* use one does so first.
Idle(c) ==
    /\ ~CanLock(c)
    /\ pc[c] # "answered"
    /\ pc[c] = "collecting" => ~AllDone(c)

Tick ==
    /\ \A c \in Callers : Idle(c)
    /\ CollectorTick
    /\ cached' = OlderSnapshot(cached)
    /\ cacheAge' = IF cacheAge < TTL THEN cacheAge + 1 ELSE cacheAge
    /\ asked' = {}
    /\ UNCHANGED << pc, holder, given >>

Next ==
    \/ \E c \in Callers : \/ Request(c) \/ Cancel(c)
                          \/ Hit(c) \/ Miss(c) \/ Store(c) \/ Finish(c)
    \/ \E c \in Callers, k \in Collectors : Collecting(c, k)
    \/ Environment
    \/ Tick

(***************************************************************************)
(* Fairness.  Goroutines are scheduled, and commands end unless they hang  *)
(* (weak fairness of each step but Return: a command that hangs need not   *)
(* come back).  A sync.Mutex goes to its longest waiter after 1 ms, so no  *)
(* waiter is passed over for ever (strong fairness of taking the lock).    *)
(* The clock does not stop, and the archive's ticker keeps firing.         *)
(***************************************************************************)
Fairness ==
    /\ \A c \in Callers : /\ SF_vars(Hit(c) \/ Miss(c))
                          /\ WF_vars(Store(c))
                          /\ WF_vars(Finish(c))
    /\ \A c \in Callers, k \in Collectors :
          WF_vars(Collecting(c, k) /\ task[c][k].phase # "hung")
    /\ \A c \in Background : WF_vars(Request(c))
    /\ SF_vars(Tick)

Spec == Init /\ [][Next]_vars
FairSpec == Spec /\ Fairness

-----------------------------------------------------------------------------
(* Properties.                                                             *)

InFlight(k) ==
    {c \in Callers : task[c][k].phase \in {"started", "running", "hung"}}

\* "Concurrent HTTP requests share one snapshot; they do not launch duplicate
\* commands": whoever asks, at most one command of a kind exists at a time.
\* slow() and the slices Collect appends to rely on it.
SingleFlight == \A k \in Collectors : \A c, d \in InFlight(k) : c = d

\* The age of the oldest output a collection may start from.
Base(k) == IF k \in Fast THEN 0 ELSE Timeout + SlowRefresh

\* d is an output, and at most n old.
Within(d, n) == d # NoData /\ d <= n

\* None of the commands of the snapshot's collection outlived its kill, and none
\* of them brought k's data.
Punctual(s) == s.late \cap s.tried = {}
ReusedLate(s, k) == k \in s.late \ s.tried

\* What a snapshot says of its age is true of its data: where it reports no
\* error it has data, and that is from after its collected_at, or, in the slow
\* tier, at most an entry's lifetime and a command older.  collected_at itself
\* is at most TTL and Timeout ago as long as no command of its collection
\* outlived its kill; Get does not notice one that did, and hands out what the
\* other commands brought before as if it were new.  Neither does slow(), whose
\* entry counts from when such a command returned.
HandedOutDataIsRecent ==
    \A c \in Callers : given[c] # NoSnapshot =>
        /\ Punctual(given[c]) => Within(given[c].began, TTL + Timeout)
        /\ \A k \in Collectors \ given[c].errors :
              /\ given[c].data[k] # NoData
              /\ ~ReusedLate(given[c], k) =>
                    given[c].data[k] <= given[c].began + Base(k)

(***************************************************************************)
(* The inductive invariants behind the two properties above.               *)
(***************************************************************************)

\* The lock is held for the whole of a collection, and there are tasks exactly
\* then.
LockInv ==
    /\ \A c \in Callers : pc[c] = "collecting" <=> holder = c
    /\ \A c \in Callers, k \in Collectors :
          task[c][k].phase # "off" <=> pc[c] = "collecting"

EntriesRecent ==
    \A k \in Slow : slowData[k] # NoEntry /\ ~slowData[k].err =>
        /\ slowData[k].data # NoData
        /\ slowData[k].since < SlowRefresh /\ ~slowData[k].late =>
              Within(slowData[k].data, Timeout + slowData[k].since)

\* A collection takes longer than Timeout only with a command that hung.
CollectionsEnd ==
    \A c \in Callers :
        /\ \A k \in Collectors :
              /\ task[c][k].phase = "started" => ~task[c][k].queried
              /\ task[c][k].phase = "running" => task[c][k].queried
              /\ task[c][k].phase = "hung" => task[c][k].queried /\ task[c][k].late
        /\ pc[c] = "collecting" =>
              /\ start[c] \in Ages
              /\ \/ \E k \in Collectors : task[c][k].queried /\ task[c][k].late
                 \/ start[c] <= Timeout

Succeeded(c, k) == task[c][k].phase = "done" /\ ~task[c][k].err

\* Results wait for the slowest command of their collection, for no longer than
\* the collection lasts.
ResultsRecent ==
    \A c \in Callers, k \in Collectors : Succeeded(c, k) =>
        /\ task[c][k].data # NoData
        /\ task[c][k].queried \/ ~task[c][k].late =>
              task[c][k].data <= start[c] + Base(k)

CachedRecent ==
    cached # NoSnapshot =>
        /\ cached.began \in Ages
        /\ Punctual(cached) /\ cacheAge < TTL =>
              Within(cached.began, Timeout + cacheAge)
        /\ \A k \in Collectors \ cached.errors :
              /\ cached.data[k] # NoData
              /\ ~ReusedLate(cached, k) =>
                    cached.data[k] <= cached.began + Base(k)

RecencyInv ==
    /\ EntriesRecent
    /\ CollectionsEnd
    /\ ResultsRecent
    /\ CachedRecent
    /\ HandedOutDataIsRecent

\* "A failed slow refresh serves the last good data": between collections the
\* shared snapshot has the output of the latest successful command of every
\* slow collector, however many refreshes failed since.
LastGoodDataIsServed ==
    holder = Nobody /\ cached # NoSnapshot =>
        \A k \in Slow : cached.data[k] = good[k]

\* "... and is retried on the next fast refresh", where there is good data: a
\* slow collector that failed is run again by the next collection.
FailedRefreshIsRetried ==
    [][\A c \in Callers : Store(c) /\ cached # NoSnapshot =>
          \A k \in Slow \cap cached.errors :
              cached.data[k] # NoData => k \in cached'.tried]_vars

\* The same, of every failed slow refresh, as the documentation has it.
EveryFailedRefreshIsRetried ==
    [][\A c \in Callers : Store(c) /\ cached # NoSnapshot =>
          Slow \cap cached.errors \subseteq cached'.tried]_vars

\* "Slow tier: refreshed at cache.slow-ttl": a command of the slow tier that
\* succeeded is not launched again before SlowRefresh has passed (its output
\* was at most Timeout old when it came).
SlowTierIsSpared ==
    [][\A c \in Callers, k \in Slow :
          task[c][k].phase = "started" /\ task'[c][k].phase = "running" =>
              good[k] = NoData \/ good[k] >= SlowRefresh]_vars

\* Every Get returns.  As "a partial snapshot remains available when one
\* command fails": whatever the commands do.
EveryGetReturns ==
    \A c \in Callers : pc[c] = "waiting" ~> pc[c] = "answered"

\* When Slurm answers and clients wait for their answers, errors disappear
\* from the shared snapshot and stay away, whatever failed before.
Healthy == slurm = "up" /\ cancelled = {}
ErrorsDoNotOutliveTheirCause ==
    <>[]Healthy => <>[](cached # NoSnapshot /\ cached.errors = {})

Number(s) == IF s = NoSnapshot THEN 0 ELSE s.serial

Shared == INSTANCE SharedSnapshot WITH
    Consumers <- Callers,
    current <- Number(cached),
    age <- IF cached = NoSnapshot THEN TTL ELSE cacheAge,
    refreshing <- {c \in Callers : pc[c] = "collecting"},
    given <- [c \in Callers |-> Number(given[c])]

\* The lock makes Get atomic: what each caller is handed was the one shared
\* snapshot at a moment between its call and its return, and refreshes are
\* TTL apart and never overlap.
ImplementsSharedSnapshot == Shared!Spec
=============================================================================
