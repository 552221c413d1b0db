----------------------- MODULE SnapshotServiceProofs -----------------------
(***************************************************************************)
(* What the shared snapshot serves: good data through failures, retries of *)
(* what failed, a slow tier that is left in peace, and, seen from outside, *)
(* one atomic snapshot.                                                    *)
(***************************************************************************)
EXTENDS SnapshotCacheProofs

(***************************************************************************)
(* GoodInv follows the latest good output of a slow collector through the  *)
(* places it is kept in: the entry of slow(), the task of a collection,    *)
(* and the snapshot.  RetryInv says when an entry is stale: a failure with *)
(* samples came from an entry that had run out, and such an entry stays as *)
(* it is until the command is launched again.                              *)
(***************************************************************************)

EntriesAreGood ==
    \A k \in Slow :
        /\ slowData[k] = NoEntry => good[k] = NoData
        /\ slowData[k] # NoEntry => slowData[k].data = good[k]

TasksAreGood ==
    \A c \in Callers, k \in Slow :
        /\ task[c][k].phase \in {"running", "hung", "done"}
              => task[c][k].data = good[k]
        /\ task[c][k].phase \in {"running", "hung"}
              => (task[c][k].known <=> Known(k))

GoodInv == EntriesAreGood /\ TasksAreGood /\ LastGoodDataIsServed

RanOut(k) == Known(k) /\ slowData[k].since = SlowRefresh

\* Ages of entries, and what their errors say.
EntriesAgree ==
    \A k \in Slow : Known(k) =>
        /\ slowData[k].err => slowData[k].data = NoData
        /\ slowData[k].data # NoData => slowData[k].since <= slowData[k].data

TasksAgree ==
    \A c \in Callers, k \in Collectors :
        /\ task[c][k].queried => task[c][k].phase \in {"running", "hung", "done"}
        /\ task[c][k].err => task[c][k].phase = "done"

\* A task that has found an entry, or has failed and served it, found one
\* that had run out.
ServedHasRunOut ==
    \A c \in Callers, k \in Slow :
        /\ task[c][k].phase \in {"running", "hung"} /\ task[c][k].known => RanOut(k)
        /\ task[c][k].phase = "done" /\ task[c][k].err /\ task[c][k].data # NoData
              => RanOut(k)

\* k's command was launched by the collection that is under way.
Queried(k) == \E c \in Callers : task[c][k].queried

\* As long as it was not, an error with samples in the shared snapshot means
\* an entry that has run out, and that nobody has been served yet.
ErrorsHaveRunOut ==
    cached # NoSnapshot =>
        \A k \in Slow \cap cached.errors : cached.data[k] # NoData =>
            \/ Queried(k)
            \/ RanOut(k) /\ \A c \in Callers :
                               task[c][k].phase \in {"off", "started"}

RetryInv == EntriesAgree /\ TasksAgree /\ ServedHasRunOut /\ ErrorsHaveRunOut

(***************************************************************************)
(* Single steps.                                                           *)
(***************************************************************************)

LEMMA LaunchedMore ==
    ASSUME TypeOK, NEW c \in Callers, NEW k \in Collectors
    PROVE  /\ LaunchedTask(c, k).data = IF Known(k) THEN slowData[k].data
                                                   ELSE NoData
           /\ LaunchedTask(c, k).known <=> Known(k)
           /\ LaunchedTask(c, k).queried
           /\ LaunchedTask(c, k).err = task[c][k].err
  <1> DEFINE d == IF Known(k) THEN slowData[k].data ELSE NoData
             n == Known(k)
  <1>1. task[c][k] \in Tasks
    BY TaskOf
  <1>2. LaunchedTask(c, k) = [task[c][k] EXCEPT !.phase = "running",
                                !.queried = TRUE, !.known = n, !.data = d]
    BY DEF LaunchedTask
  <1>3. n \in BOOLEAN
    BY DEF Known
  <1> HIDE DEF d, n
  <1>4. /\ LaunchedTask(c, k).data = d /\ LaunchedTask(c, k).known = n
        /\ LaunchedTask(c, k).queried = TRUE
        /\ LaunchedTask(c, k).err = task[c][k].err
    BY <1>1, <1>2 DEF Tasks
  <1>5. QED
    BY <1>3, <1>4 DEF d, n

LEMMA EndedMore ==
    ASSUME TypeOK, NEW c \in Callers, NEW k \in Collectors
    PROVE  /\ SucceededTask(c, k).queried = task[c][k].queried
           /\ FailedTask(c, k).queried = task[c][k].queried
           /\ FailedTask(c, k).data = task[c][k].data
           /\ HungTask(c, k).queried = task[c][k].queried
           /\ HungTask(c, k).err = task[c][k].err
           /\ HungTask(c, k).data = task[c][k].data
           /\ HungTask(c, k).known = task[c][k].known
           /\ ReusedTask(c, k).queried = task[c][k].queried
  BY TaskOf DEF SucceededTask, FailedTask, HungTask, ReusedTask, Tasks

\* During a step of a collection nothing else is under way.
LEMMA OthersOff ==
    ASSUME TypeOK, LockInv, NEW c \in Callers, NEW k \in Collectors,
           CollectorStep(c, k)
    PROVE  /\ holder = c /\ holder # Nobody
           /\ \A d \in Callers : d # c => \A j \in Collectors :
                 task[d][j].phase = "off" /\ task'[d][j] = task[d][j]
           /\ \A j \in Collectors : j # k => task'[c][j] = task[c][j]
  <1>1. /\ task[c][k].phase \in {"started", "running", "hung"}
        /\ \A d \in Callers, j \in Collectors :
              d # c \/ j # k => task'[d][j] = task[d][j]
    BY StepTask
  <1>2. holder = c
    BY <1>1 DEF LockInv
  <1>3. \A d \in Callers : d # c => pc[d] # "collecting"
    BY <1>2 DEF LockInv
  <1>4. \A d \in Callers : d # c => \A j \in Collectors : task[d][j].phase = "off"
    BY <1>3 DEF LockInv
  <1>5. QED
    BY <1>1, <1>2, <1>4, CacheAssumption

LEMMA EntryIsNone == ASSUME NEW e \in Entries PROVE e # NoEntry
  BY EntryAssumption

\* What a success and a failure leave in slow()'s map.
LEMMA SlowAfter ==
    ASSUME TypeOK, NEW c \in Callers, NEW k \in Slow
    PROVE  /\ ResultStep(c, k) =>
                /\ slowData'[k] # NoEntry /\ Known(k)'
                /\ slowData'[k].data = start[c]
                /\ slowData'[k].since = 0 /\ ~slowData'[k].err
                /\ good'[k] = start[c]
                /\ \A j \in Slow : j # k => slowData'[j] = slowData[j]
                                            /\ good'[j] = good[j]
           /\ FailureStep(c, k) /\ ~task[c][k].known =>
                /\ slowData'[k] # NoEntry /\ Known(k)'
                /\ slowData'[k].data = NoData
                /\ slowData'[k].since = 0 /\ slowData'[k].err
                /\ good' = good
                /\ \A j \in Slow : j # k => slowData'[j] = slowData[j]
           /\ FailureStep(c, k) /\ task[c][k].known => slowData' = slowData /\ good' = good
  <1>0. /\ slowData \in [Slow -> Entries \cup {NoEntry}]
        /\ good \in [Slow -> Outputs] /\ k \in Collectors
    BY DEF TypeOK, CollectorTypeOK, Collectors
  <1>1. ASSUME ResultStep(c, k)
        PROVE  /\ slowData' = [slowData EXCEPT ![k] =
                     [since |-> 0, data |-> start[c], err |-> FALSE,
                      late |-> task[c][k].late]]
               /\ good' = [good EXCEPT ![k] = start[c]]
               /\ slowData'[k] # NoEntry
    <2>1. [since |-> 0, data |-> start[c], err |-> FALSE,
                      late |-> task[c][k].late] \in Entries
      BY <1>0, SucceededFields, TaskOf, TaskFields, EntryMade
    <2>2. QED
      BY <1>0, <1>1, <2>1, EntryIsNone DEF ResultStep, Result
  <1>2. ASSUME FailureStep(c, k), ~task[c][k].known
        PROVE  /\ slowData' = [slowData EXCEPT ![k] =
                     [since |-> 0, data |-> NoData, err |-> TRUE,
                      late |-> FALSE]]
               /\ good' = good
               /\ slowData'[k] # NoEntry
    <2>1. [since |-> 0, data |-> NoData, err |-> TRUE,
                      late |-> FALSE] \in Entries
      BY EntryMade DEF Outputs
    <2>2. QED
      BY <1>0, <1>2, <2>1, EntryIsNone DEF FailureStep, Failure, EntriesOnFailure
  <1>3. FailureStep(c, k) /\ task[c][k].known => slowData' = slowData /\ good' = good
    BY DEF FailureStep, Failure, EntriesOnFailure
  <1>4. QED
    BY <1>0, <1>1, <1>2, <1>3 DEF Known

LEMMA FastAfter ==
    ASSUME NEW c \in Callers, NEW k \in Fast, CollectorStep(c, k)
    PROVE  slowData' = slowData /\ good' = good
  <1>1. k \notin Slow
    BY CollectorAssumption
  <1>2. QED
    BY <1>1, StepCases DEF Reuse, Launch, ResultStep, Result, FailureStep, Failure,
                EntriesOnFailure, Hang

(***************************************************************************)
(* Good data.                                                              *)
(***************************************************************************)

LEMMA GoodCollects ==
    ASSUME TypeOK, LockInv, GoodInv, NEW c \in Callers, NEW k \in Collectors,
           Collecting(c, k)
    PROVE  GoodInv'
  <1>0. /\ CollectorStep(c, k) /\ UNCHANGED cacheVars
        /\ EntriesAreGood /\ TasksAreGood
    BY DEF Collecting, GoodInv
  <1>1. /\ holder # Nobody
        /\ \A d \in Callers : d # c => \A j \in Collectors :
              task[d][j].phase = "off" /\ task'[d][j] = task[d][j]
        /\ \A j \in Collectors : j # k => task'[c][j] = task[c][j]
    BY <1>0, OthersOff
  <1>2. LastGoodDataIsServed'
    BY <1>0, <1>1 DEF cacheVars, LastGoodDataIsServed
  <1>3. Slow \subseteq Collectors /\ (k \in Slow \/ k \in Fast)
    BY DEF Collectors
  \* It is enough to look at k.
  <1>4. ASSUME \A j \in Slow : j # k => slowData'[j] = slowData[j]
                                        /\ good'[j] = good[j],
               k \in Slow =>
                  /\ slowData'[k] = NoEntry => good'[k] = NoData
                  /\ slowData'[k] # NoEntry => slowData'[k].data = good'[k]
                  /\ task'[c][k].phase \in {"running", "hung", "done"}
                        => task'[c][k].data = good'[k]
                  /\ task'[c][k].phase \in {"running", "hung"}
                        => (task'[c][k].known <=> Known(k)')
        PROVE  GoodInv'
    <2>1. EntriesAreGood'
      BY <1>0, <1>4 DEF EntriesAreGood
    <2>2. ASSUME NEW d \in Callers, NEW j \in Slow
          PROVE  /\ task'[d][j].phase \in {"running", "hung", "done"}
                       => task'[d][j].data = good'[j]
                 /\ task'[d][j].phase \in {"running", "hung"}
                       => (task'[d][j].known <=> Known(j)')
      <3>1. CASE d # c
        BY <1>1, <1>3, <3>1
      <3>2. CASE d = c /\ j # k
        BY <1>0, <1>1, <1>3, <1>4, <3>2 DEF TasksAreGood, Known
      <3>3. CASE d = c /\ j = k
        BY <1>4, <3>3
      <3>4. QED
        BY <3>1, <3>2, <3>3
    <2>3. TasksAreGood'
      BY <2>2 DEF TasksAreGood
    <2>4. QED
      BY <1>2, <2>1, <2>3 DEF GoodInv
  <1>5. CASE k \in Fast
    <2>1. k \notin Slow
      BY <1>5, CollectorAssumption
    <2>2. QED
      BY <1>0, <1>4, <1>5, <2>1, FastAfter
  <1>6. CASE k \in Slow /\ Reuse(c, k)
    <2>1. slowData' = slowData /\ good' = good
      BY <1>6 DEF Reuse
    <2>2. task'[c][k].phase = "done" /\ task'[c][k].data = slowData[k].data
          /\ slowData[k] # NoEntry
      BY <1>6, StepOutcomes, ReusedFields DEF IsFresh, Known
    <2>3. QED
      BY <1>0, <1>4, <1>6, <2>1, <2>2 DEF EntriesAreGood
  <1>7. CASE k \in Slow /\ Launch(c, k)
    <2>1. slowData' = slowData /\ good' = good
      BY <1>7 DEF Launch
    <2>2. /\ task'[c][k].data = IF Known(k) THEN slowData[k].data ELSE NoData
          /\ task'[c][k].known <=> Known(k)
      BY <1>7, StepOutcomes, LaunchedMore
    <2>3. task'[c][k].data = good[k]
      BY <1>0, <1>7, <2>2 DEF EntriesAreGood, Known
    <2>4. Known(k)' <=> Known(k)
      BY <2>1 DEF Known
    <2>5. QED
      BY <1>0, <1>4, <1>7, <2>1, <2>2, <2>3, <2>4 DEF EntriesAreGood
  <1>8. CASE k \in Slow /\ ResultStep(c, k)
    <2>1. /\ task'[c][k].phase = "done"
          /\ task'[c][k].data = start[c]
      BY <1>8, StepOutcomes, SucceededFields
    <2>2. QED
      BY <1>4, <1>8, <2>1, SlowAfter
  <1>9. CASE k \in Slow /\ FailureStep(c, k)
    <2>1. /\ task'[c][k].phase = "done"
          /\ task'[c][k].data = task[c][k].data
      <3>1. FailureStep(c, k)
        BY <1>9
      <3>2. task'[c][k] = FailedTask(c, k)
        BY <3>1, StepOutcomes
      <3>3. QED
        BY <3>2, FailedFields, EndedMore
    <2>2. /\ task[c][k].data = good[k]
          /\ task[c][k].known <=> Known(k)
      BY <1>0, <1>9 DEF FailureStep, Ends, TasksAreGood
    <2>3. CASE task[c][k].known
      BY <1>0, <1>4, <1>9, <2>1, <2>2, <2>3, SlowAfter DEF EntriesAreGood
    <2>4. CASE ~task[c][k].known
      <3>1. good[k] = NoData
        BY <1>0, <1>9, <2>2, <2>4 DEF EntriesAreGood, Known
      <3>2. QED
        BY <1>4, <1>9, <2>1, <2>2, <2>4, <3>1, SlowAfter
    <2>5. QED
      BY <2>3, <2>4
  <1>10. CASE Hang(c, k)
    <2>1. slowData' = slowData /\ good' = good
      BY <1>10 DEF Hang
    <2>2. /\ task'[c][k].phase = "hung" /\ task[c][k].phase = "running"
          /\ task'[c][k].data = task[c][k].data
          /\ task'[c][k].known = task[c][k].known
      BY <1>10, StepOutcomes, FailedFields, EndedMore
    <2>3. Known(k)' <=> Known(k)
      BY <2>1 DEF Known
    <2>4. QED
      BY <1>0, <1>4, <2>1, <2>2, <2>3 DEF EntriesAreGood, TasksAreGood
  <1>11. QED
    BY <1>0, <1>3, <1>5, <1>6, <1>7, <1>8, <1>9, <1>10, StepCases

\* What a tick does to an entry and to a task.
LEMMA TickEntry ==
    ASSUME TypeOK, CollectorTick, NEW k \in Slow
    PROVE  /\ slowData'[k] = NoEntry <=> slowData[k] = NoEntry
           /\ Known(k)' <=> Known(k)
           /\ Known(k) =>
                /\ slowData'[k].data = Older(slowData[k].data)
                /\ slowData'[k].err = slowData[k].err
                /\ slowData'[k].since = IF slowData[k].since < SlowRefresh
                                           THEN slowData[k].since + 1
                                           ELSE slowData[k].since
  <1>1. slowData'[k] = OlderEntry(slowData[k])
    BY DEF CollectorTick
  <1>2. CASE slowData[k] = NoEntry
    BY <1>1, <1>2 DEF OlderEntry, Known
  <1>3. CASE slowData[k] # NoEntry
    <2>1. slowData[k] \in Entries
      BY <1>3, EntryOf DEF Known
    <2>2. slowData'[k] \in Entries
      BY <1>1, <1>3, <2>1, OlderEntryFields
    <2>3. slowData'[k] # NoEntry
      BY <2>2, EntryIsNone
    <2>4. QED
      BY <1>1, <1>3, <2>1, <2>3, OlderEntryFields DEF Known
  <1>4. QED
    BY <1>2, <1>3

LEMMA TickTask ==
    ASSUME TypeOK, CollectorTick, NEW c \in Callers, NEW k \in Collectors
    PROVE  /\ task'[c][k].phase = task[c][k].phase
           /\ task'[c][k].data = Older(task[c][k].data)
           /\ task'[c][k].known = task[c][k].known
           /\ task'[c][k].err = task[c][k].err
           /\ task'[c][k].queried = task[c][k].queried
           /\ task[c][k].data \in Outputs
  <1>1. /\ task[c][k] \in Tasks
        /\ task'[c][k] = OlderTask(task[c][k])
    BY TaskOf DEF CollectorTick
  <1>2. QED
    BY <1>1, OlderTaskType, TaskFields

LEMMA GoodTick ==
    ASSUME TypeOK, GoodInv, Tick
    PROVE  GoodInv'
  <1>0. /\ EntriesAreGood /\ TasksAreGood /\ LastGoodDataIsServed
        /\ CollectorTick /\ Slow \subseteq Collectors
    BY DEF GoodInv, Tick, Collectors
  <1>1. \A k \in Slow : good'[k] = Older(good[k])
    BY <1>0 DEF CollectorTick
  <1>2. Older(NoData) = NoData
    BY DEF Older
  <1>3. EntriesAreGood'
    BY <1>0, <1>1, <1>2, TickEntry DEF EntriesAreGood, Known
  <1>4. TasksAreGood'
    BY <1>0, <1>1, TickTask, TickEntry DEF TasksAreGood
  <1>5. LastGoodDataIsServed'
    <2>1. ASSUME holder' = Nobody, cached' # NoSnapshot, NEW k \in Slow
          PROVE  cached'.data[k] = good'[k]
      <3>1. holder = Nobody /\ cached' = OlderSnapshot(cached)
        BY <2>1 DEF Tick
      <3>2. cached # NoSnapshot /\ cached \in Snapshots
        BY <2>1, <3>1 DEF OlderSnapshot, TypeOK
      <3>3. cached.data[k] = good[k]
        BY <1>0, <3>1, <3>2 DEF LastGoodDataIsServed
      <3>4. cached'.data[k] = Older(cached.data[k])
        BY <1>0, <3>1, <3>2, OlderSnapshotFields
      <3>5. QED
        BY <1>1, <3>3, <3>4
    <2>2. QED
      BY <2>1 DEF LastGoodDataIsServed
  <1>6. QED
    BY <1>3, <1>4, <1>5 DEF GoodInv

\* A caller's tasks all begin or all go away.
LEMMA GoodReset ==
    ASSUME TypeOK, TasksAreGood, NEW c \in Callers, NEW o \in {Off, Started},
           task' = [task EXCEPT ![c] = [k \in Collectors |-> o]],
           UNCHANGED << slowData, good >>
    PROVE  TasksAreGood'
  <1>1. \A d \in Callers, j \in Collectors :
           task'[d][j] = IF d = c THEN o ELSE task[d][j]
    BY StartedTasks
  <1>2. o.phase \notin {"running", "hung", "done"}
    BY OffIsTask
  <1>3. Slow \subseteq Collectors /\ \A k \in Slow : Known(k)' <=> Known(k)
    BY DEF Collectors, Known
  <1>4. ASSUME NEW d \in Callers, NEW j \in Slow
        PROVE  /\ task'[d][j].phase \in {"running", "hung", "done"}
                     => task'[d][j].data = good'[j]
               /\ task'[d][j].phase \in {"running", "hung"}
                     => (task'[d][j].known <=> Known(j)')
    <2>1. CASE d = c
      BY <1>1, <1>2, <1>3, <2>1
    <2>2. CASE d # c
      BY <1>1, <1>3, <2>2 DEF TasksAreGood
    <2>3. QED
      BY <2>1, <2>2
  <1>5. QED
    BY <1>4 DEF TasksAreGood

LEMMA GoodStep ==
    ASSUME TypeOK, LockInv, GoodInv, [Next]_vars PROVE GoodInv'
  <1>0. /\ EntriesAreGood /\ TasksAreGood /\ LastGoodDataIsServed
        /\ Slow \subseteq Collectors
    BY DEF GoodInv, Collectors
  <1>1. CASE UNCHANGED << task, slowData, good, cached, holder >>
    BY <1>0, <1>1 DEF GoodInv, EntriesAreGood, TasksAreGood, Known,
                      LastGoodDataIsServed
  <1>2. ASSUME NEW c \in Callers, Request(c) \/ Cancel(c) \/ Hit(c) \/ Finish(c)
        PROVE  GoodInv'
    BY <1>1, <1>2 DEF Request, Cancel, Hit, Finish, cacheVars, collectorVars
  <1>3. ASSUME NEW c \in Callers, Miss(c) PROVE GoodInv'
    <2>1. TasksAreGood'
      BY <1>0, <1>3, GoodReset DEF Miss, StartCollect
    <2>2. EntriesAreGood' /\ LastGoodDataIsServed'
      BY <1>0, <1>3, CacheAssumption
      DEF Miss, EntriesAreGood, LastGoodDataIsServed
    <2>3. QED
      BY <2>1, <2>2 DEF GoodInv
  <1>4. ASSUME NEW c \in Callers, Store(c) PROVE GoodInv'
    <2>1. TasksAreGood'
      BY <1>0, <1>4, GoodReset DEF Store, EndCollect
    <2>2. EntriesAreGood'
      BY <1>0, <1>4 DEF Store, EntriesAreGood
    <2>3. ASSUME NEW k \in Slow PROVE cached'.data[k] = good'[k]
      <3>1. cached' = Fetched(c) /\ good' = good
        BY <1>4 DEF Store, Replaces
      <3>2. Fetched(c).data[k] = task[c][k].data
        BY <1>0, FetchedFields
      <3>3. task[c][k].phase = "done"
        BY <1>0, <1>4 DEF Store, AllDone
      <3>4. QED
        BY <1>0, <3>1, <3>2, <3>3 DEF TasksAreGood
    <2>4. LastGoodDataIsServed'
      BY <2>3 DEF LastGoodDataIsServed
    <2>5. QED
      BY <2>1, <2>2, <2>4 DEF GoodInv
  <1>5. ASSUME NEW c \in Callers, NEW k \in Collectors, Collecting(c, k)
        PROVE  GoodInv'
    BY <1>5, GoodCollects
  <1>6. CASE Environment
    BY <1>1, <1>6 DEF Environment, SlurmChanges, cacheVars
  <1>7. CASE UNCHANGED vars
    BY <1>1, <1>7 DEF vars, collectorVars, cacheVars
  <1>8. QED
    BY <1>2, <1>3, <1>4, <1>5, <1>6, <1>7, GoodTick DEF Next

LEMMA GoodHolds == Spec => []GoodInv
  <1>1. ASSUME Init PROVE GoodInv
    <2>1. /\ \A k \in Slow : slowData[k] = NoEntry /\ good[k] = NoData
          /\ \A c \in Callers, k \in Slow : task[c][k].phase = "off"
          /\ cached = NoSnapshot
      BY <1>1, OffIsTask DEF Init, CollectorInit, Collectors
    <2>2. QED
      BY <2>1 DEF GoodInv, EntriesAreGood, TasksAreGood, LastGoodDataIsServed
  <1>2. QED
    BY <1>1, GoodStep, TypeCorrect, LockHolds, PTL DEF Spec

\* However many refreshes of a slow collector fail, the shared snapshot has
\* the output of its latest successful command.
THEOREM LastGoodDataHolds == Spec => []LastGoodDataIsServed
  <1>1. GoodInv => LastGoodDataIsServed
    BY DEF GoodInv
  <1>2. QED
    BY <1>1, GoodHolds, PTL

(***************************************************************************)
(* Entries that have run out.                                              *)
(***************************************************************************)

LEMMA AgreeCollects ==
    ASSUME TypeOK, LockInv, TasksAgree, EntriesAgree,
           NEW c \in Callers, NEW k \in Collectors, CollectorStep(c, k)
    PROVE  TasksAgree' /\ EntriesAgree'
  <1>1. TasksAgree'
    <2>1. /\ task'[c][k].queried =>
                task'[c][k].phase \in {"running", "hung", "done"}
          /\ task'[c][k].err => task'[c][k].phase = "done"
      <3>1. CASE Reuse(c, k)
        BY <3>1, StepOutcomes, ReusedFields
      <3>2. CASE Launch(c, k)
        <4>1. task'[c][k] = LaunchedTask(c, k) /\ task[c][k].phase = "started"
          BY <3>2, StepOutcomes DEF Launch
        <4>2. ~task[c][k].err
          BY <4>1 DEF TasksAgree
        <4>3. QED
          BY <4>1, <4>2, LaunchedFields, LaunchedMore
      <3>3. CASE ResultStep(c, k)
        BY <3>3, StepOutcomes, SucceededFields
      <3>4. CASE FailureStep(c, k)
        BY <3>4, StepOutcomes, FailedFields
      <3>5. CASE Hang(c, k)
        <4>1. task'[c][k] = HungTask(c, k) /\ task[c][k].phase = "running"
          BY <3>5, StepOutcomes DEF Hang
        <4>2. ~task[c][k].err
          BY <4>1 DEF TasksAgree
        <4>3. QED
          BY <4>1, <4>2, FailedFields, EndedMore
      <3>6. QED
        BY <3>1, <3>2, <3>3, <3>4, <3>5, StepCases
    <2>2. \A d \in Callers, j \in Collectors :
             d # c \/ j # k => task'[d][j] = task[d][j]
      BY StepTask
    <2>3. QED
      BY <2>1, <2>2 DEF TasksAgree
  <1>2. EntriesAgree'
    <2>1. CASE slowData' = slowData
      BY <2>1 DEF EntriesAgree, Known
    <2>2. CASE k \in Slow /\ ResultStep(c, k)
      <3>1. /\ Known(k)' /\ slowData'[k].data = start[c]
            /\ slowData'[k].since = 0 /\ ~slowData'[k].err
            /\ \A j \in Slow : j # k => slowData'[j] = slowData[j]
        BY <2>2, SlowAfter
      <3>2. start[c] \in Nat
        BY <2>2, SucceededFields DEF ResultStep, Ages
      <3>3. QED
        BY <3>1, <3>2 DEF EntriesAgree, Known
    <2>3. CASE k \in Slow /\ FailureStep(c, k) /\ ~task[c][k].known
      <3>1. /\ Known(k)' /\ slowData'[k].data = NoData
            /\ \A j \in Slow : j # k => slowData'[j] = slowData[j]
        BY <2>3, SlowAfter
      <3>2. QED
        BY <3>1 DEF EntriesAgree, Known
    <2>4. QED
      BY <2>1, <2>2, <2>3, StepCases
      DEF Reuse, Launch, ResultStep, Result, FailureStep, Failure,
          EntriesOnFailure, Hang
  <1>3. QED
    BY <1>1, <1>2

\* A collector's step takes an entry only from its own task, which it ends.
LEMMA RanOutStays ==
    ASSUME TypeOK, LockInv, NEW c \in Callers, NEW k \in Collectors,
           CollectorStep(c, k), NEW j \in Slow, RanOut(j),
           \/ j # k
           \/ ~ResultStep(c, k) /\ ~(FailureStep(c, k) /\ ~task[c][k].known)
    PROVE  RanOut(j)'
  <1>1. slowData'[j] = slowData[j]
    <2>1. CASE k \in Fast
      BY <2>1, FastAfter
    <2>2. CASE k \in Slow /\ j # k
      <3>1. CASE ResultStep(c, k) \/ (FailureStep(c, k) /\ ~task[c][k].known)
        BY <2>2, <3>1, SlowAfter
      <3>2. CASE slowData' = slowData
        BY <3>2
      <3>3. QED
        BY <3>1, <3>2, StepCases
        DEF Reuse, Launch, FailureStep, Failure, EntriesOnFailure, Hang
    <2>3. CASE k \in Slow /\ j = k
      BY <2>3, StepCases
      DEF Reuse, Launch, ResultStep, Result, FailureStep, Failure,
          EntriesOnFailure, Hang
    <2>4. QED
      BY <2>1, <2>2, <2>3 DEF Collectors
  <1>2. QED
    BY <1>1 DEF RanOut, Known

LEMMA ServedCollects ==
    ASSUME TypeOK, LockInv, GoodInv, RetryInv,
           NEW c \in Callers, NEW k \in Collectors, CollectorStep(c, k)
    PROVE  ServedHasRunOut'
  <1>0. EntriesAgree /\ TasksAgree /\ ServedHasRunOut /\ TasksAreGood
        /\ EntriesAreGood /\ Slow \subseteq Collectors
    BY DEF RetryInv, GoodInv, Collectors
  <1>1. /\ \A d \in Callers : d # c => \A j \in Collectors :
              task'[d][j].phase = "off"
        /\ \A j \in Collectors : j # k => task'[c][j] = task[c][j]
    BY OthersOff
  <1>2. ASSUME NEW j \in Slow, j # k
        PROVE  /\ task'[c][j].phase \in {"running", "hung"} /\ task'[c][j].known
                     => RanOut(j)'
               /\ task'[c][j].phase = "done" /\ task'[c][j].err
                     /\ task'[c][j].data # NoData => RanOut(j)'
    BY <1>0, <1>1, <1>2, RanOutStays DEF ServedHasRunOut
  <1>3. ASSUME k \in Slow
        PROVE  /\ task'[c][k].phase \in {"running", "hung"} /\ task'[c][k].known
                     => RanOut(k)'
               /\ task'[c][k].phase = "done" /\ task'[c][k].err
                     /\ task'[c][k].data # NoData => RanOut(k)'
    <2>1. CASE Reuse(c, k)
      <3>1. task'[c][k] = ReusedTask(c, k) /\ Known(k)
        BY <2>1, StepOutcomes DEF Reuse, IsFresh
      <3>2. /\ task'[c][k].phase = "done" /\ task'[c][k].data = slowData[k].data
            /\ task'[c][k].err = slowData[k].err
        BY <2>1, <3>1, ReusedFields DEF Reuse
      <3>3. QED
        BY <1>0, <1>3, <3>1, <3>2 DEF EntriesAgree
    <2>2. CASE Launch(c, k)
      <3>1. task'[c][k] = LaunchedTask(c, k) /\ ~IsFresh(k)
            /\ slowData' = slowData
        BY <2>2, StepOutcomes DEF Launch
      <3>2. Known(k) => RanOut(k)
        BY <3>1, EntryOf, Numbers DEF IsFresh, RanOut
      <3>3. RanOut(k) => RanOut(k)'
        BY <3>1 DEF RanOut, Known
      <3>4. QED
        BY <3>1, <3>2, <3>3, LaunchedFields, LaunchedMore
    <2>3. CASE ResultStep(c, k)
      <3>1. task'[c][k] = SucceededTask(c, k) /\ Ends(c, k)
        BY <2>3, StepOutcomes
      <3>2. ~task[c][k].err
        BY <1>0, <3>1 DEF TasksAgree, Ends
      <3>3. QED
        BY <3>1, <3>2, SucceededFields
    <2>4. CASE FailureStep(c, k)
      <3>1. task'[c][k] = FailedTask(c, k) /\ Ends(c, k)
        BY <2>4, StepOutcomes
      <3>2. /\ task'[c][k].phase = "done" /\ task'[c][k].data = task[c][k].data
        BY <3>1, FailedFields, EndedMore
      <3>3. CASE task[c][k].known
        <4>1. RanOut(k)
          BY <1>0, <1>3, <3>1, <3>3 DEF ServedHasRunOut, Ends
        <4>2. slowData' = slowData
          BY <2>4, <3>3 DEF FailureStep, Failure, EntriesOnFailure
        <4>3. QED
          BY <3>2, <4>1, <4>2 DEF RanOut, Known
      <3>4. CASE ~task[c][k].known
        BY <1>0, <1>3, <3>1, <3>2, <3>4
        DEF TasksAreGood, EntriesAreGood, Known, Ends
      <3>5. QED
        BY <3>3, <3>4
    <2>5. CASE Hang(c, k)
      <3>1. /\ task'[c][k].phase = "hung" /\ task[c][k].phase = "running"
            /\ task'[c][k].known = task[c][k].known
            /\ slowData' = slowData
        <4>1. Hang(c, k)
          BY <2>5
        <4>2. task'[c][k] = HungTask(c, k)
          BY <4>1, StepOutcomes
        <4>3. QED
          BY <4>1, <4>2, FailedFields, EndedMore DEF Hang
      <3>2. task[c][k].known => RanOut(k)
        BY <1>0, <1>3, <3>1 DEF ServedHasRunOut
      <3>3. QED
        BY <3>1, <3>2 DEF RanOut, Known
    <2>6. QED
      BY <2>1, <2>2, <2>3, <2>4, <2>5, StepCases
  <1>4. ASSUME NEW d \in Callers, NEW j \in Slow
        PROVE  /\ task'[d][j].phase \in {"running", "hung"} /\ task'[d][j].known
                     => RanOut(j)'
               /\ task'[d][j].phase = "done" /\ task'[d][j].err
                     /\ task'[d][j].data # NoData => RanOut(j)'
    <2>1. CASE d # c
      BY <1>0, <1>1, <2>1
    <2>2. CASE d = c /\ j # k
      BY <1>2, <2>2
    <2>3. CASE d = c /\ j = k
      BY <1>3, <2>3
    <2>4. QED
      BY <2>1, <2>2, <2>3
  <1>5. QED
    BY <1>4 DEF ServedHasRunOut

LEMMA ErrorsCollects ==
    ASSUME TypeOK, LockInv, RetryInv, NEW c \in Callers, NEW k \in Collectors,
           Collecting(c, k)
    PROVE  ErrorsHaveRunOut'
  <1>0. /\ CollectorStep(c, k) /\ cached' = cached
        /\ TasksAgree /\ ErrorsHaveRunOut /\ Slow \subseteq Collectors
    BY DEF Collecting, cacheVars, RetryInv, Collectors
  <1>1. \A d \in Callers, j \in Collectors :
           d # c \/ j # k => task'[d][j] = task[d][j]
    <2>1. CollectorStep(c, k)
      BY DEF Collecting
    <2>2. QED
      BY <2>1, StepTask
  <1>2. /\ task[c][k].queried => task'[c][k].queried
        /\ Launch(c, k) => task'[c][k].queried
    <2>1. CASE Reuse(c, k)
      <3>1. IsFresh(k) /\ task'[c][k] = ReusedTask(c, k)
        BY <2>1, StepOutcomes
      <3>2. task'[c][k].queried <=> task[c][k].queried
        BY <3>1, EndedMore
      <3>3. ~Launch(c, k)
        BY <3>1 DEF Launch
      <3>4. QED
        BY <3>2, <3>3
    <2>2. CASE Launch(c, k)
      <3>1. task'[c][k] = LaunchedTask(c, k)
        BY <2>2, StepOutcomes
      <3>2. QED
        BY <3>1, LaunchedMore
    <2>3. CASE ResultStep(c, k) \/ FailureStep(c, k) \/ Hang(c, k)
      <3>1. /\ task[c][k].phase \in {"running", "hung"}
            /\ task'[c][k] \in {SucceededTask(c, k), FailedTask(c, k),
                               HungTask(c, k)}
        BY <2>3, StepOutcomes DEF Ends
      <3>2. task'[c][k].queried <=> task[c][k].queried
        BY <3>1, EndedMore
      <3>3. ~Launch(c, k)
        BY <3>1 DEF Launch
      <3>4. QED
        BY <3>2, <3>3
    <2>4. QED
      BY <1>0, <2>1, <2>2, <2>3, StepCases
  <1>3. ASSUME cached # NoSnapshot, NEW j \in Slow \cap cached.errors,
               cached.data[j] # NoData
        PROVE  \/ Queried(j)'
               \/ RanOut(j)' /\ \A d \in Callers :
                                   task'[d][j].phase \in {"off", "started"}
    <2>1. CASE Queried(j)
      BY <1>0, <1>1, <1>2, <2>1 DEF Queried
    <2>2. CASE ~Queried(j)
      <3>1. RanOut(j) /\ \A d \in Callers : task[d][j].phase \in {"off", "started"}
        BY <1>0, <1>3, <2>2 DEF ErrorsHaveRunOut
      <3>2. CASE j # k
        BY <1>0, <1>1, <3>1, <3>2, RanOutStays
      <3>3. CASE j = k
        <4>1. task[c][k].phase = "started" /\ ~IsFresh(k)
          <5>1. task[c][k].phase \in {"started", "running", "hung"}
            BY <1>0, StepTask
          <5>2. ~IsFresh(k)
            BY <3>1, <3>3, Numbers DEF RanOut, IsFresh
          <5>3. QED
            BY <3>1, <3>3, <5>1, <5>2
        <4>2. Launch(c, k)
          BY <1>0, <4>1, StepCases
            DEF Reuse, ResultStep, FailureStep, Ends, Hang
        <4>3. QED
          BY <1>2, <3>3, <4>2 DEF Queried
      <3>4. QED
        BY <3>2, <3>3
    <2>3. QED
      BY <2>1, <2>2
  <1>4. QED
    BY <1>0, <1>3 DEF ErrorsHaveRunOut

LEMMA RetryTick ==
    ASSUME TypeOK, RetryInv, Tick
    PROVE  RetryInv'
  <1>0. /\ CollectorTick /\ Slow \subseteq Collectors
        /\ EntriesAgree /\ TasksAgree /\ ServedHasRunOut /\ ErrorsHaveRunOut
    BY DEF Tick, Collectors, RetryInv
  <1>1. TasksAgree'
    BY <1>0, TickTask DEF TasksAgree
  <1>2. EntriesAgree'
    <2>1. ASSUME NEW k \in Slow, Known(k)'
          PROVE  /\ slowData'[k].err => slowData'[k].data = NoData
                 /\ slowData'[k].data # NoData =>
                       slowData'[k].since <= slowData'[k].data
      <3>1. /\ Known(k) /\ slowData'[k].data = Older(slowData[k].data)
            /\ slowData'[k].err = slowData[k].err
            /\ slowData'[k].since = IF slowData[k].since < SlowRefresh
                                       THEN slowData[k].since + 1
                                       ELSE slowData[k].since
        BY <1>0, <2>1, TickEntry
      <3>2. /\ slowData[k].err => slowData[k].data = NoData
            /\ slowData[k].data # NoData => slowData[k].since <= slowData[k].data
        BY <1>0, <3>1 DEF EntriesAgree
      <3>3. /\ slowData[k].data \in Outputs /\ slowData[k].since \in 0 .. SlowRefresh
        BY <3>1, EntryOf
      <3>4. SlowRefresh < MaxAge
        BY Numbers, CacheAssumption DEF StalenessBound
      <3>5. QED
        BY <3>1, <3>2, <3>3, <3>4, Numbers DEF Older, Outputs, Ages
    <2>2. QED
      BY <2>1 DEF EntriesAgree
  <1>3. ASSUME NEW k \in Slow, RanOut(k) PROVE RanOut(k)'
    BY <1>0, <1>3, TickEntry, Numbers DEF RanOut
  <1>4. ServedHasRunOut'
    BY <1>0, <1>3, TickTask, OlderType DEF ServedHasRunOut
  <1>5. ErrorsHaveRunOut'
    <2>1. ASSUME cached' # NoSnapshot, NEW k \in Slow \cap cached'.errors,
                 cached'.data[k] # NoData
          PROVE  \/ Queried(k)'
                 \/ RanOut(k)' /\ \A d \in Callers :
                                     task'[d][k].phase \in {"off", "started"}
      <3>1. cached # NoSnapshot /\ cached \in Snapshots
            /\ cached' = OlderSnapshot(cached)
        BY <2>1 DEF Tick, OlderSnapshot, TypeOK
      <3>2. k \in cached.errors /\ cached'.data[k] = Older(cached.data[k])
            /\ cached.data[k] \in Outputs
        BY <1>0, <2>1, <3>1, OlderSnapshotFields, SnapshotFields
      <3>3. cached.data[k] # NoData
        BY <2>1, <3>2, OlderType
      <3>4. \/ Queried(k)
            \/ RanOut(k) /\ \A d \in Callers :
                               task[d][k].phase \in {"off", "started"}
        BY <1>0, <3>1, <3>2, <3>3 DEF ErrorsHaveRunOut
      <3>5. \A d \in Callers : /\ task'[d][k].phase = task[d][k].phase
                              /\ task'[d][k].queried = task[d][k].queried
        BY <1>0, TickTask
      <3>6. QED
        BY <1>3, <3>4, <3>5 DEF Queried
    <2>2. QED
      BY <2>1 DEF ErrorsHaveRunOut
  <1>6. QED
    BY <1>1, <1>2, <1>4, <1>5 DEF RetryInv

LEMMA RetryReset ==
    ASSUME TypeOK, TasksAgree, EntriesAgree, ServedHasRunOut,
           NEW c \in Callers, NEW o \in {Off, Started},
           task' = [task EXCEPT ![c] = [k \in Collectors |-> o]],
           slowData' = slowData
    PROVE  /\ TasksAgree' /\ EntriesAgree' /\ ServedHasRunOut'
           /\ \A k \in Slow : RanOut(k)' <=> RanOut(k)
  <1>1. \A d \in Callers, j \in Collectors :
           task'[d][j] = IF d = c THEN o ELSE task[d][j]
    BY StartedTasks
  <1>2. o.phase \notin {"running", "hung", "done"} /\ ~o.queried /\ ~o.err
    BY OffIsTask DEF Off, Started
  <1>3. \A k \in Slow : (Known(k)' <=> Known(k)) /\ (RanOut(k)' <=> RanOut(k))
    BY DEF Known, RanOut
  <1>4. TasksAgree'
    BY <1>1, <1>2 DEF TasksAgree
  <1>5. EntriesAgree'
    BY <1>3 DEF EntriesAgree
  <1>6. Slow \subseteq Collectors
    BY DEF Collectors
  <1>7. ASSUME NEW d \in Callers, NEW j \in Slow
        PROVE  /\ task'[d][j].phase \in {"running", "hung"} /\ task'[d][j].known
                     => RanOut(j)'
               /\ task'[d][j].phase = "done" /\ task'[d][j].err
                     /\ task'[d][j].data # NoData => RanOut(j)'
    <2>1. CASE d = c
      BY <1>1, <1>2, <1>6, <2>1
    <2>2. CASE d # c
      BY <1>1, <1>3, <1>6, <2>2 DEF ServedHasRunOut
    <2>3. QED
      BY <2>1, <2>2
  <1>8. ServedHasRunOut'
    BY <1>7 DEF ServedHasRunOut
  <1>9. QED
    BY <1>3, <1>4, <1>5, <1>8

LEMMA RetryStep ==
    ASSUME TypeOK, LockInv, GoodInv, RetryInv, [Next]_vars PROVE RetryInv'
  <1>0. /\ EntriesAgree /\ TasksAgree /\ ServedHasRunOut /\ ErrorsHaveRunOut
        /\ Slow \subseteq Collectors
    BY DEF RetryInv, Collectors
  <1>1. CASE UNCHANGED << task, slowData, cached >>
    BY <1>0, <1>1 DEF RetryInv, EntriesAgree, TasksAgree, ServedHasRunOut,
                      ErrorsHaveRunOut, Queried, RanOut, Known
  <1>2. ASSUME NEW c \in Callers, Request(c) \/ Cancel(c) \/ Hit(c) \/ Finish(c)
        PROVE  RetryInv'
    BY <1>1, <1>2 DEF Request, Cancel, Hit, Finish, cacheVars, collectorVars
  <1>3. ASSUME NEW c \in Callers, Miss(c) PROVE RetryInv'
    <2>1. /\ TasksAgree' /\ EntriesAgree' /\ ServedHasRunOut'
          /\ \A k \in Slow : RanOut(k)' <=> RanOut(k)
      BY <1>0, <1>3, RetryReset DEF Miss, StartCollect
    <2>2. \A d \in Callers, j \in Collectors :
             task'[d][j] = IF d = c THEN Started ELSE task[d][j]
      BY <1>3, StartedTasks DEF Miss, StartCollect
    <2>3. holder = Nobody /\ cached' = cached
      BY <1>3 DEF Miss, CanLock
    <2>4. \A d \in Callers, j \in Collectors : task[d][j].phase = "off"
      BY <2>3, CacheAssumption DEF LockInv
    <2>5. \A k \in Slow : ~Queried(k)
      BY <1>0, <2>4 DEF Queried, TasksAgree
    <2>6. \A d \in Callers, j \in Collectors :
             task'[d][j].phase \in {"off", "started"}
      BY <2>2, <2>4, OffIsTask
    <2>7. ErrorsHaveRunOut'
      BY <1>0, <2>1, <2>3, <2>5, <2>6 DEF ErrorsHaveRunOut
    <2>8. QED
      BY <2>1, <2>7 DEF RetryInv
  <1>4. ASSUME NEW c \in Callers, Store(c) PROVE RetryInv'
    <2>1. /\ TasksAgree' /\ EntriesAgree' /\ ServedHasRunOut'
          /\ \A k \in Slow : RanOut(k)' <=> RanOut(k)
      BY <1>0, <1>4, RetryReset DEF Store, EndCollect
    <2>2. \A d \in Callers, j \in Collectors :
             task'[d][j] = IF d = c THEN Off ELSE task[d][j]
      BY <1>4, StartedTasks DEF Store, EndCollect
    <2>3. \A d \in Callers : d # c => pc[d] # "collecting"
      BY <1>4 DEF Store, LockInv
    <2>4. \A d \in Callers, j \in Collectors : task'[d][j].phase = "off"
      BY <2>2, <2>3, OffIsTask DEF LockInv
    <2>5. ASSUME NEW k \in Slow \cap cached'.errors, cached'.data[k] # NoData
          PROVE  RanOut(k)
      <3>1. cached' = Fetched(c)
        BY <1>4 DEF Store, Replaces
      <3>2. task[c][k].err /\ task[c][k].data # NoData
        BY <1>0, <2>5, <3>1, FetchedFields
      <3>3. task[c][k].phase = "done"
        BY <1>0, <1>4 DEF Store, AllDone
      <3>4. QED
        BY <1>0, <3>2, <3>3 DEF ServedHasRunOut
    <2>6. ErrorsHaveRunOut'
      BY <1>0, <2>1, <2>4, <2>5 DEF ErrorsHaveRunOut
    <2>7. QED
      BY <2>1, <2>6 DEF RetryInv
  <1>5. ASSUME NEW c \in Callers, NEW k \in Collectors, Collecting(c, k)
        PROVE  RetryInv'
    <2>1. CollectorStep(c, k)
      BY <1>5 DEF Collecting
    <2>2. TasksAgree' /\ EntriesAgree'
      BY <1>0, <2>1, AgreeCollects
    <2>3. ServedHasRunOut' /\ ErrorsHaveRunOut'
      BY <1>5, <2>1, ServedCollects, ErrorsCollects
    <2>4. QED
      BY <2>2, <2>3 DEF RetryInv
  <1>6. CASE Environment
    BY <1>1, <1>6 DEF Environment, SlurmChanges, cacheVars
  <1>7. CASE UNCHANGED vars
    BY <1>1, <1>7 DEF vars, collectorVars, cacheVars
  <1>8. QED
    BY <1>2, <1>3, <1>4, <1>5, <1>6, <1>7, RetryTick DEF Next

LEMMA RetryHolds == Spec => []RetryInv
  <1>1. ASSUME Init PROVE RetryInv
    <2>1. /\ \A k \in Slow : slowData[k] = NoEntry
          /\ \A c \in Callers, k \in Collectors : task[c][k] = Off
          /\ cached = NoSnapshot /\ Slow \subseteq Collectors
      BY <1>1 DEF Init, CollectorInit, Collectors
    <2>2. ~Off.queried /\ ~Off.err /\ Off.phase = "off"
      BY DEF Off
    <2>3. EntriesAgree /\ TasksAgree /\ ErrorsHaveRunOut
      BY <2>1, <2>2 DEF EntriesAgree, TasksAgree, ErrorsHaveRunOut, Known
    <2>4. ServedHasRunOut
      BY <2>1, <2>2 DEF ServedHasRunOut
    <2>5. QED
      BY <2>3, <2>4 DEF RetryInv
  <1>2. QED
    BY <1>1, RetryStep, TypeCorrect, LockHolds, GoodHolds, PTL DEF Spec

\* When a slow collector's refresh fails and its last good data is served, the
\* next collection launches its command again.
THEOREM RetriesFailedRefresh == Spec => FailedRefreshIsRetried
  <1>1. ASSUME TypeOK, LockInv, RetryInv, NEW c \in Callers, Store(c),
               cached # NoSnapshot, NEW k \in Slow \cap cached.errors,
               cached.data[k] # NoData
        PROVE  k \in cached'.tried
    <2>1. k \in Collectors
      BY DEF Collectors
    <2>2. task[c][k].phase = "done"
      BY <1>1, <2>1 DEF Store, AllDone
    <2>3. Queried(k)
      BY <1>1, <2>2 DEF RetryInv, ErrorsHaveRunOut
    <2>4. PICK d \in Callers : task[d][k].queried
      BY <2>3 DEF Queried
    <2>5. pc[d] = "collecting"
      BY <1>1, <2>1, <2>4 DEF RetryInv, TasksAgree, LockInv
    <2>6. d = c
      BY <1>1, <2>5 DEF Store, LockInv
    <2>7. cached'.tried = {j \in Collectors : task[c][j].queried}
      BY <1>1 DEF Store, Replaces, Fetched, Collected
    <2>8. QED
      BY <2>1, <2>4, <2>6, <2>7
  <1>2. TypeOK /\ LockInv /\ RetryInv =>
           \A c \in Callers : Store(c) /\ cached # NoSnapshot =>
              \A k \in Slow \cap cached.errors :
                 cached.data[k] # NoData => k \in cached'.tried
    BY <1>1
  <1>3. QED
    BY <1>2, TypeCorrect, LockHolds, RetryHolds, PTL DEF FailedRefreshIsRetried

\* The only step that launches a command is slow()'s, of the collector itself.
LEMMA OnlyLaunchRuns ==
    ASSUME TypeOK, [Next]_vars, NEW c \in Callers, NEW k \in Collectors,
           task[c][k].phase = "started", task'[c][k].phase = "running"
    PROVE  Launch(c, k)
  <1>1. task' # task
    OBVIOUS
  <1>2. ASSUME NEW d \in Callers, NEW o \in {Off, Started},
               task' = [task EXCEPT ![d] = [j \in Collectors |-> o]]
        PROVE  FALSE
    BY <1>2, StartedTasks, OffIsTask
  <1>3. ASSUME CollectorTick PROVE FALSE
    BY <1>3, TickTask
  <1>4. ASSUME NEW d \in Callers, NEW j \in Collectors, CollectorStep(d, j)
        PROVE  Launch(c, k)
    <2>1. d = c /\ j = k
      BY <1>4, StepTask
    <2>2. CASE Reuse(c, k)
      BY <2>2, StepOutcomes, ReusedFields
    <2>3. ~ResultStep(c, k) /\ ~FailureStep(c, k) /\ ~Hang(c, k)
      BY StepOutcomes DEF Ends
    <2>4. QED
      BY <1>4, <2>1, <2>2, <2>3, StepCases
  <1>5. QED
    BY <1>1, <1>2, <1>3, <1>4
    DEF Next, Request, Cancel, Hit, Miss, Store, Finish, Collecting, Environment,
        SlurmChanges, Tick, StartCollect, EndCollect, vars, collectorVars

\* A slow command that succeeded is not launched again before its entry has
\* run out.
THEOREM SparesTheSlowTier == Spec => SlowTierIsSpared
  <1>1. ASSUME TypeOK, GoodInv, RetryInv, [Next]_vars,
               NEW c \in Callers, NEW k \in Slow,
               task[c][k].phase = "started", task'[c][k].phase = "running"
        PROVE  good[k] = NoData \/ good[k] >= SlowRefresh
    <2>1. ~IsFresh(k)
      BY <1>1, OnlyLaunchRuns DEF Launch, Collectors
    <2>2. CASE ~Known(k)
      BY <1>1, <2>2 DEF Known, GoodInv, EntriesAreGood
    <2>3. CASE Known(k)
      <3>1. slowData[k].since = SlowRefresh
        <4>1. slowData[k].since \in 0 .. SlowRefresh
          BY <1>1, <2>3, EntryOf
        <4>2. ~(slowData[k].since < SlowRefresh)
          BY <2>1, <2>3 DEF IsFresh
        <4>3. QED
          BY <4>1, <4>2, Numbers
      <3>2. slowData[k].data = good[k]
        BY <1>1, <2>3 DEF Known, GoodInv, EntriesAreGood
      <3>3. slowData[k].data = NoData \/ slowData[k].data >= slowData[k].since
        <4>1. /\ slowData[k].data \in Outputs
              /\ slowData[k].since \in 0 .. SlowRefresh
          BY <1>1, <2>3, EntryOf
        <4>2. slowData[k].data # NoData =>
                 slowData[k].data >= slowData[k].since
          BY <1>1, <2>3, <4>1 DEF RetryInv, EntriesAgree
        <4>3. QED
          BY <4>2
      <3>4. QED
        BY <3>1, <3>2, <3>3
    <2>4. QED
      BY <2>2, <2>3
  <1>2. TypeOK /\ GoodInv /\ RetryInv /\ [Next]_vars =>
           \A c \in Callers, k \in Slow :
              task[c][k].phase = "started" /\ task'[c][k].phase = "running" =>
                 good[k] = NoData \/ good[k] >= SlowRefresh
    BY <1>1
  <1>3. QED
    BY <1>2, TypeCorrect, GoodHolds, RetryHolds, PTL DEF Spec, SlowTierIsSpared

(***************************************************************************)
(* The cache implements one shared snapshot.                               *)
(***************************************************************************)

SharedAge == IF cached = NoSnapshot THEN TTL ELSE cacheAge
Refreshing == {c \in Callers : pc[c] = "collecting"}
GivenNumbers == [c \in Callers |-> Number(given[c])]

LEMMA NumberOf ==
    /\ Number(NoSnapshot) = 0
    /\ \A s \in Snapshots : Number(s) = s.serial /\ Number(s) # 0
  BY SnapshotAssumption, SnapshotFields DEF Number

\* Before the first snapshot, the next number is 1.
LEMMA NumberFollows ==
    ASSUME TypeOK
    PROVE  NextSerial = Shared!Following(Number(cached))
  <1>1. CASE cached = NoSnapshot
    <2>1. 0 % Serials = 0
      BY CacheAssumption
    <2>2. QED
      BY <1>1, <2>1 DEF NextSerial, Number, Shared!Following
  <1>2. CASE cached # NoSnapshot
    BY <1>2 DEF NextSerial, Number, Shared!Following
  <1>3. QED
    BY <1>1, <1>2

LEMMA NobodyRefreshes ==
    ASSUME TypeOK, LockInv, holder = Nobody
    PROVE  Refreshing = {}
  BY CacheAssumption DEF Refreshing, LockInv

LEMMA SharedStep ==
    ASSUME TypeOK, LockInv, [Next]_vars
    PROVE  [Shared!Next]_(Shared!vars)
  <1>0. /\ pc \in [Callers -> {"idle", "waiting", "collecting", "answered"}]
        /\ given \in [Callers -> Snapshots \cup {NoSnapshot}]
        /\ cached \in Snapshots \cup {NoSnapshot}
        /\ cacheAge \in 0 .. TTL /\ TTL \in Nat
    BY Numbers DEF TypeOK
  <1>1. ASSUME UNCHANGED << cached, cacheAge, given >>, Refreshing' = Refreshing
        PROVE  UNCHANGED Shared!vars
    BY <1>1 DEF Shared!vars, Refreshing, Number
  <1>2. ASSUME NEW c \in Callers, Request(c) \/ Cancel(c)
        PROVE  [Shared!Next]_(Shared!vars)
    <2>1. Refreshing' = Refreshing
      BY <1>0, <1>2 DEF Request, Cancel, cacheVars, Refreshing
    <2>2. QED
      BY <1>1, <1>2, <2>1 DEF Request, Cancel, cacheVars
  <1>3. ASSUME NEW c \in Callers, Hit(c) PROVE Shared!HandOver(c)
    <2>1. Refreshing = {} /\ Refreshing' = Refreshing
      BY <1>0, <1>3, NobodyRefreshes DEF Hit, CanLock, Refreshing
    <2>2. cached # NoSnapshot /\ cacheAge < TTL /\ Number(cached) # 0
      BY <1>0, <1>3, NumberOf DEF Hit, CacheValid
    <2>3. GivenNumbers' = [GivenNumbers EXCEPT ![c] = Number(cached)]
      BY <1>0, <1>3 DEF Hit, GivenNumbers, Number
    <2>4. UNCHANGED << cached, cacheAge >>
      BY <1>3 DEF Hit
    <2>5. QED
      BY <2>1, <2>2, <2>3, <2>4
      DEF Shared!HandOver, Refreshing, GivenNumbers, Number
  <1>4. ASSUME NEW c \in Callers, Miss(c) PROVE Shared!BeginRefresh(c)
    <2>1. Refreshing = {}
      BY <1>4, NobodyRefreshes DEF Miss, CanLock
    <2>2. Refreshing' = {c}
      BY <1>0, <1>4, <2>1 DEF Miss, Refreshing
    <2>3. SharedAge = TTL
      BY <1>0, <1>4 DEF Miss, CacheValid, SharedAge
    <2>4. UNCHANGED << cached, cacheAge, given >>
      BY <1>4 DEF Miss
    <2>5. QED
      BY <2>1, <2>2, <2>3, <2>4
      DEF Shared!BeginRefresh, Refreshing, SharedAge, Number
  <1>5. ASSUME NEW c \in Callers, Store(c) PROVE Shared!EndRefresh(c)
    <2>1. Refreshing = {c}
      BY <1>5 DEF Store, LockInv, Refreshing
    <2>2. Refreshing' = {}
      BY <1>0, <1>5, <2>1 DEF Store, Refreshing
    <2>3. /\ cached' = Fetched(c) /\ cacheAge' = 0
          /\ given' = [given EXCEPT ![c] = Fetched(c)]
      BY <1>5 DEF Store, Replaces
    <2>4. /\ Fetched(c) \in Snapshots /\ Fetched(c) # NoSnapshot
          /\ Number(Fetched(c)) = Shared!Following(Number(cached))
      BY FetchedFields, NumberOf, NumberFollows, SnapshotAssumption
    <2>5. Number(cached)' = Shared!Following(Number(cached))
      BY <2>3, <2>4 DEF Number
    <2>6. SharedAge' = 0
      BY <2>3, <2>4 DEF SharedAge
    <2>7. GivenNumbers' = [GivenNumbers EXCEPT ![c] = Number(cached)']
      BY <1>0, <2>3 DEF GivenNumbers, Number
    <2>8. QED
      BY <2>1, <2>2, <2>5, <2>6, <2>7
      DEF Shared!EndRefresh, Refreshing, SharedAge, GivenNumbers
  <1>6. ASSUME NEW c \in Callers, Finish(c) PROVE Shared!Release(c)
    <2>1. Refreshing' = Refreshing
      BY <1>0, <1>6 DEF Finish, Refreshing
    <2>2. GivenNumbers' = [GivenNumbers EXCEPT ![c] = 0]
      BY <1>0, <1>6, NumberOf DEF Finish, GivenNumbers, Number
    <2>3. UNCHANGED << cached, cacheAge >>
      BY <1>6 DEF Finish
    <2>4. QED
      BY <2>1, <2>2, <2>3 DEF Shared!Release, Refreshing, GivenNumbers, Number
  <1>7. ASSUME NEW c \in Callers, NEW k \in Collectors, Collecting(c, k)
        PROVE  UNCHANGED Shared!vars
    <2>1. UNCHANGED << cached, cacheAge, given, pc >>
      BY <1>7 DEF Collecting, cacheVars
    <2>2. QED
      BY <1>1, <2>1 DEF Refreshing
  <1>8. CASE Environment \/ UNCHANGED vars
    <2>1. UNCHANGED << cached, cacheAge, given, pc >>
      BY <1>8 DEF Environment, cacheVars, vars
    <2>2. QED
      BY <1>1, <2>1 DEF Refreshing
  <1>9. CASE Tick
    <2>1. /\ cached' = OlderSnapshot(cached) /\ UNCHANGED << pc, given >>
          /\ cacheAge' = IF cacheAge < TTL THEN cacheAge + 1 ELSE cacheAge
      BY <1>9 DEF Tick
    <2>2. Refreshing' = Refreshing /\ GivenNumbers' = GivenNumbers
      BY <2>1 DEF Refreshing, GivenNumbers, Number
    <2>3. CASE cached = NoSnapshot
      <3>1. cached' = NoSnapshot
        BY <2>1, <2>3 DEF OlderSnapshot
      <3>2. QED
        BY <2>2, <2>3, <3>1 DEF Shared!vars, Refreshing, GivenNumbers, Number
    <2>4. CASE cached # NoSnapshot
      <3>1. /\ cached' \in Snapshots /\ cached' # NoSnapshot
            /\ cached'.serial = cached.serial
        BY <1>0, <2>1, <2>4, OlderSnapshotFields, SnapshotAssumption
      <3>2. Number(cached)' = Number(cached)
        BY <2>4, <3>1 DEF Number
      <3>3. SharedAge = cacheAge /\ SharedAge' = cacheAge'
        BY <2>4, <3>1 DEF SharedAge
      <3>4. CASE cacheAge < TTL
        <4>1. Shared!Age
          BY <2>1, <2>2, <3>2, <3>3, <3>4
          DEF Shared!Age, Refreshing, GivenNumbers, SharedAge
        <4>2. QED
          BY <4>1 DEF Shared!Next
      <3>5. CASE ~(cacheAge < TTL)
        BY <2>1, <2>2, <3>2, <3>3, <3>5
        DEF Shared!vars, Refreshing, GivenNumbers, SharedAge
      <3>6. QED
        BY <3>4, <3>5
    <2>5. QED
      BY <2>3, <2>4
  <1>10. QED
    BY <1>2, <1>3, <1>4, <1>5, <1>6, <1>7, <1>8, <1>9 DEF Next, Shared!Next

\* Seen through what callers are handed, the lock, the collections and their
\* failures are one snapshot that is replaced at most once in TTL.
THEOREM RefinesSharedSnapshot == Spec => ImplementsSharedSnapshot
  <1>1. Init => Shared!Init
    BY CacheAssumption DEF Init, Shared!Init, Number
  <1>2. QED
    BY <1>1, SharedStep, TypeCorrect, LockHolds, PTL
    DEF Spec, ImplementsSharedSnapshot, Shared!Spec
=============================================================================
