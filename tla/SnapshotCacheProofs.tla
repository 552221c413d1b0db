------------------------ MODULE SnapshotCacheProofs ------------------------
(***************************************************************************)
(* Theorems about SnapshotCache and Collector, for every set of callers    *)
(* and of collectors, every TTL, slow refresh interval and timeout.        *)
(***************************************************************************)
EXTENDS SnapshotCache, TLAPS

(***************************************************************************)
(* Types.                                                                  *)
(***************************************************************************)

LEMMA Numbers ==
    /\ TTL \in Nat /\ SlowRefresh \in Nat \ {0} /\ Timeout \in Nat \ {0}
    /\ MaxAge \in Nat /\ MaxAge > StalenessBound /\ StalenessBound \in Nat
    /\ 0 .. Timeout \subseteq Ages /\ NoData \notin Ages
  BY CollectorAssumption, CacheAssumption DEF StalenessBound, Ages

LEMMA OlderType ==
    ASSUME NEW d \in Outputs
    PROVE  /\ Older(d) \in Outputs
           /\ d = NoData <=> Older(d) = NoData
           /\ \A n \in Nat : Within(d, n) => Within(Older(d), n + 1)
           /\ \A n \in Nat : Within(d, n) => d \in Nat
           /\ d \in Ages <=> Older(d) \in Ages
  BY Numbers DEF Older, Outputs, Ages, Within

LEMMA OlderTogether ==
    ASSUME NEW d \in Ages, NEW b \in Ages, NEW n \in Nat, d <= b + n
    PROVE  Older(d) <= Older(b) + n
  BY Numbers DEF Older, Ages

LEMMA OlderByOne ==
    ASSUME NEW d \in Outputs, NEW n \in Nat, n < MaxAge, d # NoData, d < n
    PROVE  Older(d) \in 0 .. n
  BY Numbers DEF Older, Outputs, Ages

LEMMA OlderEntryFields ==
    ASSUME NEW e \in Entries, e # NoEntry
    PROVE  /\ OlderEntry(e) \in Entries
           /\ OlderEntry(e).since = IF e.since < SlowRefresh THEN e.since + 1
                                                            ELSE e.since
           /\ OlderEntry(e).data = Older(e.data)
           /\ OlderEntry(e).err = e.err /\ OlderEntry(e).late = e.late
  <1> DEFINE n == IF e.since < SlowRefresh THEN e.since + 1 ELSE e.since
             d == Older(e.data)
  <1>1. e.data \in Outputs /\ e.since \in 0 .. SlowRefresh
    BY DEF Entries
  <1>2. n \in 0 .. SlowRefresh /\ d \in Outputs
    BY <1>1, OlderType, Numbers
  <1>3. OlderEntry(e) = [e EXCEPT !.since = n, !.data = d]
    BY DEF OlderEntry
  <1>4. n = IF e.since < SlowRefresh THEN e.since + 1 ELSE e.since
    OBVIOUS
  <1>5. d = Older(e.data)
    OBVIOUS
  <1> HIDE DEF n, d
  <1>6. /\ [e EXCEPT !.since = n, !.data = d] \in Entries
        /\ [e EXCEPT !.since = n, !.data = d].since = n
        /\ [e EXCEPT !.since = n, !.data = d].data = d
        /\ [e EXCEPT !.since = n, !.data = d].err = e.err
        /\ [e EXCEPT !.since = n, !.data = d].late = e.late
    BY <1>2 DEF Entries
  <1>7. QED
    BY <1>3, <1>4, <1>5, <1>6

LEMMA OlderEntryType ==
    ASSUME NEW e \in Entries \cup {NoEntry}
    PROVE  OlderEntry(e) \in Entries \cup {NoEntry}
  <1>1. CASE e = NoEntry
    BY <1>1 DEF OlderEntry
  <1>2. CASE e # NoEntry
    <2>1. e \in Entries /\ e.data \in Outputs /\ e.err \in BOOLEAN
          /\ e.since \in 0 .. SlowRefresh
      BY <1>2 DEF Entries
    <2>2. OlderEntry(e) \in Entries
      BY <1>2, <2>1, OlderEntryFields
    <2>3. QED
      BY <2>2
  <1>3. QED
    BY <1>1, <1>2

LEMMA TaskFields ==
    ASSUME NEW t \in Tasks
    PROVE  /\ t.phase \in Phases
           /\ t.known \in BOOLEAN /\ t.data \in Outputs /\ t.err \in BOOLEAN
           /\ t.queried \in BOOLEAN /\ t.late \in BOOLEAN
  BY DEF Tasks

LEMMA OlderTaskType ==
    ASSUME NEW t \in Tasks
    PROVE  /\ OlderTask(t) \in Tasks
           /\ OlderTask(t).phase = t.phase
           /\ OlderTask(t).err = t.err
           /\ OlderTask(t).known = t.known
           /\ OlderTask(t).queried = t.queried
           /\ OlderTask(t).late = t.late
           /\ OlderTask(t).data = Older(t.data)
  <1> DEFINE o == Older(t.data)
  <1>1. o \in Outputs
    BY TaskFields, OlderType
  <1>2. OlderTask(t) = [t EXCEPT !.data = o]
    BY DEF OlderTask
  <1> HIDE DEF o
  <1>3. /\ [t EXCEPT !.data = o] \in Tasks
        /\ [t EXCEPT !.data = o].phase = t.phase
        /\ [t EXCEPT !.data = o].err = t.err
        /\ [t EXCEPT !.data = o].known = t.known
        /\ [t EXCEPT !.data = o].queried = t.queried
        /\ [t EXCEPT !.data = o].late = t.late
        /\ [t EXCEPT !.data = o].data = o
    BY <1>1 DEF Tasks
  <1>4. QED
    BY <1>2, <1>3 DEF o

LEMMA OffIsTask == Off \in Tasks /\ Started \in Tasks
                   /\ Off.phase = "off" /\ Started.phase = "started"
  <1>1. NoData \in Outputs
    BY DEF Outputs
  <1>2. {"off", "started"} \subseteq Phases
    BY DEF Phases
  <1>3. Off \in Tasks /\ Off.phase = "off"
    BY <1>1, <1>2 DEF Off, Tasks
  <1>4. QED
    BY <1>2, <1>3 DEF Started, Tasks

(***************************************************************************)
(* One task of one caller changes.                                         *)
(***************************************************************************)

LEMMA TaskOf ==
    ASSUME TypeOK, NEW c \in Callers, NEW k \in Collectors
    PROVE  task[c][k] \in Tasks
  BY DEF TypeOK, CollectorTypeOK

\* What becomes of the task in each step of a collector, as a record.
ReusedTask(c, k) ==
    [task[c][k] EXCEPT !.phase = "done", !.data = slowData[k].data,
                       !.err = slowData[k].err, !.late = slowData[k].late]
LaunchedTask(c, k) ==
    [task[c][k] EXCEPT !.phase = "running", !.queried = TRUE,
                       !.known = Known(k),
                       !.data = IF Known(k) THEN slowData[k].data ELSE NoData]
SucceededTask(c, k) ==
    [task[c][k] EXCEPT !.phase = "done", !.data = start[c]]
FailedTask(c, k) == [task[c][k] EXCEPT !.phase = "done", !.err = TRUE]
HungTask(c, k) == [task[c][k] EXCEPT !.phase = "hung", !.late = TRUE]

\* A command ends, in time or late.
Ends(c, k) == task[c][k].phase \in {"running", "hung"}
ResultStep(c, k) == Ends(c, k) /\ Result(c, k)
FailureStep(c, k) == Ends(c, k) /\ Failure(c, k)

LEMMA StepCases ==
    ASSUME NEW c, NEW k, CollectorStep(c, k)
    PROVE  \/ Reuse(c, k) \/ Launch(c, k) \/ ResultStep(c, k)
           \/ FailureStep(c, k) \/ Hang(c, k)
  BY DEF CollectorStep, Succeed, Fail, Return, ResultStep, FailureStep, Ends

Becomes(c, k, t) == task' = [task EXCEPT ![c] = [task[c] EXCEPT ![k] = t]]

LEMMA StepsBecome ==
    ASSUME TypeOK, NEW c \in Callers, NEW k \in Collectors
    PROVE  /\ Reuse(c, k) => Becomes(c, k, ReusedTask(c, k))
           /\ Launch(c, k) => Becomes(c, k, LaunchedTask(c, k))
           /\ ResultStep(c, k) => Becomes(c, k, SucceededTask(c, k))
           /\ FailureStep(c, k) => Becomes(c, k, FailedTask(c, k))
           /\ Hang(c, k) => Becomes(c, k, HungTask(c, k))
  <1>1. Reuse(c, k) => Becomes(c, k, ReusedTask(c, k))
    BY DEF Reuse, Becomes, ReusedTask
  <1>2. Launch(c, k) => Becomes(c, k, LaunchedTask(c, k))
    BY DEF Launch, Becomes, LaunchedTask
  <1>3. ResultStep(c, k) => Becomes(c, k, SucceededTask(c, k))
    BY DEF ResultStep, Result, Becomes, SucceededTask
  <1>4. FailureStep(c, k) => Becomes(c, k, FailedTask(c, k))
    BY DEF FailureStep, Failure, ServedOnFailure, Becomes, FailedTask
  <1>5. Hang(c, k) => Becomes(c, k, HungTask(c, k))
    BY DEF Hang, Becomes, HungTask
  <1>6. QED
    BY <1>1, <1>2, <1>3, <1>4, <1>5

LEMMA BecomesType ==
    ASSUME TypeOK, NEW c \in Callers, NEW k \in Collectors, NEW t \in Tasks,
           Becomes(c, k, t)
    PROVE  /\ task' \in [Callers -> [Collectors -> Tasks]]
           /\ task'[c][k] = t
           /\ \A d \in Callers, j \in Collectors :
                 d # c \/ j # k => task'[d][j] = task[d][j]
  BY DEF TypeOK, CollectorTypeOK, Becomes

LEMMA EntryOf ==
    ASSUME TypeOK, NEW k, Known(k)
    PROVE  /\ slowData[k] \in Entries
           /\ slowData[k].data \in Outputs /\ slowData[k].err \in BOOLEAN
           /\ slowData[k].since \in 0 .. SlowRefresh
           /\ slowData[k].late \in BOOLEAN
  BY DEF TypeOK, CollectorTypeOK, Known, Entries

LEMMA ReusedFields ==
    ASSUME TypeOK, NEW c \in Callers, NEW k \in Collectors, IsFresh(k)
    PROVE  /\ ReusedTask(c, k) \in Tasks
           /\ ReusedTask(c, k).phase = "done"
           /\ ReusedTask(c, k).data = slowData[k].data
           /\ ReusedTask(c, k).err = slowData[k].err
           /\ ReusedTask(c, k).late = slowData[k].late
           /\ ReusedTask(c, k).queried = task[c][k].queried
  <1>1. task[c][k] \in Tasks
    BY TaskOf
  <1>2. /\ slowData[k].data \in Outputs /\ slowData[k].err \in BOOLEAN
        /\ slowData[k].late \in BOOLEAN
    BY EntryOf DEF IsFresh
  <1>3. QED
    BY <1>1, <1>2 DEF ReusedTask, Tasks, Phases

LEMMA LaunchedFields ==
    ASSUME TypeOK, NEW c \in Callers, NEW k \in Collectors
    PROVE  /\ LaunchedTask(c, k) \in Tasks
           /\ LaunchedTask(c, k).phase = "running"
           /\ LaunchedTask(c, k).queried
           /\ LaunchedTask(c, k).late = task[c][k].late
  <1> DEFINE d == IF Known(k) THEN slowData[k].data ELSE NoData
             n == Known(k)
  <1>1. task[c][k] \in Tasks
    BY TaskOf
  <1>2. d \in Outputs
    BY EntryOf DEF Outputs
  <1>3. n \in BOOLEAN
    BY DEF Known
  <1>4. LaunchedTask(c, k) = [task[c][k] EXCEPT !.phase = "running",
                                !.queried = TRUE, !.known = n, !.data = d]
    BY DEF LaunchedTask
  <1> HIDE DEF d, n
  <1>5. QED
    BY <1>1, <1>2, <1>3, <1>4 DEF Tasks, Phases

LEMMA SucceededFields ==
    ASSUME TypeOK, NEW c \in Callers, NEW k \in Collectors
    PROVE  /\ SucceededTask(c, k) \in Tasks
           /\ SucceededTask(c, k).phase = "done"
           /\ SucceededTask(c, k).data = start[c]
           /\ SucceededTask(c, k).err = task[c][k].err
           /\ SucceededTask(c, k).queried = task[c][k].queried
           /\ SucceededTask(c, k).late = task[c][k].late
           /\ start[c] \in Outputs
           /\ Ends(c, k) => start[c] \in Ages /\ start[c] # NoData
           /\ task[c][k].phase = "running" => start[c] \in 0 .. Timeout
  <1>1. task[c][k] \in Tasks
    BY TaskOf
  <1>2. start[c] \in Outputs /\ InTime
    BY DEF TypeOK, CollectorTypeOK
  <1>3. /\ Ends(c, k) => start[c] \in Ages /\ start[c] # NoData
        /\ task[c][k].phase = "running" => start[c] \in 0 .. Timeout
    BY <1>2, Numbers DEF Ends, InTime
  <1>4. QED
    BY <1>1, <1>2, <1>3, TaskFields DEF SucceededTask, Tasks, Phases

LEMMA FailedFields ==
    ASSUME TypeOK, NEW c \in Callers, NEW k \in Collectors
    PROVE  /\ FailedTask(c, k) \in Tasks
           /\ FailedTask(c, k).phase = "done"
           /\ FailedTask(c, k).err
           /\ FailedTask(c, k).queried = task[c][k].queried
           /\ FailedTask(c, k).late = task[c][k].late
           /\ HungTask(c, k) \in Tasks
           /\ HungTask(c, k).phase = "hung"
           /\ HungTask(c, k).queried = task[c][k].queried
           /\ HungTask(c, k).late
  <1>1. task[c][k] \in Tasks
    BY TaskOf
  <1>2. QED
    BY <1>1 DEF FailedTask, HungTask, Tasks, Phases

LEMMA EntryMade ==
    ASSUME NEW d \in Outputs, NEW e \in BOOLEAN, NEW l \in BOOLEAN
    PROVE  [since |-> 0, data |-> d, err |-> e, late |-> l] \in Entries
  BY Numbers DEF Entries

\* What a step of a collector does to the other variables' types.
LEMMA InTimeStep ==
    ASSUME TypeOK, NEW c \in Callers, NEW k \in Collectors, start' = start,
           NEW t \in Tasks, Becomes(c, k, t),
           \/ t.phase = "running" /\ task[c][k].phase = "started"
           \/ t.phase \in {"done", "hung"} /\ task[c][k].phase # "off"
    PROVE  InTime'
  <1>1. /\ InTime /\ 0 \in 0 .. Timeout
        /\ task'[c][k] = t
        /\ \A d \in Callers, j \in Collectors :
              d # c \/ j # k => task'[d][j] = task[d][j]
    BY BecomesType, Numbers DEF TypeOK, CollectorTypeOK
  <1>2. QED
    BY <1>1 DEF InTime

LEMMA CollectorTypeStep ==
    ASSUME TypeOK, NEW c \in Callers, NEW k \in Collectors,
           CollectorStep(c, k)
    PROVE  CollectorTypeOK'
  <1>0. /\ slowData \in [Slow -> Entries \cup {NoEntry}]
        /\ cancelled \subseteq Callers /\ slurm \in {"up", "down"}
        /\ good \in [Slow -> Outputs] /\ start \in [Callers -> Outputs]
    BY DEF TypeOK, CollectorTypeOK
  <1>1. CASE Reuse(c, k)
    <2>1. /\ task' \in [Callers -> [Collectors -> Tasks]] /\ InTime'
      BY <1>1, StepsBecome, ReusedFields, BecomesType, InTimeStep DEF Reuse
    <2>2. QED
      BY <1>0, <1>1, <2>1 DEF Reuse, CollectorTypeOK
  <1>2. CASE Launch(c, k)
    <2>0. /\ Becomes(c, k, LaunchedTask(c, k)) /\ LaunchedTask(c, k) \in Tasks
          /\ LaunchedTask(c, k).phase = "running"
          /\ task[c][k].phase = "started" /\ start' = start
      BY <1>2, StepsBecome, LaunchedFields DEF Launch
    <2>1. task' \in [Callers -> [Collectors -> Tasks]] /\ InTime'
      BY <2>0, BecomesType, InTimeStep
    <2>2. QED
      BY <1>0, <1>2, <2>1 DEF Launch, CollectorTypeOK
  <1>3. CASE ResultStep(c, k)
    <2>0. task[c][k].phase # "off" /\ start' = start
      BY <1>3 DEF ResultStep, Result, Ends
    <2>1. task' \in [Callers -> [Collectors -> Tasks]] /\ InTime'
      BY <1>3, <2>0, StepsBecome, SucceededFields, BecomesType, InTimeStep
    <2>2. good' \in [Slow -> Outputs]
      BY <1>0, <1>3, SucceededFields DEF ResultStep, Result
    <2>3. [since |-> 0, data |-> start[c], err |-> FALSE,
           late |-> task[c][k].late] \in Entries
      BY SucceededFields, TaskOf, TaskFields, EntryMade
    <2>4. slowData' \in [Slow -> Entries \cup {NoEntry}]
      BY <1>0, <1>3, <2>3 DEF ResultStep, Result
    <2>5. QED
      BY <1>0, <1>3, <2>1, <2>2, <2>4 DEF ResultStep, Result, CollectorTypeOK
  <1>4. CASE FailureStep(c, k)
    <2>0. task[c][k].phase # "off" /\ start' = start
      BY <1>4 DEF FailureStep, Failure, Ends
    <2>1. task' \in [Callers -> [Collectors -> Tasks]] /\ InTime'
      BY <1>4, <2>0, StepsBecome, FailedFields, BecomesType, InTimeStep
    <2>2. [since |-> 0, data |-> NoData, err |-> TRUE, late |-> FALSE] \in Entries
      BY EntryMade DEF Outputs
    <2>3. slowData' \in [Slow -> Entries \cup {NoEntry}]
      BY <1>0, <1>4, <2>2 DEF FailureStep, Failure, EntriesOnFailure
    <2>4. QED
      BY <1>0, <1>4, <2>1, <2>3 DEF FailureStep, Failure, CollectorTypeOK
  <1>5. CASE Hang(c, k)
    <2>1. task' \in [Callers -> [Collectors -> Tasks]] /\ InTime'
      BY <1>5, StepsBecome, FailedFields, BecomesType, InTimeStep DEF Hang
    <2>2. QED
      BY <1>0, <1>5, <2>1 DEF Hang, CollectorTypeOK
  <1>6. QED
    BY <1>1, <1>2, <1>3, <1>4, <1>5, StepCases

LEMMA TicksType ==
    ASSUME TypeOK, CollectorTick
    PROVE  CollectorTypeOK'
  <1>0. InTime /\ start \in [Callers -> Outputs]
    BY DEF TypeOK, CollectorTypeOK
  <1>1. ASSUME NEW c \in Callers, NEW k \in Collectors
        PROVE  /\ OlderTask(task[c][k]) \in Tasks
               /\ OlderTask(task[c][k]).phase = task[c][k].phase
    BY <1>1, TaskOf, OlderTaskType
  <1>2. task' \in [Callers -> [Collectors -> Tasks]]
    BY <1>1 DEF CollectorTick
  <1>3. slowData' \in [Slow -> Entries \cup {NoEntry}]
    BY OlderEntryType DEF TypeOK, CollectorTypeOK, CollectorTick
  <1>4. good' \in [Slow -> Outputs] /\ start' \in [Callers -> Outputs]
    BY <1>0, OlderType DEF TypeOK, CollectorTypeOK, CollectorTick
  <1>5. InTime'
    <2>1. ASSUME NEW c \in Callers, NEW k \in Collectors
          PROVE  /\ task'[c][k].phase # "off" => start'[c] \in Ages
                 /\ task'[c][k].phase = "started" => start'[c] = 0
                 /\ task'[c][k].phase = "running" => start'[c] \in 0 .. Timeout
      <3>1. task'[c][k].phase = task[c][k].phase /\ start'[c] = Older(start[c])
            /\ start[c] \in Outputs
        BY <1>0, <1>1 DEF CollectorTick
      <3>2. /\ task[c][k].phase # "off" => start[c] \in Ages
            /\ task[c][k].phase # "started"
            /\ task[c][k].phase = "running" =>
                  start[c] < Timeout /\ start[c] \in 0 .. Timeout
        BY <1>0 DEF InTime, CollectorTick, MayTick
      <3>3. start[c] \in Ages => Older(start[c]) \in Ages
        BY <3>1, OlderType
      <3>4. Timeout \in Nat /\ Timeout < MaxAge
        BY Numbers, CacheAssumption DEF StalenessBound
      <3>5. start[c] \in 0 .. Timeout /\ start[c] < Timeout =>
               Older(start[c]) \in 0 .. Timeout
        BY <3>1, <3>4, Numbers, OlderByOne
      <3>6. QED
        BY <3>1, <3>2, <3>3, <3>5
    <2>2. QED
      BY <2>1 DEF InTime
  <1>6. QED
    BY <1>2, <1>3, <1>4, <1>5 DEF TypeOK, CollectorTypeOK, CollectorTick

LEMMA SerialType ==
    ASSUME NEW n \in 1 .. Serials
    PROVE  (n % Serials) + 1 \in 1 .. Serials
  <1>1. n % Serials \in 0 .. Serials - 1
    BY CacheAssumption
  <1>2. QED
    BY <1>1, CacheAssumption

LEMMA SnapshotFields ==
    ASSUME NEW s \in Snapshots
    PROVE  /\ s.data \in [Collectors -> Outputs]
           /\ s.errors \subseteq Collectors /\ s.tried \subseteq Collectors
           /\ s.late \subseteq Collectors /\ s.began \in Outputs
           /\ s.serial \in 1 .. Serials
  BY DEF Snapshots

LEMMA FetchedFields ==
    ASSUME TypeOK, NEW c \in Callers
    PROVE  /\ Fetched(c) \in Snapshots
           /\ \A k \in Collectors : Fetched(c).data[k] = task[c][k].data
           /\ \A k \in Collectors : k \in Fetched(c).errors <=> task[c][k].err
           /\ Fetched(c).tried = {k \in Collectors : task[c][k].queried}
           /\ Fetched(c).late = {k \in Collectors : task[c][k].late}
           /\ Fetched(c).began = start[c]
           /\ Fetched(c).serial = NextSerial
  <1>1. NextSerial \in 1 .. Serials
    <2>1. CASE cached = NoSnapshot
      BY <2>1, CacheAssumption DEF NextSerial
    <2>2. CASE cached # NoSnapshot
      BY <2>2, SnapshotFields, SerialType DEF NextSerial, TypeOK
    <2>3. QED
      BY <2>1, <2>2
  <1>2. [k \in Collectors |-> task[c][k].data] \in [Collectors -> Outputs]
    BY TaskOf, TaskFields
  <1>3. start[c] \in Outputs
    BY DEF TypeOK, CollectorTypeOK
  <1>4. QED
    BY <1>1, <1>2, <1>3 DEF Fetched, Collected, Snapshots

LEMMA OlderSnapshotFields ==
    ASSUME NEW s \in Snapshots, s # NoSnapshot
    PROVE  /\ OlderSnapshot(s) \in Snapshots
           /\ \A k \in Collectors : OlderSnapshot(s).data[k] = Older(s.data[k])
           /\ OlderSnapshot(s).errors = s.errors
           /\ OlderSnapshot(s).tried = s.tried /\ OlderSnapshot(s).late = s.late
           /\ OlderSnapshot(s).began = Older(s.began)
           /\ OlderSnapshot(s).serial = s.serial
  <1> DEFINE d == [k \in Collectors |-> Older(s.data[k])]
  <1> DEFINE b == Older(s.began)
  <1>1. d \in [Collectors -> Outputs] /\ b \in Outputs
    BY SnapshotFields, OlderType
  <1>2. OlderSnapshot(s) = [s EXCEPT !.data = d, !.began = b]
    BY DEF OlderSnapshot
  <1>3. (\A k \in Collectors : d[k] = Older(s.data[k])) /\ b = Older(s.began)
    OBVIOUS
  <1> HIDE DEF d, b
  <1>4. QED
    BY <1>1, <1>2, <1>3 DEF Snapshots

\* What TypeOK says of the cache's own variables.
CacheTypeOK ==
    /\ pc \in [Callers -> {"idle", "waiting", "collecting", "answered"}]
    /\ holder \in Callers \cup {Nobody}
    /\ cached \in Snapshots \cup {NoSnapshot}
    /\ cacheAge \in 0 .. TTL
    /\ given \in [Callers -> Snapshots \cup {NoSnapshot}]
    /\ asked \subseteq Callers

LEMMA InitType == Init => TypeOK
  <1> SUFFICES ASSUME Init PROVE TypeOK
    OBVIOUS
  <1>1. CollectorTypeOK
    BY OffIsTask DEF Init, CollectorInit, CollectorTypeOK, InTime, Outputs
  <1>2. CacheTypeOK
    BY Numbers DEF Init, CacheTypeOK
  <1>3. QED
    BY <1>1, <1>2 DEF TypeOK, CacheTypeOK

LEMMA StartType ==
    ASSUME TypeOK, NEW c \in Callers, StartCollect(c) \/ EndCollect(c)
    PROVE  /\ task' \in [Callers -> [Collectors -> Tasks]]
           /\ start' \in [Callers -> Outputs] /\ InTime'
  <1>1. /\ [k \in Collectors |-> Started] \in [Collectors -> Tasks]
        /\ [k \in Collectors |-> Off] \in [Collectors -> Tasks]
    BY OffIsTask
  <1>2. 0 \in Ages /\ {0, NoData} \subseteq Outputs
    BY Numbers DEF Outputs, Ages
  <1>3. task \in [Callers -> [Collectors -> Tasks]]
        /\ start \in [Callers -> Outputs] /\ InTime
    BY DEF TypeOK, CollectorTypeOK
  <1>4. /\ task' \in [Callers -> [Collectors -> Tasks]]
        /\ start' \in [Callers -> Outputs]
    BY <1>1, <1>2, <1>3 DEF StartCollect, EndCollect
  <1>5. ASSUME NEW d \in Callers, NEW j \in Collectors
        PROVE  \/ d # c /\ task'[d][j] = task[d][j] /\ start'[d] = start[d]
               \/ d = c /\ task'[d][j].phase = "off"
               \/ d = c /\ task'[d][j].phase = "started" /\ start'[d] = 0
    BY <1>3, OffIsTask DEF StartCollect, EndCollect
  <1>6. InTime'
    BY <1>2, <1>3, <1>5 DEF InTime
  <1>7. QED
    BY <1>4, <1>6

LEMMA TypeStep == ASSUME TypeOK, [Next]_vars PROVE TypeOK'
  <1>0. CollectorTypeOK /\ CacheTypeOK
    BY DEF TypeOK, CacheTypeOK
  <1> SUFFICES CollectorTypeOK' /\ CacheTypeOK'
    BY DEF TypeOK, CacheTypeOK
  <1>1. ASSUME NEW c \in Callers, Request(c)
        PROVE  CollectorTypeOK' /\ CacheTypeOK'
    BY <1>0, <1>1 DEF Request, InTime, CollectorTypeOK, CacheTypeOK
  <1>2. ASSUME NEW c \in Callers, Cancel(c)
        PROVE  CollectorTypeOK' /\ CacheTypeOK'
    BY <1>0, <1>2 DEF Cancel, cacheVars, InTime, CollectorTypeOK, CacheTypeOK
  <1>3. ASSUME NEW c \in Callers, Hit(c)
        PROVE  CollectorTypeOK' /\ CacheTypeOK'
    BY <1>0, <1>3 DEF Hit, collectorVars, InTime, CollectorTypeOK, CacheTypeOK
  <1>4. ASSUME NEW c \in Callers, Miss(c)
        PROVE  CollectorTypeOK' /\ CacheTypeOK'
    <2>1. /\ task' \in [Callers -> [Collectors -> Tasks]]
          /\ start' \in [Callers -> Outputs] /\ InTime'
      BY <1>4, StartType DEF Miss
    <2>2. QED
      BY <1>0, <1>4, <2>1 DEF Miss, CollectorTypeOK, CacheTypeOK
  <1>5. ASSUME NEW c \in Callers, Store(c)
        PROVE  CollectorTypeOK' /\ CacheTypeOK'
    <2>1. /\ task' \in [Callers -> [Collectors -> Tasks]]
          /\ start' \in [Callers -> Outputs] /\ InTime'
      BY <1>5, StartType DEF Store
    <2>2. Fetched(c) \in Snapshots
      BY FetchedFields
    <2>3. CacheTypeOK'
      BY <1>0, <1>5, <2>2, Numbers DEF Store, Replaces, Unlock, CacheTypeOK
    <2>4. QED
      BY <1>0, <1>5, <2>1, <2>3 DEF Store, CollectorTypeOK
  <1>6. ASSUME NEW c \in Callers, Finish(c)
        PROVE  CollectorTypeOK' /\ CacheTypeOK'
    BY <1>0, <1>6 DEF Finish, InTime, CollectorTypeOK, CacheTypeOK
  <1>7. ASSUME NEW c \in Callers, NEW k \in Collectors, Collecting(c, k)
        PROVE  CollectorTypeOK' /\ CacheTypeOK'
    BY <1>0, <1>7, CollectorTypeStep DEF Collecting, cacheVars, CacheTypeOK
  <1>8. CASE Environment
    BY <1>0, <1>8
    DEF Environment, SlurmChanges, cacheVars, InTime, CollectorTypeOK, CacheTypeOK
  <1>9. CASE Tick
    <2>1. CollectorTypeOK'
      BY <1>9, TicksType DEF Tick
    <2>2. cached' \in Snapshots \cup {NoSnapshot}
      BY <1>0, <1>9, OlderSnapshotFields DEF Tick, OlderSnapshot, CacheTypeOK
    <2>3. cacheAge' \in 0 .. TTL
      BY <1>0, <1>9, Numbers DEF Tick, CacheTypeOK
    <2>4. QED
      BY <1>0, <1>9, <2>1, <2>2, <2>3 DEF Tick, CacheTypeOK
  <1>10. CASE UNCHANGED vars
    BY <1>0, <1>10
    DEF vars, collectorVars, cacheVars, InTime, CollectorTypeOK, CacheTypeOK
  <1>11. QED
    BY <1>1, <1>2, <1>3, <1>4, <1>5, <1>6, <1>7, <1>8, <1>9, <1>10 DEF Next

\* Every variable keeps its type; in particular no command outlives the
\* timeout it was started with.
THEOREM TypeCorrect == Spec => []TypeOK
  BY InitType, TypeStep, PTL DEF Spec

(***************************************************************************)
(* The lock.                                                               *)
(***************************************************************************)

LEMMA StepOutcomes ==
    ASSUME TypeOK, NEW c \in Callers, NEW k \in Collectors
    PROVE  /\ Reuse(c, k) => /\ IsFresh(k) /\ task[c][k].phase = "started"
                             /\ task'[c][k] = ReusedTask(c, k)
           /\ Launch(c, k) => /\ task[c][k].phase = "started"
                              /\ task'[c][k] = LaunchedTask(c, k)
           /\ ResultStep(c, k) => Ends(c, k) /\ task'[c][k] = SucceededTask(c, k)
           /\ FailureStep(c, k) => Ends(c, k) /\ task'[c][k] = FailedTask(c, k)
           /\ Hang(c, k) => /\ task[c][k].phase = "running"
                            /\ task'[c][k] = HungTask(c, k)
  <1>1. ASSUME NEW t \in Tasks, Becomes(c, k, t) PROVE task'[c][k] = t
    BY <1>1, BecomesType
  <1>2. ASSUME Reuse(c, k)
        PROVE  /\ IsFresh(k) /\ task[c][k].phase = "started"
               /\ task'[c][k] = ReusedTask(c, k)
    <2>1. Becomes(c, k, ReusedTask(c, k))
      BY <1>2, StepsBecome
    <2>2. IsFresh(k) /\ task[c][k].phase = "started"
      BY <1>2 DEF Reuse
    <2>3. ReusedTask(c, k) \in Tasks
      BY <2>2, ReusedFields
    <2>4. QED
      BY <1>1, <2>1, <2>2, <2>3
  <1>3. /\ LaunchedTask(c, k) \in Tasks /\ SucceededTask(c, k) \in Tasks
        /\ FailedTask(c, k) \in Tasks /\ HungTask(c, k) \in Tasks
    BY LaunchedFields, SucceededFields, FailedFields
  <1>4. Launch(c, k) => task[c][k].phase = "started"
    BY DEF Launch
  <1>5. /\ ResultStep(c, k) \/ FailureStep(c, k) \/ Hang(c, k) => Ends(c, k)
        /\ Hang(c, k) => task[c][k].phase = "running"
    BY DEF ResultStep, FailureStep, Ends, Hang
  <1>6. QED
    BY <1>1, <1>2, <1>3, <1>4, <1>5, StepsBecome

\* A step of a collector finds its task in a collection, and leaves it there.
LEMMA StepTask ==
    ASSUME TypeOK, NEW c \in Callers, NEW k \in Collectors,
           CollectorStep(c, k)
    PROVE  /\ task[c][k].phase \in {"started", "running", "hung"}
           /\ task'[c][k].phase # "off"
           /\ \A d \in Callers, j \in Collectors :
                 d # c \/ j # k => task'[d][j] = task[d][j]
  <1>1. task[c][k].phase \in {"started", "running", "hung"}
    BY StepOutcomes, StepCases DEF Ends
  <1>2. \E t \in Tasks : Becomes(c, k, t) /\ t.phase # "off"
    <2>1. CASE Reuse(c, k)
      BY <2>1, StepsBecome, StepOutcomes, ReusedFields
    <2>2. CASE Launch(c, k)
      BY <2>2, StepsBecome, LaunchedFields
    <2>3. CASE ResultStep(c, k)
      BY <2>3, StepsBecome, SucceededFields
    <2>4. CASE FailureStep(c, k) \/ Hang(c, k)
      BY <2>4, StepsBecome, FailedFields
    <2>5. QED
      BY <2>1, <2>2, <2>3, <2>4, StepCases
  <1>3. QED
    BY <1>1, <1>2, BecomesType

LEMMA StartedTasks ==
    ASSUME TypeOK, NEW c \in Callers, NEW o \in {Off, Started},
           task' = [task EXCEPT ![c] = [k \in Collectors |-> o]]
    PROVE  \A d \in Callers, j \in Collectors :
              task'[d][j] = IF d = c THEN o ELSE task[d][j]
  BY DEF TypeOK, CollectorTypeOK

LEMMA LockStep == ASSUME TypeOK, LockInv, [Next]_vars PROVE LockInv'
  <1>0. /\ pc \in [Callers -> {"idle", "waiting", "collecting", "answered"}]
        /\ Nobody \notin Callers
        /\ holder \in Callers \cup {Nobody}
    BY CacheAssumption DEF TypeOK
  <1>1. CASE \E c \in Callers : Request(c) \/ Cancel(c) \/ Hit(c) \/ Finish(c)
    BY <1>0, <1>1
    DEF Request, Cancel, Hit, Finish, CanLock, LockInv, cacheVars, collectorVars
  <1>2. ASSUME NEW c \in Callers, Miss(c) PROVE LockInv'
    <2>1. \A d \in Callers, j \in Collectors :
             task'[d][j] = IF d = c THEN Started ELSE task[d][j]
      BY <1>2, StartedTasks DEF Miss, StartCollect
    <2>2. holder' = c /\ pc' = [pc EXCEPT ![c] = "collecting"] /\ holder = Nobody
      BY <1>2 DEF Miss, CanLock
    <2>3. \A d \in Callers : pc[d] # "collecting"
      BY <1>0, <2>2 DEF LockInv
    <2>4. QED
      BY <1>0, <2>1, <2>2, <2>3, OffIsTask DEF LockInv
  <1>3. ASSUME NEW c \in Callers, Store(c) PROVE LockInv'
    <2>1. \A d \in Callers, j \in Collectors :
             task'[d][j] = IF d = c THEN Off ELSE task[d][j]
      BY <1>3, StartedTasks DEF Store, EndCollect
    <2>2. holder' = Nobody /\ pc' = [pc EXCEPT ![c] = "answered"]
          /\ pc[c] = "collecting"
      BY <1>3 DEF Store, Replaces, Unlock
    <2>3. \A d \in Callers : d # c => pc[d] # "collecting"
      BY <1>0, <2>2 DEF LockInv
    <2>4. QED
      BY <1>0, <2>1, <2>2, <2>3, OffIsTask DEF LockInv
  <1>4. ASSUME NEW c \in Callers, NEW k \in Collectors, Collecting(c, k)
        PROVE  LockInv'
    <2>1. /\ task[c][k].phase # "off" /\ task'[c][k].phase # "off"
          /\ \A d \in Callers, j \in Collectors :
                 d # c \/ j # k => task'[d][j] = task[d][j]
      BY <1>4, StepTask DEF Collecting
    <2>2. QED
      BY <1>4, <2>1 DEF Collecting, cacheVars, LockInv
  <1>5. CASE Environment
    BY <1>5 DEF Environment, SlurmChanges, cacheVars, LockInv
  <1>6. CASE Tick
    <2>1. \A d \in Callers, j \in Collectors :
             task'[d][j].phase = task[d][j].phase
      BY <1>6, TaskOf, OlderTaskType DEF Tick, CollectorTick, MayTick
    <2>2. QED
      BY <1>6, <2>1 DEF Tick, LockInv
  <1>7. CASE UNCHANGED vars
    BY <1>7 DEF vars, collectorVars, cacheVars, LockInv
  <1>8. QED
    BY <1>1, <1>2, <1>3, <1>4, <1>5, <1>6, <1>7 DEF Next

LEMMA LockHolds == Spec => []LockInv
  <1>1. Init => LockInv
    BY CacheAssumption, OffIsTask DEF Init, CollectorInit, LockInv
  <1>2. QED
    BY <1>1, LockStep, TypeCorrect, PTL DEF Spec

\* However many callers there are, and whichever of them go away, two commands
\* of the same collector never run at the same time, a killed one that hangs
\* included.
THEOREM OneCommandOfAKind == Spec => []SingleFlight
  <1>1. LockInv => SingleFlight
    BY DEF LockInv, SingleFlight, InFlight
  <1>2. QED
    BY <1>1, LockHolds, PTL

(***************************************************************************)
(* How old the data is.                                                    *)
(***************************************************************************)

LEMMA BaseType ==
    ASSUME NEW k \in Collectors
    PROVE  /\ Base(k) \in Nat
           /\ k \in Slow => Base(k) = Timeout + SlowRefresh
           /\ k \in Fast => Base(k) = 0
           /\ k \in Fast \/ k \in Slow
  BY Numbers, CollectorAssumption DEF Base, Collectors

LEMMA WithinGrows ==
    ASSUME NEW d \in Outputs, NEW m \in Nat, NEW n \in Nat, m <= n,
           Within(d, m)
    PROVE  Within(d, n)
  BY Numbers DEF Within, Outputs, Ages

LEMMA IsAge ==
    ASSUME NEW d \in Outputs, d # NoData
    PROVE  d \in Ages /\ d \in Nat
  BY DEF Outputs, Ages

LEMMA EntriesStep ==
    ASSUME TypeOK, EntriesRecent, CollectionsEnd,
           NEW c \in Callers, NEW k \in Collectors, CollectorStep(c, k)
    PROVE  EntriesRecent'
  <1>0. slowData \in [Slow -> Entries \cup {NoEntry}]
    BY DEF TypeOK, CollectorTypeOK
  <1>1. CASE ResultStep(c, k) /\ k \in Slow
    <2>1. slowData' = [slowData EXCEPT ![k] =
             [since |-> 0, data |-> start[c], err |-> FALSE,
              late |-> task[c][k].late]]
      BY <1>1 DEF ResultStep, Result
    <2>2. start[c] # NoData
      BY <1>1, SucceededFields DEF ResultStep
    <2>3. ASSUME ~task[c][k].late PROVE Within(start[c], Timeout + 0)
      <3>1. task[c][k].phase = "running"
        BY <1>1, <2>3 DEF ResultStep, Ends, CollectionsEnd
      <3>2. start[c] \in 0 .. Timeout
        BY <3>1, SucceededFields
      <3>3. QED
        BY <2>2, <3>2, Numbers DEF Within
    <2>4. QED
      BY <1>0, <2>1, <2>2, <2>3 DEF EntriesRecent
  <1>2. CASE FailureStep(c, k) /\ k \in Slow /\ ~task[c][k].known
    <2>1. slowData' = [slowData EXCEPT ![k] =
             [since |-> 0, data |-> NoData, err |-> TRUE, late |-> FALSE]]
      BY <1>2 DEF FailureStep, Failure, EntriesOnFailure
    <2>2. QED
      BY <1>0, <2>1 DEF EntriesRecent
  <1>3. CASE slowData' = slowData
    BY <1>3 DEF EntriesRecent
  <1>4. QED
    BY <1>1, <1>2, <1>3, StepCases
    DEF Reuse, Launch, ResultStep, Result, FailureStep, Failure,
        EntriesOnFailure, Hang

\* The steps of a collection take no time, and what was late stays late.
LEMMA EndStep ==
    ASSUME TypeOK, CollectionsEnd, NEW c \in Callers, NEW k \in Collectors,
           CollectorStep(c, k), pc' = pc
    PROVE  CollectionsEnd'
  <1>1. \A d \in Callers, j \in Collectors :
           d # c \/ j # k => task'[d][j] = task[d][j]
    BY StepTask
  <1>2. start' = start
    BY StepCases DEF Reuse, Launch, ResultStep, Result, FailureStep, Failure, Hang
  <1>3. /\ task'[c][k].phase # "started"
        /\ task'[c][k].phase = "running" => task'[c][k].queried
        /\ task'[c][k].phase = "hung" => task'[c][k].queried /\ task'[c][k].late
        /\ task[c][k].queried /\ task[c][k].late =>
              task'[c][k].queried /\ task'[c][k].late
    <2>1. CASE Reuse(c, k)
      <3>1. task[c][k].phase = "started" /\ task'[c][k].phase = "done"
        BY <2>1, StepOutcomes, ReusedFields
      <3>2. QED
        BY <3>1 DEF CollectionsEnd
    <2>2. CASE Launch(c, k)
      BY <2>2, StepOutcomes, LaunchedFields
    <2>3. CASE ResultStep(c, k)
      BY <2>3, StepOutcomes, SucceededFields
    <2>4. CASE FailureStep(c, k)
      BY <2>4, StepOutcomes, FailedFields
    <2>5. CASE Hang(c, k)
      <3>1. task[c][k].queried
        BY <2>5 DEF Hang, CollectionsEnd
      <3>2. QED
        BY <2>5, <3>1, StepOutcomes, FailedFields
    <2>6. QED
      BY <2>1, <2>2, <2>3, <2>4, <2>5, StepCases
  <1>4. \A d \in Callers, j \in Collectors :
           task[d][j].queried /\ task[d][j].late =>
              task'[d][j].queried /\ task'[d][j].late
    BY <1>1, <1>3
  <1>5. QED
    BY <1>1, <1>2, <1>3, <1>4 DEF CollectionsEnd

LEMMA ResultsStep ==
    ASSUME TypeOK, EntriesRecent, ResultsRecent,
           CollectionsEnd,
           NEW c \in Callers, NEW k \in Collectors, CollectorStep(c, k)
    PROVE  ResultsRecent'
  <1>1. \A d \in Callers, j \in Collectors :
           d # c \/ j # k => task'[d][j] = task[d][j]
    BY StepTask
  <1>2. start' = start
    BY StepCases DEF Reuse, Launch, ResultStep, Result, FailureStep, Failure, Hang
  <1>3. Base(k) \in Nat
    BY BaseType
  <1>4. ASSUME Succeeded(c, k)'
        PROVE  /\ task'[c][k].data # NoData
               /\ task'[c][k].queried \/ ~task'[c][k].late =>
                     task'[c][k].data <= start[c] + Base(k)
    <2>1. CASE Reuse(c, k)
      <3>1. /\ task'[c][k].data = slowData[k].data
            /\ task'[c][k].err = slowData[k].err
            /\ task'[c][k].late = slowData[k].late
            /\ task'[c][k].queried = task[c][k].queried
            /\ task[c][k].phase = "started"
        BY <2>1, StepOutcomes, ReusedFields
      <3>2. /\ k \in Slow /\ slowData[k] # NoEntry
            /\ slowData[k].since < SlowRefresh
            /\ slowData[k].data \in Outputs /\ slowData[k].since \in Nat
        BY <2>1, EntryOf, Numbers DEF Reuse, IsFresh, Known
      <3>3. start[c] = 0
        BY <3>1 DEF TypeOK, CollectorTypeOK, InTime
      <3>4. ~slowData[k].err
        BY <1>4, <3>1 DEF Succeeded
      <3>5. slowData[k].data # NoData
        BY <3>2, <3>4 DEF EntriesRecent
      <3>6. CASE slowData[k].late
        <4>1. ~task[c][k].queried
          BY <3>1 DEF CollectionsEnd
        <4>2. QED
          BY <3>1, <3>5, <3>6, <4>1
      <3>7. CASE ~slowData[k].late
        <4>1. Within(slowData[k].data, Timeout + slowData[k].since)
          BY <3>2, <3>4, <3>7 DEF EntriesRecent
        <4>2. Timeout + slowData[k].since <= start[c] + Base(k)
          BY <3>2, <3>3, BaseType, Numbers
        <4>3. slowData[k].data <= start[c] + Base(k)
          BY <3>2, <3>3, <3>5, <4>1, <4>2, BaseType, IsAge, Numbers DEF Within
        <4>4. QED
          BY <3>1, <3>5, <4>3
      <3>8. QED
        BY <3>6, <3>7, <3>2, EntryOf
    <2>2. CASE Launch(c, k)
      BY <1>4, <2>2, StepOutcomes, LaunchedFields DEF Succeeded
    <2>3. CASE ResultStep(c, k)
      <3>1. task'[c][k].data = start[c] /\ start[c] \in Ages /\ start[c] # NoData
        BY <2>3, StepOutcomes, SucceededFields
      <3>2. start[c] <= start[c] + Base(k)
        BY <1>3, <3>1 DEF Ages
      <3>3. QED
        BY <3>1, <3>2
    <2>4. CASE FailureStep(c, k) \/ Hang(c, k)
      BY <1>4, <2>4, StepOutcomes, FailedFields DEF Succeeded
    <2>5. QED
      BY <2>1, <2>2, <2>3, <2>4, StepCases
  <1>5. ASSUME NEW d \in Callers, NEW j \in Collectors, Succeeded(d, j)',
               d # c \/ j # k
        PROVE  /\ task'[d][j].data # NoData
               /\ task'[d][j].queried \/ ~task'[d][j].late =>
                     task'[d][j].data <= start'[d] + Base(j)
    BY <1>1, <1>2, <1>5 DEF ResultsRecent, Succeeded
  <1>6. QED
    BY <1>2, <1>4, <1>5 DEF ResultsRecent

LEMMA TickRecent ==
    ASSUME TypeOK, LockInv, RecencyInv, Tick
    PROVE  RecencyInv'
  <1>0. EntriesRecent /\ CollectionsEnd /\ ResultsRecent /\ CachedRecent
        /\ HandedOutDataIsRecent
    BY DEF RecencyInv
  <1>1. \A c \in Callers, k \in Collectors :
           /\ task'[c][k].phase = task[c][k].phase
           /\ task'[c][k].err = task[c][k].err
           /\ task'[c][k].queried = task[c][k].queried
           /\ task'[c][k].late = task[c][k].late
           /\ task'[c][k].data = Older(task[c][k].data)
           /\ task[c][k].phase = "running" => start[c] < Timeout
           /\ task[c][k].phase # "started"
           /\ task[c][k].data \in Outputs
    BY TaskOf, TaskFields, OlderTaskType DEF Tick, CollectorTick, MayTick
  <1>2. \A c \in Callers : start'[c] = Older(start[c]) /\ start[c] \in Outputs
    BY DEF Tick, CollectorTick, TypeOK, CollectorTypeOK
  <1>3. EntriesRecent'
    <2>1. ASSUME NEW k \in Slow, slowData'[k] # NoEntry, ~slowData'[k].err
          PROVE  /\ slowData'[k].data # NoData
                 /\ slowData'[k].since < SlowRefresh /\ ~slowData'[k].late =>
                      Within(slowData'[k].data, Timeout + slowData'[k].since)
      <3>1. slowData'[k] = OlderEntry(slowData[k])
        BY DEF Tick, CollectorTick
      <3>2. slowData[k] # NoEntry /\ Known(k)
        BY <2>1, <3>1 DEF OlderEntry, Known
      <3>3. /\ slowData'[k].data = Older(slowData[k].data)
            /\ slowData'[k].since = IF slowData[k].since < SlowRefresh
                                    THEN slowData[k].since + 1
                                    ELSE slowData[k].since
            /\ slowData'[k].late = slowData[k].late
            /\ ~slowData[k].err
        BY <2>1, <3>1, <3>2, EntryOf, OlderEntryFields
      <3>4. slowData[k].data \in Outputs /\ slowData[k].since \in Nat
        BY <3>2, EntryOf, Numbers
      <3>5. /\ slowData[k].data # NoData
            /\ slowData[k].since < SlowRefresh /\ ~slowData[k].late =>
                  Within(slowData[k].data, Timeout + slowData[k].since)
        BY <1>0, <3>2, <3>3 DEF EntriesRecent
      <3>6. slowData'[k].data # NoData
        <4>1. Older(slowData[k].data) # NoData
          BY <3>4, <3>5, OlderType
        <4>2. QED
          BY <3>3, <4>1
      <3>7. ASSUME slowData'[k].since < SlowRefresh, ~slowData'[k].late
            PROVE  Within(slowData'[k].data, Timeout + slowData'[k].since)
        <4>1. slowData[k].since < SlowRefresh
              /\ slowData'[k].since = slowData[k].since + 1
          BY <3>3, <3>4, <3>7, Numbers
        <4>2. Within(Older(slowData[k].data), (Timeout + slowData[k].since) + 1)
          <5>1. Timeout + slowData[k].since \in Nat
            BY <3>4, Numbers
          <5>2. Within(slowData[k].data, Timeout + slowData[k].since)
            BY <3>3, <3>5, <3>7, <4>1
          <5>3. QED
            BY <3>4, <5>1, <5>2, OlderType
        <4>3. (Timeout + slowData[k].since) + 1 = Timeout + slowData'[k].since
          BY <3>4, <4>1, Numbers
        <4>4. QED
          BY <3>3, <4>2, <4>3
      <3>8. QED
        BY <3>6, <3>7
    <2>2. QED
      BY <2>1 DEF EntriesRecent
  <1>4. CollectionsEnd'
    <2>1. ASSUME NEW c \in Callers, pc[c] = "collecting"
          PROVE  /\ Older(start[c]) \in Ages
                 /\ \/ \E k \in Collectors : task[c][k].queried /\ task[c][k].late
                    \/ Older(start[c]) <= Timeout
      <3>1. start[c] \in Ages
        BY <1>0, <2>1 DEF CollectionsEnd
      <3>2. PICK j \in Collectors : task[c][j].phase # "done"
        BY <2>1 DEF Tick, Idle, AllDone
      <3>3. task[c][j].phase \in Phases /\ task[c][j].phase # "off"
        BY <2>1, TaskOf, TaskFields DEF LockInv
      <3>4. CASE task[c][j].phase = "hung"
        BY <1>0, <1>2, <3>1, <3>4, OlderType DEF CollectionsEnd
      <3>5. CASE task[c][j].phase = "running"
        <4>1. start[c] < Timeout /\ Timeout < MaxAge
          BY <1>1, <3>5, CacheAssumption, Numbers DEF StalenessBound
        <4>2. Older(start[c]) \in 0 .. Timeout
          BY <1>2, <3>1, <4>1, OlderByOne, Numbers
        <4>3. QED
          BY <4>2, Numbers
      <3>6. QED
        BY <1>1, <3>2, <3>3, <3>4, <3>5 DEF Phases
    <2>2. pc' = pc
      BY DEF Tick
    <2>3. QED
      BY <1>0, <1>1, <1>2, <2>1, <2>2 DEF CollectionsEnd
  <1>5. ResultsRecent'
    <2>1. ASSUME NEW c \in Callers, NEW k \in Collectors, Succeeded(c, k)'
          PROVE  /\ task'[c][k].data # NoData
                 /\ task'[c][k].queried \/ ~task'[c][k].late =>
                       task'[c][k].data <= start'[c] + Base(k)
      <3>1. Succeeded(c, k)
        BY <1>1, <2>1 DEF Succeeded
      <3>2. /\ task[c][k].data # NoData /\ task[c][k].data \in Outputs
            /\ task[c][k].queried \/ ~task[c][k].late =>
                  task[c][k].data <= start[c] + Base(k)
        BY <1>0, <1>1, <3>1 DEF ResultsRecent
      <3>3. start[c] \in Ages /\ task[c][k].data \in Ages
        BY <3>1, <3>2, IsAge DEF Succeeded, TypeOK, CollectorTypeOK, InTime
      <3>4. task'[c][k].data # NoData
        BY <1>1, <3>2, OlderType
      <3>5. Base(k) \in Nat
        BY BaseType
      <3>6. QED
        BY <1>1, <1>2, <3>2, <3>3, <3>4, <3>5, OlderTogether
    <2>2. QED
      BY <2>1 DEF ResultsRecent
  <1>6. CachedRecent'
    <2>1. CASE cached = NoSnapshot
      BY <2>1 DEF Tick, OlderSnapshot, CachedRecent
    <2>2. CASE cached # NoSnapshot
      <3>1. /\ cached \in Snapshots /\ cached' = OlderSnapshot(cached)
            /\ cacheAge \in Nat
            /\ cacheAge' = IF cacheAge < TTL THEN cacheAge + 1 ELSE cacheAge
        BY <2>2, Numbers DEF Tick, TypeOK
      <3>2. /\ cached'.errors = cached.errors /\ cached'.tried = cached.tried
            /\ cached'.late = cached.late /\ cached'.began = Older(cached.began)
            /\ \A k \in Collectors : /\ cached.data[k] \in Outputs
                                     /\ cached'.data[k] = Older(cached.data[k])
        BY <2>2, <3>1, OlderSnapshotFields, SnapshotFields
      <3>3. cached.began \in Ages /\ cached.began \in Outputs
        BY <1>0, <2>2 DEF CachedRecent, Outputs
      <3>4. cached'.began \in Ages
        BY <3>2, <3>3, OlderType
      <3>5. ASSUME Punctual(cached)', cacheAge' < TTL
            PROVE  Within(cached'.began, Timeout + cacheAge')
        <4>1. cacheAge < TTL /\ cacheAge' = cacheAge + 1 /\ Punctual(cached)
          BY <3>1, <3>2, <3>5, Numbers DEF Punctual
        <4>2. Within(cached.began, Timeout + cacheAge)
          BY <1>0, <2>2, <4>1 DEF CachedRecent
        <4>3. Within(cached'.began, (Timeout + cacheAge) + 1)
          BY <3>1, <3>2, <3>3, <4>2, OlderType, Numbers
        <4>4. (Timeout + cacheAge) + 1 = Timeout + cacheAge'
          BY <3>1, <4>1, Numbers
        <4>5. QED
          BY <4>3, <4>4
      <3>6. ASSUME NEW k \in Collectors \ cached.errors
            PROVE  /\ cached'.data[k] # NoData
                   /\ ~ReusedLate(cached, k) =>
                         cached'.data[k] <= cached'.began + Base(k)
        <4>1. /\ cached.data[k] # NoData
              /\ ~ReusedLate(cached, k) =>
                    cached.data[k] <= cached.began + Base(k)
          BY <1>0, <2>2, <3>6 DEF CachedRecent
        <4>2. cached.data[k] \in Ages /\ cached'.data[k] # NoData
          BY <3>2, <4>1, IsAge, OlderType
        <4>3. QED
          BY <3>2, <3>3, <4>1, <4>2, BaseType, OlderTogether
      <3>7. \A k \in Collectors : ReusedLate(cached, k)' <=> ReusedLate(cached, k)
        BY <3>2 DEF ReusedLate
      <3>8. QED
        BY <3>2, <3>4, <3>5, <3>6, <3>7 DEF CachedRecent
    <2>3. QED
      BY <2>1, <2>2
  <1>7. HandedOutDataIsRecent'
    BY <1>0 DEF Tick, HandedOutDataIsRecent, Punctual, ReusedLate
  <1>8. QED
    BY <1>3, <1>4, <1>5, <1>6, <1>7 DEF RecencyInv

LEMMA StoreRecent ==
    ASSUME TypeOK, LockInv, RecencyInv, NEW c \in Callers, Store(c)
    PROVE  RecencyInv'
  <1>0. EntriesRecent /\ CollectionsEnd /\ ResultsRecent /\ HandedOutDataIsRecent
    BY DEF RecencyInv
  <1>1. /\ \A d \in Callers, j \in Collectors :
              task'[d][j] = IF d = c THEN Off ELSE task[d][j]
        /\ \A d \in Callers : d # c => start'[d] = start[d]
    BY StartedTasks DEF Store, EndCollect, TypeOK, CollectorTypeOK
  <1>2. Off.phase = "off"
    BY DEF Off
  <1>3. EntriesRecent'
    BY <1>0 DEF Store, EntriesRecent
  <1>4. CollectionsEnd'
    <2>1. pc'[c] = "answered" /\ \A d \in Callers : d # c => pc'[d] = pc[d]
      BY DEF Store, TypeOK
    <2>2. QED
      BY <1>0, <1>1, <1>2, <2>1 DEF CollectionsEnd
  <1>5. ResultsRecent'
    <2>1. \A d \in Callers, k \in Collectors : Succeeded(d, k)' => d # c
      BY <1>1, <1>2 DEF Succeeded
    <2>2. \A d \in Callers, k \in Collectors : d # c => task'[d][k] = task[d][k]
      BY <1>1
    <2>3. \A d \in Callers, k \in Collectors :
             Succeeded(d, k)' => Succeeded(d, k)
      BY <2>1, <2>2 DEF Succeeded
    <2>4. QED
      BY <1>0, <1>1, <2>1, <2>2, <2>3 DEF ResultsRecent
  \* All commands are over, and whatever was late is in the snapshot's late.
  <1>6. ASSUME NEW k \in Collectors \ Fetched(c).errors
        PROVE  /\ Fetched(c).data[k] # NoData
               /\ ~ReusedLate(Fetched(c), k) =>
                     Fetched(c).data[k] <= Fetched(c).began + Base(k)
    <2>1. Fetched(c).data[k] = task[c][k].data /\ ~task[c][k].err
      BY <1>6, FetchedFields
    <2>2. Succeeded(c, k)
      BY <2>1 DEF Succeeded, Store, AllDone
    <2>3. ~ReusedLate(Fetched(c), k) => task[c][k].queried \/ ~task[c][k].late
      BY FetchedFields DEF ReusedLate
    <2>4. QED
      BY <1>0, <2>1, <2>2, <2>3, FetchedFields DEF ResultsRecent
  <1>7. /\ Fetched(c).began \in Ages
        /\ Punctual(Fetched(c)) => Within(Fetched(c).began, Timeout)
    <2>1. /\ start[c] \in Ages
          /\ \/ \E k \in Collectors : task[c][k].queried /\ task[c][k].late
             \/ start[c] <= Timeout
      BY <1>0 DEF CollectionsEnd, Store
    <2>2. Punctual(Fetched(c)) =>
             ~\E k \in Collectors : task[c][k].queried /\ task[c][k].late
      BY FetchedFields DEF Punctual
    <2>3. start[c] # NoData
      BY <2>1, Numbers
    <2>4. QED
      BY <2>1, <2>2, <2>3, FetchedFields DEF Within
  <1>8. CachedRecent'
    <2>1. cached' = Fetched(c) /\ cacheAge' = 0
      BY DEF Store, Replaces
    <2>2. Timeout + 0 = Timeout
      BY Numbers
    <2>3. QED
      BY <1>6, <1>7, <2>1, <2>2 DEF CachedRecent, Punctual, ReusedLate
  <1>9. HandedOutDataIsRecent'
    <2>1. /\ given'[c] = Fetched(c)
          /\ \A d \in Callers : d # c => given'[d] = given[d]
      BY DEF Store, TypeOK
    <2>2. Punctual(Fetched(c)) => Within(Fetched(c).began, TTL + Timeout)
      BY <1>7, FetchedFields, SnapshotFields, WithinGrows, Numbers
    <2>3. QED
      BY <1>0, <1>6, <2>1, <2>2 DEF HandedOutDataIsRecent, Punctual, ReusedLate
  <1>10. QED
    BY <1>3, <1>4, <1>5, <1>8, <1>9 DEF RecencyInv

LEMMA HitRecent ==
    ASSUME TypeOK, RecencyInv, NEW c \in Callers, Hit(c)
    PROVE  RecencyInv'
  <1>0. /\ EntriesRecent /\ CollectionsEnd /\ ResultsRecent /\ CachedRecent
        /\ HandedOutDataIsRecent
    BY DEF RecencyInv
  <1>1. CollectionsEnd'
    <2>1. pc'[c] = "answered" /\ \A d \in Callers : d # c => pc'[d] = pc[d]
      BY DEF Hit, TypeOK
    <2>2. UNCHANGED << task, start >>
      BY DEF Hit, collectorVars
    <2>3. QED
      BY <1>0, <2>1, <2>2 DEF CollectionsEnd
  <1>2. EntriesRecent' /\ ResultsRecent' /\ CachedRecent'
    BY <1>0 DEF Hit, collectorVars, EntriesRecent, ResultsRecent, Succeeded,
                CachedRecent, Punctual, ReusedLate
  <1>3. /\ cached \in Snapshots /\ cached # NoSnapshot /\ cacheAge < TTL
        /\ cacheAge \in Nat /\ cached.began \in Outputs
    BY Numbers, SnapshotFields DEF Hit, CacheValid, TypeOK
  <1>4. Punctual(cached) => Within(cached.began, TTL + Timeout)
    <2>1. Punctual(cached) => Within(cached.began, Timeout + cacheAge)
      BY <1>0, <1>3 DEF CachedRecent
    <2>2. Timeout + cacheAge <= TTL + Timeout
      BY <1>3, Numbers
    <2>3. QED
      BY <1>3, <2>1, <2>2, WithinGrows, Numbers
  <1>5. /\ given'[c] = cached
        /\ \A d \in Callers : d # c => given'[d] = given[d]
    BY DEF Hit, TypeOK
  <1>6. HandedOutDataIsRecent'
    BY <1>0, <1>3, <1>4, <1>5
    DEF HandedOutDataIsRecent, CachedRecent, Punctual, ReusedLate
  <1>7. QED
    BY <1>1, <1>2, <1>6 DEF RecencyInv

LEMMA RecencyStep ==
    ASSUME TypeOK, LockInv, RecencyInv, [Next]_vars PROVE RecencyInv'
  <1>0. /\ EntriesRecent /\ CollectionsEnd /\ ResultsRecent /\ CachedRecent
        /\ HandedOutDataIsRecent
    BY DEF RecencyInv
  \* A caller that is in no collection, and comes to none.
  <1>1. ASSUME UNCHANGED << task, start, slowData, cached, cacheAge >>,
               \A c \in Callers : pc'[c] = "collecting" => pc[c] = "collecting",
               \A c \in Callers : given'[c] \in {given[c], NoSnapshot}
        PROVE  RecencyInv'
    <2>1. EntriesRecent' /\ CollectionsEnd' /\ ResultsRecent' /\ CachedRecent'
      BY <1>0, <1>1 DEF EntriesRecent, CollectionsEnd, ResultsRecent, Succeeded,
                        CachedRecent, Punctual, ReusedLate
    <2>2. HandedOutDataIsRecent'
      BY <1>0, <1>1 DEF HandedOutDataIsRecent, Punctual, ReusedLate
    <2>3. QED
      BY <2>1, <2>2 DEF RecencyInv
  <1>2. ASSUME NEW c \in Callers, Request(c) \/ Cancel(c) \/ Finish(c)
        PROVE  RecencyInv'
    BY <1>1, <1>2 DEF Request, Cancel, Finish, cacheVars, TypeOK
  <1>3. ASSUME NEW c \in Callers, Miss(c) PROVE RecencyInv'
    <2>1. /\ \A d \in Callers, j \in Collectors :
                task'[d][j] = IF d = c THEN Started ELSE task[d][j]
          /\ start'[c] = 0 /\ \A d \in Callers : d # c => start'[d] = start[d]
      BY <1>3, StartedTasks DEF Miss, StartCollect, TypeOK, CollectorTypeOK
    <2>2. Started.phase = "started" /\ ~Started.queried
      BY DEF Started, Off
    <2>3. CollectionsEnd'
      <3>1. 0 \in Ages /\ 0 <= Timeout
        BY Numbers DEF Ages
      <3>2. \A d \in Callers : d # c => pc'[d] = pc[d]
        BY <1>3 DEF Miss, TypeOK
      <3>3. QED
        BY <1>0, <2>1, <2>2, <3>1, <3>2 DEF CollectionsEnd
    <2>4. \A d \in Callers, k \in Collectors : Succeeded(d, k)' => d # c
      BY <2>1, <2>2 DEF Succeeded
    <2>5. \A d \in Callers, k \in Collectors : d # c => task'[d][k] = task[d][k]
      BY <2>1
    <2>6. \A d \in Callers, k \in Collectors :
             Succeeded(d, k)' => Succeeded(d, k)
      BY <2>4, <2>5 DEF Succeeded
    <2>7. ResultsRecent'
      BY <1>0, <2>1, <2>4, <2>5, <2>6 DEF ResultsRecent
    <2>8. EntriesRecent' /\ CachedRecent' /\ HandedOutDataIsRecent'
      BY <1>0, <1>3 DEF Miss, EntriesRecent, CachedRecent, Punctual, ReusedLate,
                        HandedOutDataIsRecent
    <2>9. QED
      BY <2>3, <2>7, <2>8 DEF RecencyInv
  <1>4. ASSUME NEW c \in Callers, NEW k \in Collectors, Collecting(c, k)
        PROVE  RecencyInv'
    <2>1. CollectorStep(c, k) /\ UNCHANGED cacheVars /\ pc' = pc
      BY <1>4 DEF Collecting, cacheVars
    <2>2. EntriesRecent' /\ CollectionsEnd' /\ ResultsRecent'
      BY <1>0, <2>1, EntriesStep, EndStep, ResultsStep
    <2>3. CachedRecent' /\ HandedOutDataIsRecent'
      BY <1>0, <2>1 DEF cacheVars, CachedRecent, HandedOutDataIsRecent, Punctual,
                        ReusedLate
    <2>4. QED
      BY <2>2, <2>3 DEF RecencyInv
  <1>5. CASE Environment
    BY <1>1, <1>5 DEF Environment, SlurmChanges, cacheVars
  <1>6. CASE UNCHANGED vars
    BY <1>1, <1>6 DEF vars, collectorVars, cacheVars
  <1>7. QED
    BY <1>2, <1>3, <1>4, <1>5, <1>6, HitRecent, StoreRecent, TickRecent DEF Next

LEMMA RecencyHolds == Spec => []RecencyInv
  <1>1. ASSUME Init PROVE RecencyInv
    <2>1. /\ \A k \in Slow : slowData[k] = NoEntry
          /\ \A c \in Callers, k \in Collectors : task[c][k] = Off
          /\ \A c \in Callers : given[c] = NoSnapshot /\ pc[c] = "idle"
          /\ cached = NoSnapshot
      BY <1>1 DEF Init, CollectorInit
    <2>2. Off.phase = "off"
      BY DEF Off
    <2>3. CollectionsEnd /\ ResultsRecent
      BY <2>1, <2>2 DEF CollectionsEnd, ResultsRecent, Succeeded
    <2>4. EntriesRecent /\ CachedRecent /\ HandedOutDataIsRecent
      BY <2>1 DEF EntriesRecent, CachedRecent, HandedOutDataIsRecent
    <2>5. QED
      BY <2>3, <2>4 DEF RecencyInv
  <1>2. QED
    BY <1>1, RecencyStep, TypeCorrect, LockHolds, PTL DEF Spec

\* Data handed out without an error is from the collection that its snapshot is
\* dated to, or in the slow tier at most an entry's lifetime and a command older,
\* unless the entry's command outlived its kill; and the collection is at most
\* TTL and Timeout old, unless one of its own commands did.
THEOREM DataIsRecent == Spec => []HandedOutDataIsRecent
  <1>1. RecencyInv => HandedOutDataIsRecent
    BY DEF RecencyInv
  <1>2. QED
    BY <1>1, RecencyHolds, PTL
=============================================================================
