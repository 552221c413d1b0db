---------------------- MODULE HistoryStoreChainProofs ----------------------
(***************************************************************************)
(* The archive while no fault outside of OrderlyFaults occurs: one chain,  *)
(* and no event of a job twice in a row.                                   *)
(*                                                                         *)
(* Both follow from what the process goes on from: its memory while it is  *)
(* up, and what Open will read while it is not.  That view names the       *)
(* archive's last record, and for each job its last event; a restart does  *)
(* not change it, because the index equals the memory when it may happen.  *)
(***************************************************************************)
EXTENDS HistoryStoreProofs

\* What the next call of AppendSnapshot goes on from, in this process or in
\* the one after it.
View == IF up THEN state ELSE Resumed

EventOf(e, k) == e.kind = "job_state_change" /\ e.key = k

\* The latest event of k in an archive has fields fp; NoFp for no event.
IsLatest(archive, k, fp) ==
    \/ fp = NoFp /\ \A i \in DOMAIN archive : ~EventOf(archive[i], k)
    \/ \E i \in DOMAIN archive :
          /\ EventOf(archive[i], k)
          /\ archive[i].fp = fp
          /\ \A j \in DOMAIN archive : j > i => ~EventOf(archive[j], k)

ChainHead(archive) ==
    IF archive = << >> THEN Genesis ELSE archive[Len(archive)].hash

\* A process that may be stopped would be resumed as it is.
StopsSettled == up /\ pc = "idle" /\ result # "error" => state = Resumed

ViewIsLatest ==
    /\ View.lastHash = ChainHead(log)
    /\ \A k \in Keys : IsLatest(log, k, View.jobs[k])

\* The two kinds of steps: those that leave archive and view as they are, and
\* those that add one envelope, which the view then names.
Quiet ==
    /\ log' = log
    /\ View'.lastHash = View.lastHash
    /\ View'.jobs = View.jobs

AddsObservation(e) == e.kind = "observation" /\ View'.jobs = View.jobs

AddsEvent(e) ==
    \E k \in Keys :
        /\ EventOf(e, k)
        /\ e.fp # View.jobs[k]
        /\ View'.jobs = [View.jobs EXCEPT ![k] = e.fp]

Adds(e) ==
    /\ log' = Append(log, e)
    /\ e.hash = digests + 1
    /\ e.sequence = state.sequence + 1
    /\ e.previous = state.lastHash
    /\ state.lastHash = View.lastHash
    /\ View'.lastHash = e.hash
    /\ AddsObservation(e) \/ AddsEvent(e)

OrderlyInv ==
    /\ IInv
    /\ index # Corrupt
    /\ StopsSettled
    /\ ViewIsLatest
    /\ NoRepeatedEvent

-----------------------------------------------------------------------------

LEMMA ViewType ==
    ASSUME IInv, index # Corrupt
    PROVE  Resumed \in States /\ View \in States /\ View.jobs \in JobMap
  <1>1. Fresh \in States /\ index \in States \cup {Missing, Corrupt}
        /\ state \in States
    BY FreshIsState DEF IInv, TypeOK
  <1>2. Resumed \in States /\ View \in States
    BY <1>1 DEF Resumed, View
  <1>3. QED
    BY <1>2 DEF States

\* An append that fails in one of the orderly ways changes no more than the
\* sequence number.
LEMMA OrderlyFailure ==
    ASSUME IInv, Faults \subseteq OrderlyFaults,
           NEW e \in Envelopes, AppendFails(e)
    PROVE  /\ log' = log /\ index' = index
           /\ state'.lastHash = state.lastHash /\ state'.jobs = state.jobs
  <1>1. state \in States /\ "sync" \notin Faults
    BY DEF IInv, TypeOK, OrderlyFaults
  <1>2. FailedAt(e).lastHash = state.lastHash /\ FailedAt(e).jobs = state.jobs
    BY <1>1 DEF FailedAt, States
  <1>3. QED
    BY <1>1, <1>2 DEF AppendFails, NoLine, Fragment, Line, disk

\* Every step is of one of the two kinds.
LEMMA OrderlyStep ==
    ASSUME OrderlyInv, [Next]_vars, Faults \subseteq OrderlyFaults
    PROVE  Quiet \/ \E e \in Envelopes : Adds(e)
  <1>0. /\ IInv /\ TypeOK /\ index # Corrupt /\ StopsSettled
        /\ CallsNeedProcess /\ state \in States
        /\ Observation \in Envelopes
        /\ \A k \in Keys : JobEvent(k) \in Envelopes
    BY EnvelopeType DEF OrderlyInv, IInv, TypeOK
  <1>1. CASE Open
    BY <1>1 DEF Open, disk, View, Quiet, Resumed
  <1>2. CASE OpenFails
    BY <1>0, <1>2 DEF OpenFails
  <1>3. ASSUME NEW jobs \in JobMap, BeginSnapshot(jobs) PROVE Quiet
    BY <1>3 DEF BeginSnapshot, memory, View, Quiet, Resumed
  <1>4. CASE AppendObservation
    <2>1. View = state /\ View' = state'
      BY <1>0, <1>4 DEF AppendObservation, CallsNeedProcess, View
    <2>2. CASE AppendFails(Observation)
      BY <1>0, <2>1, <2>2, OrderlyFailure DEF Quiet
    <2>3. CASE /\ Line(Observation)
               /\ state' = [state EXCEPT !.sequence = Observation.sequence,
                                         !.lastHash = Observation.hash]
      <3>1. state'.lastHash = Observation.hash /\ state'.jobs = state.jobs
        BY <1>0, <2>3 DEF States
      <3>2. Adds(Observation)
        BY <2>1, <2>3, <3>1, EnvelopeFields DEF Line, Adds, AddsObservation
      <3>3. QED
        BY <1>0, <3>2
    <2>4. QED
      BY <1>4, <2>2, <2>3 DEF AppendObservation
  <1>5. ASSUME NEW k \in Keys, SkipJob(k) PROVE Quiet
    BY <1>5 DEF SkipJob, memory, disk, View, Quiet, Resumed
  <1>6. ASSUME NEW k \in Keys, AppendJob(k)
        PROVE  Quiet \/ \E e \in Envelopes : Adds(e)
    <2>1. View = state /\ View' = state' /\ ~Unchanged(k)
      BY <1>0, <1>6 DEF AppendJob, CallsNeedProcess, View
    <2>2. CASE AppendFails(JobEvent(k))
      BY <1>0, <2>1, <2>2, OrderlyFailure DEF Quiet
    <2>3. CASE Line(JobEvent(k)) /\ state' = Recorded(k)
      <3>1. /\ state'.lastHash = JobEvent(k).hash
            /\ state'.jobs = [state.jobs EXCEPT ![k] = snap[k]]
        BY <2>3 DEF Recorded
      <3>2. AddsEvent(JobEvent(k))
        BY <2>1, <3>1, EnvelopeFields DEF AddsEvent, EventOf, Unchanged
      <3>3. Adds(JobEvent(k))
        BY <2>1, <2>3, <3>1, <3>2, EnvelopeFields DEF Line, Adds
      <3>4. QED
        BY <1>0, <3>3
    <2>4. QED
      BY <1>6, <2>2, <2>3 DEF AppendJob
  <1>7. CASE SaveState
    <2>1. up /\ up' /\ state' = state /\ log' = log
      BY <1>0, <1>7 DEF SaveState, CallsNeedProcess
    <2>2. QED
      BY <2>1 DEF View, Quiet
  <1>8. CASE Stop
    <2>1. up /\ ~up' /\ state = Resumed /\ Resumed' = Resumed /\ log' = log
      BY <1>0, <1>8 DEF Stop, LoseProcess, StopsSettled, Resumed, disk
    <2>2. QED
      BY <2>1 DEF View, Quiet
  <1>9. CASE Kill \/ PowerLoss \/ Writeback
    BY <1>9 DEF Kill, PowerLoss, Writeback, OrderlyFaults
  <1>10. CASE UNCHANGED vars
    BY <1>10 DEF vars, View, Quiet, Resumed
  <1>11. QED
    BY <1>1, <1>2, <1>3, <1>4, <1>5, <1>6, <1>7, <1>8, <1>9, <1>10 DEF Next

\* The invariant after a step that adds an envelope: the new head is the one
\* the view names, and the latest events are the ones it has.
LEMMA LatestStep ==
    ASSUME NEW archive \in Seq(Envelopes), NEW e \in Envelopes, NEW k, NEW fp,
           IsLatest(archive, k, fp), ~EventOf(e, k)
    PROVE  IsLatest(Append(archive, e), k, fp)
  <1> DEFINE longer == Append(archive, e)
  <1>1. /\ DOMAIN archive = 1 .. Len(archive) /\ Len(archive) \in Nat
        /\ DOMAIN longer = 1 .. Len(archive) + 1
        /\ \A i \in DOMAIN archive : longer[i] = archive[i]
        /\ longer[Len(archive) + 1] = e
    OBVIOUS
  <1>2. \A i \in DOMAIN longer : EventOf(longer[i], k) =>
            i \in DOMAIN archive /\ EventOf(archive[i], k)
    BY <1>1
  <1> HIDE DEF longer
  <1>3. CASE fp = NoFp /\ \A i \in DOMAIN archive : ~EventOf(archive[i], k)
    BY <1>2, <1>3 DEF IsLatest, longer
  <1>4. ASSUME NEW i \in DOMAIN archive, EventOf(archive[i], k),
               archive[i].fp = fp,
               \A j \in DOMAIN archive : j > i => ~EventOf(archive[j], k)
        PROVE  IsLatest(longer, k, fp)
    <2>1. i \in DOMAIN longer /\ EventOf(longer[i], k) /\ longer[i].fp = fp
      BY <1>1, <1>4
    <2>2. \A j \in DOMAIN longer : j > i => ~EventOf(longer[j], k)
      BY <1>2, <1>4
    <2>3. QED
      BY <2>1, <2>2 DEF IsLatest
  <1>5. QED
    BY <1>3, <1>4 DEF IsLatest, longer

LEMMA LatestIsLast ==
    ASSUME NEW archive \in Seq(Envelopes), NEW e \in Envelopes, NEW k,
           EventOf(e, k)
    PROVE  IsLatest(Append(archive, e), k, e.fp)
  <1> DEFINE longer == Append(archive, e)
             n == Len(archive) + 1
  <1>1. n \in DOMAIN longer /\ longer[n] = e /\ DOMAIN longer = 1 .. n /\ n \in Nat
    OBVIOUS
  <1> HIDE DEF longer, n
  <1>2. EventOf(longer[n], k) /\ longer[n].fp = e.fp
    BY <1>1
  <1>3. \A j \in DOMAIN longer : ~(j > n)
    BY <1>1
  <1>4. IsLatest(longer, k, e.fp)
    BY <1>1, <1>2, <1>3 DEF IsLatest
  <1>5. QED
    BY <1>4 DEF longer

LEMMA ViewStep ==
    ASSUME OrderlyInv, [Next]_vars, Faults \subseteq OrderlyFaults
    PROVE  ViewIsLatest'
  <1>0. /\ log \in Seq(Envelopes) /\ View.jobs \in JobMap /\ ViewIsLatest
    BY ViewType DEF OrderlyInv, IInv, TypeOK
  <1>1. CASE Quiet
    BY <1>0, <1>1 DEF Quiet, ViewIsLatest
  <1>2. ASSUME NEW e \in Envelopes, Adds(e) PROVE ViewIsLatest'
    <2>1. log' = Append(log, e) /\ View'.lastHash = e.hash
      BY <1>2 DEF Adds
    <2>2. View'.lastHash = ChainHead(log')
      BY <1>0, <2>1 DEF ChainHead
    <2>3. ASSUME NEW k \in Keys PROVE IsLatest(log', k, View'.jobs[k])
      <3>1. CASE AddsObservation(e)
        BY <1>0, <2>1, <3>1, LatestStep DEF AddsObservation, EventOf, ViewIsLatest
      <3>2. CASE AddsEvent(e)
        <4>1. PICK j \in Keys : /\ EventOf(e, j)
                                /\ View'.jobs = [View.jobs EXCEPT ![j] = e.fp]
          BY <3>2 DEF AddsEvent
        <4>2. CASE k = j
          <5>1. View'.jobs[k] = e.fp
            BY <1>0, <4>1, <4>2 DEF JobMap
          <5>2. QED
            BY <1>0, <2>1, <4>1, <4>2, <5>1, LatestIsLast
        <4>3. CASE k # j
          <5>1. View'.jobs[k] = View.jobs[k] /\ ~EventOf(e, k)
            BY <1>0, <4>1, <4>3 DEF JobMap, EventOf
          <5>2. QED
            BY <1>0, <2>1, <5>1, LatestStep DEF ViewIsLatest
        <4>4. QED
          BY <4>2, <4>3
      <3>3. QED
        BY <1>2, <3>1, <3>2 DEF Adds
    <2>4. QED
      BY <2>2, <2>3 DEF ViewIsLatest
  <1>3. QED
    BY <1>1, <1>2, OrderlyStep

\* A new event differs from the job's latest one, so an equal one before it is
\* older than that.
LEMMA NoRepeatStep ==
    ASSUME OrderlyInv, [Next]_vars, Faults \subseteq OrderlyFaults
    PROVE  NoRepeatedEvent'
  <1>0. log \in Seq(Envelopes) /\ ViewIsLatest /\ NoRepeatedEvent
    BY DEF OrderlyInv, IInv, TypeOK
  <1>1. CASE Quiet
    BY <1>0, <1>1 DEF Quiet, NoRepeatedEvent
  <1>2. ASSUME NEW e \in Envelopes, Adds(e) PROVE NoRepeatedEvent'
    <2> DEFINE n == Len(log) + 1
    <2>1. /\ DOMAIN log = 1 .. Len(log) /\ Len(log) \in Nat
          /\ DOMAIN log' = 1 .. n
          /\ \A i \in DOMAIN log : log'[i] = log[i]
          /\ log'[n] = e
      BY <1>0, <1>2 DEF Adds
    <2> SUFFICES ASSUME NEW i \in DOMAIN log', NEW j \in DOMAIN log', i < j,
                        log'[i].kind = "job_state_change",
                        log'[j].kind = "job_state_change",
                        log'[i].key = log'[j].key, log'[i].fp = log'[j].fp
                 PROVE  \E m \in i + 1 .. j - 1 : /\ log'[m].key = log'[i].key
                                                  /\ log'[m].fp # log'[i].fp
      BY DEF NoRepeatedEvent
    <2>2. i \in DOMAIN log /\ i \in Nat /\ j \in Nat
      BY <2>1
    <2>3. CASE j \in DOMAIN log
      <3>1. \E m \in i + 1 .. j - 1 : /\ log[m].key = log[i].key
                                      /\ log[m].fp # log[i].fp
        BY <1>0, <2>1, <2>2, <2>3 DEF NoRepeatedEvent
      <3>2. i + 1 .. j - 1 \subseteq DOMAIN log
        BY <2>1, <2>2, <2>3
      <3>3. QED
        BY <2>1, <2>2, <3>1, <3>2
    <2>4. CASE j = n
      <3>1. log'[j] = e
        BY <2>1, <2>4
      <3>2. PICK k \in Keys : EventOf(e, k) /\ e.fp # View.jobs[k]
        BY <1>2, <3>1 DEF Adds, AddsObservation, AddsEvent
      <3>3. EventOf(log[i], k) /\ log[i].fp = e.fp
        BY <2>1, <2>2, <3>1, <3>2 DEF EventOf
      <3>4. PICK m \in DOMAIN log :
                /\ EventOf(log[m], k)
                /\ log[m].fp = View.jobs[k]
                /\ \A l \in DOMAIN log : l > m => ~EventOf(log[l], k)
        BY <1>0, <2>2, <3>3 DEF ViewIsLatest, IsLatest
      <3>5. i # m /\ ~(i > m)
        BY <2>2, <3>2, <3>3, <3>4
      <3>6. m \in i + 1 .. j - 1
        BY <2>1, <2>2, <2>4, <3>5
      <3>7. log'[m].key = log'[i].key /\ log'[m].fp # log'[i].fp
        BY <2>1, <2>2, <3>2, <3>3, <3>4 DEF EventOf
      <3>8. QED
        BY <3>6, <3>7
    <2>5. QED
      BY <2>1, <2>2, <2>3, <2>4
  <1>3. QED
    BY <1>1, <1>2, OrderlyStep

\* state.json is never half written, and a call that returned nil, like Open,
\* leaves it equal to the memory.
LEMMA SettledStep ==
    ASSUME OrderlyInv, [Next]_vars, Faults \subseteq OrderlyFaults
    PROVE  index' # Corrupt /\ StopsSettled'
  <1>0. /\ index # Corrupt /\ StopsSettled /\ CallsNeedProcess
        /\ state \in States /\ state # Missing /\ state # Corrupt
    BY IndexAssumption DEF OrderlyInv, IInv, TypeOK
  <1>1. CASE Open
    BY <1>0, <1>1 DEF Open, disk, StopsSettled, Resumed
  <1>2. CASE OpenFails
    BY <1>0, <1>2 DEF OpenFails
  <1>3. ASSUME NEW jobs \in JobMap, BeginSnapshot(jobs)
        PROVE  index' # Corrupt /\ StopsSettled'
    BY <1>0, <1>3 DEF BeginSnapshot, StopsSettled
  <1>4. ASSUME NEW e, AppendFails(e) PROVE index' = index
    BY <1>4 DEF AppendFails, NoLine, Fragment, Line, disk
  <1>5. CASE AppendObservation
    BY <1>0, <1>4, <1>5 DEF AppendObservation, Line, Return, StopsSettled
  <1>6. ASSUME NEW k \in Keys, SkipJob(k)
        PROVE  index' # Corrupt /\ StopsSettled'
    BY <1>0, <1>6 DEF SkipJob, disk, StopsSettled
  <1>7. ASSUME NEW k \in Keys, AppendJob(k)
        PROVE  index' # Corrupt /\ StopsSettled'
    BY <1>0, <1>4, <1>7 DEF AppendJob, Line, Return, StopsSettled
  <1>8. CASE SaveState
    BY <1>0, <1>8 DEF SaveState, SaveFails, Return, StopsSettled, Resumed
  <1>9. CASE Stop
    BY <1>0, <1>9 DEF Stop, LoseProcess, disk, StopsSettled
  <1>10. CASE Kill \/ PowerLoss \/ Writeback
    BY <1>10 DEF Kill, PowerLoss, Writeback, OrderlyFaults
  <1>11. CASE UNCHANGED vars
    BY <1>0, <1>11 DEF vars, StopsSettled, Resumed
  <1>12. QED
    BY <1>1, <1>2, <1>3, <1>5, <1>6, <1>7, <1>8, <1>9, <1>10, <1>11 DEF Next

\* OrderlyInv holds in every reachable state as long as only orderly faults
\* occur: memory, or the index while there is no process, names the archive's
\* last record and each job's last event.
THEOREM OrderlyInvariant ==
    ASSUME Faults \subseteq OrderlyFaults
    PROVE  Spec => []OrderlyInv
  <1>1. Init => index # Corrupt /\ StopsSettled /\ ViewIsLatest /\ NoRepeatedEvent
    <2> SUFFICES ASSUME Init
                 PROVE  index # Corrupt /\ StopsSettled /\ ViewIsLatest
                        /\ NoRepeatedEvent
      OBVIOUS
    <2>1. /\ log = << >> /\ index = Missing /\ ~up
      BY DEF Init
    <2>2. View = Fresh
      BY <2>1 DEF View, Resumed
    <2>3. ViewIsLatest
      BY <2>1, <2>2 DEF ViewIsLatest, ChainHead, IsLatest, Fresh, NoJobs
    <2>4. QED
      BY <2>1, <2>3, IndexAssumption DEF StopsSettled, NoRepeatedEvent
  <1>2. OrderlyInv /\ [Next]_vars /\ IInv' => OrderlyInv'
    BY SettledStep, ViewStep, NoRepeatStep DEF OrderlyInv
  <1>3. QED
    BY <1>1, <1>2, InvariantHolds, PTL DEF Spec, OrderlyInv

\* Two events of a job with the same fields have another one between them, as
\* long as only orderly faults occur.
THEOREM NoEventTwice ==
    ASSUME Faults \subseteq OrderlyFaults
    PROVE  Spec => []NoRepeatedEvent
  <1>1. OrderlyInv => NoRepeatedEvent
    BY DEF OrderlyInv
  <1>2. QED
    BY <1>1, OrderlyInvariant, PTL

\* The archive is then one unbranched hash chain: each record names the one
\* before it.
THEOREM ChainImplemented ==
    ASSUME Faults \subseteq OrderlyFaults
    PROVE  Spec => ImplementsAuditChain
  <1>1. Init => Chain!Init
    BY DEF Init, Links, Chain!Init
  <1>2. ASSUME OrderlyInv, [Next]_vars PROVE [Chain!Extend]_Links
    <2>0. /\ IInv /\ TypeOK /\ HashesAreOld /\ ViewIsLatest
          /\ log \in Seq(Envelopes) /\ Resumable(log, state)
      BY <1>2, StateIsView DEF OrderlyInv, IInv, TypeOK, Views
    <2>1. CASE Quiet
      BY <2>1 DEF Quiet, Links
    <2>2. ASSUME NEW e \in Envelopes, Adds(e) PROVE Chain!Extend
      <3>1. log' = Append(log, e) /\ e.previous = ChainHead(log)
        BY <2>0, <2>2 DEF Adds, ViewIsLatest
      <3>2. Trail!Extend
        BY <2>0, <2>2, TrailGrows DEF Adds
      <3>3. ChainHead(log) = Chain!Newest(Links)
        <4>1. /\ DOMAIN Links = DOMAIN log /\ Len(Links) = Len(log)
              /\ \A i \in DOMAIN log : Links[i] = Link(log[i])
          BY <2>0, LinksShape DEF Links
        <4>2. log # << >> => Len(log) \in DOMAIN log
          BY <2>0
        <4>3. Links = << >> <=> log = << >>
          BY <2>0, <4>1
        <4>4. QED
          BY <4>1, <4>2, <4>3 DEF ChainHead, Chain!Newest, Link
      <3>4. Links'[Len(Links')].previous = e.previous
        <4>1. log' \in Seq(Envelopes) /\ Len(log') \in DOMAIN log'
              /\ log'[Len(log')] = e
          BY <2>0, <2>2, <3>1, AppendKeeps
        <4>2. Len(Links') = Len(log')
          BY <4>1, LinksShape DEF Links
        <4>3. QED
          BY <4>1, <4>2 DEF Links, Link
      <3>5. QED
        BY <3>1, <3>2, <3>3, <3>4
        DEF Trail!Extend, Trail!Joins, Trail!Rooted,
            Chain!Extend, Chain!Joins, Chain!Rooted
    <2>3. QED
      BY <1>2, <2>1, <2>2, OrderlyStep
  <1>3. QED
    BY <1>1, <1>2, OrderlyInvariant, PTL
    DEF ImplementsAuditChain, Chain!Spec, Spec
=============================================================================
