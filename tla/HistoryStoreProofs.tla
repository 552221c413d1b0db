------------------------- MODULE HistoryStoreProofs -------------------------
(***************************************************************************)
(* Theorems about HistoryStore, for every set of keys, of fingerprints and *)
(* of faults and for every number of snapshots.                            *)
(***************************************************************************)
EXTENDS HistoryStore, FiniteSetTheorems, TLAPS

(***************************************************************************)
(* Types.                                                                  *)
(***************************************************************************)

LEMMA FreshIsState == Fresh \in States /\ NoJobs \in JobMap
  BY DEF Fresh, States, NoJobs, JobMap, Genesis

LEMMA EnvelopeType ==
    ASSUME TypeOK
    PROVE  /\ Observation \in Envelopes
           /\ \A k \in Keys : JobEvent(k) \in Envelopes
  BY DEF TypeOK, Observation, JobEvent, Envelope, Envelopes, States, JobMap,
         Kinds

LEMMA HashType == \A e \in Envelopes : e.hash \in Nat /\ e.sequence \in Nat
  BY DEF Envelopes

LEMMA LineType ==
    ASSUME TypeOK, NEW e \in Envelopes, Line(e)
    PROVE  /\ log' \in Seq(Envelopes) /\ torn' \in BOOLEAN /\ digests' \in Nat
           /\ index' \in States \cup {Missing, Corrupt}
           /\ stable' \in States \cup {Missing, Corrupt}
  <1>1. log' \in Seq(Envelopes)
    BY DEF Line, TypeOK
  <1>2. digests' \in Nat
    BY HashType DEF Line
  <1>3. QED
    BY <1>1, <1>2 DEF Line, TypeOK

LEMMA FailType ==
    ASSUME TypeOK, NEW e \in Envelopes, AppendFails(e)
    PROVE  /\ log' \in Seq(Envelopes) /\ torn' \in BOOLEAN /\ digests' \in Nat
           /\ index' \in States \cup {Missing, Corrupt}
           /\ stable' \in States \cup {Missing, Corrupt}
           /\ state' \in States
  <1>1. CASE UNCHANGED << state, disk >>
    BY <1>1 DEF TypeOK, disk
  <1>2. CASE /\ state' = [state EXCEPT !.sequence = e.sequence]
             /\ NoLine(e) \/ Fragment(e) \/ Line(e)
    <2>1. state' \in States
      BY <1>2, HashType DEF TypeOK, States
    <2>2. CASE NoLine(e)
      BY <2>1, <2>2, HashType DEF NoLine, TypeOK
    <2>3. CASE Fragment(e)
      BY <2>1, <2>3, HashType DEF Fragment, TypeOK
    <2>4. QED
      BY <1>2, <2>1, <2>2, <2>3, LineType
  <1>3. QED
    BY <1>1, <1>2 DEF AppendFails, FailedAt

LEMMA InterruptedType ==
    ASSUME TypeOK, Interrupted
    PROVE  log' \in Seq(Envelopes) /\ torn' \in BOOLEAN /\ digests' \in Nat
  <1>1. InFlight \subseteq Envelopes
    BY EnvelopeType DEF InFlight, TypeOK
  <1>2. CASE UNCHANGED << log, torn, digests >>
    BY <1>2 DEF TypeOK
  <1>3. ASSUME NEW e \in Envelopes,
               digests' = e.hash,
               \/ log' = Append(log, e) /\ torn' = FALSE
               \/ torn' = TRUE /\ log' = log
        PROVE  log' \in Seq(Envelopes) /\ torn' \in BOOLEAN /\ digests' \in Nat
    <2>1. log' \in Seq(Envelopes)
      BY <1>3 DEF TypeOK
    <2>2. QED
      BY <1>3, <2>1, HashType
  <1>4. QED
    BY <1>1, <1>2, <1>3 DEF Interrupted

LEMMA TypeStep == TypeOK /\ [Next]_vars => TypeOK'
  <1>0. SUFFICES ASSUME TypeOK, [Next]_vars PROVE TypeOK'
    OBVIOUS
  <1> USE DEF Return
  <1>1. CASE Open
    <2>1. state' \in States
      BY <1>0, <1>1, FreshIsState DEF Open, Resumed, TypeOK
    <2>2. QED
      BY <1>0, <1>1, <2>1 DEF Open, TypeOK, disk
  <1>2. CASE OpenFails
    BY <1>0, <1>2 DEF OpenFails, TypeOK, vars
  <1>3. ASSUME NEW jobs \in JobMap, BeginSnapshot(jobs) PROVE TypeOK'
    <2>1. torn' \in BOOLEAN /\ todo' \subseteq Keys
      <3>1. torn \in BOOLEAN
        BY <1>0 DEF TypeOK
      <3>2. torn' \in {torn, FALSE} /\ todo' = {k \in Keys : jobs[k] # NoFp}
        BY <1>3 DEF BeginSnapshot
      <3>3. torn' = torn \/ torn' = FALSE
        BY <3>2, Zenon
      <3>4. QED
        BY <3>1, <3>2, <3>3, Zenon
    <2>2. /\ state' \in States
          /\ lastWrite' \in Nat
          /\ log' \in Seq(Envelopes)
          /\ snapshots' \in Nat
      BY <1>0, <1>3 DEF BeginSnapshot, TypeOK, memory
    <2>3. /\ snap' \in JobMap
          /\ pc' \in {"idle", "observation", "jobs"}
          /\ result' \in {"none", "ok", "error"}
      BY <1>0, <1>3 DEF BeginSnapshot, TypeOK, memory
    <2>4. /\ up' \in BOOLEAN
          /\ index' \in States \cup {Missing, Corrupt}
          /\ stable' \in States \cup {Missing, Corrupt}
          /\ digests' \in Nat
      BY <1>0, <1>3 DEF BeginSnapshot, TypeOK
    <2>5. QED
      BY <2>1, <2>2, <2>3, <2>4 DEF TypeOK
  <1>4. CASE AppendObservation
    <2>1. Observation \in Envelopes
      BY <1>0, EnvelopeType
    <2>2. CASE Line(Observation) /\ pc' = "jobs"
      BY <1>0, <1>4, <2>1, <2>2, LineType
      DEF AppendObservation, TypeOK, States, Envelopes, Line
    <2>3. CASE AppendFails(Observation) /\ Return("error")
      BY <1>0, <1>4, <2>1, <2>3, FailType DEF AppendObservation, TypeOK
    <2>4. QED
      BY <1>0, <1>4, <2>2, <2>3 DEF AppendObservation
  <1>5. ASSUME NEW k \in Keys, SkipJob(k) PROVE TypeOK'
    BY <1>0, <1>5 DEF SkipJob, TypeOK, memory, disk
  <1>6. ASSUME NEW k \in Keys, AppendJob(k) PROVE TypeOK'
    <2>1. JobEvent(k) \in Envelopes
      BY <1>0, EnvelopeType
    <2>2. CASE Line(JobEvent(k)) /\ UNCHANGED << pc, result >>
      <3>1. [state.jobs EXCEPT ![k] = snap[k]] \in JobMap
        BY <1>0 DEF TypeOK, States, JobMap
      <3>2. state' = [sequence |-> JobEvent(k).sequence,
                      lastHash |-> JobEvent(k).hash,
                      jobs |-> [state.jobs EXCEPT ![k] = snap[k]]]
        BY <1>6, <2>2 DEF AppendJob, Recorded
      <3>4. state' \in States
        BY <2>1, <3>1, <3>2, HashType DEF States
      <3>3. QED
        BY <1>0, <1>6, <2>1, <2>2, <3>4, LineType DEF AppendJob, TypeOK
    <2>3. CASE AppendFails(JobEvent(k)) /\ Return("error")
      BY <1>0, <1>6, <2>1, <2>3, FailType DEF AppendJob, TypeOK
    <2>4. QED
      BY <1>0, <1>6, <2>2, <2>3 DEF AppendJob
  <1>7. CASE SaveState
    BY <1>0, <1>7 DEF SaveState, SaveFails, TypeOK
  <1>8. CASE Stop
    BY <1>0, <1>8, FreshIsState DEF Stop, LoseProcess, TypeOK, disk
  <1>9. CASE Kill
    BY <1>0, <1>9, FreshIsState, InterruptedType DEF Kill, LoseProcess, TypeOK
  <1>10. CASE PowerLoss
    BY <1>0, <1>10, FreshIsState, InterruptedType
    DEF PowerLoss, LoseProcess, TypeOK
  <1>11. CASE Writeback
    BY <1>0, <1>11 DEF Writeback, TypeOK, memory, call
  <1>12. CASE UNCHANGED vars
    BY <1>0, <1>12 DEF TypeOK, vars
  <1>13. QED
    BY <1>0, <1>1, <1>2, <1>3, <1>4, <1>5, <1>6, <1>7, <1>8, <1>9, <1>10,
       <1>11, <1>12 DEF Next

LEMMA InitType == Init => TypeOK
  <1>1. << >> \in Seq(Envelopes)
    OBVIOUS
  <1>2. Init => /\ up \in BOOLEAN /\ torn \in BOOLEAN
                /\ state \in States /\ snap \in JobMap
                /\ log \in Seq(Envelopes)
    BY <1>1, FreshIsState DEF Init
  <1>3. QED
    BY <1>2 DEF Init, TypeOK

\* Every variable keeps its type: the state index is always one Open can
\* resume from, absent, or rejected as a whole.
THEOREM TypeCorrect == Spec => []TypeOK
  BY InitType, TypeStep, PTL DEF Spec

(***************************************************************************)
(* The archive and the states that can be resumed from it.                 *)
(***************************************************************************)

LEMMA AppendKeeps ==
    ASSUME NEW S, NEW archive \in Seq(S), NEW e \in S
    PROVE  /\ Append(archive, e) \in Seq(S)
           /\ DOMAIN Append(archive, e) = 1 .. Len(archive) + 1
           /\ Len(archive) \in Nat
           /\ Append(archive, e)[Len(archive) + 1] = e
           /\ \A i \in DOMAIN archive : /\ i \in 1 .. Len(archive)
                                        /\ i \in DOMAIN Append(archive, e)
                                        /\ Append(archive, e)[i] = archive[i]
  OBVIOUS

LEMMA ResumableKept ==
    ASSUME NEW archive \in Seq(Envelopes), NEW e \in Envelopes,
           NEW s, Resumable(archive, s)
    PROVE  Resumable(Append(archive, e), s)
  <1> DEFINE longer == Append(archive, e)
  <1>1. \A i \in DOMAIN archive : i \in DOMAIN longer /\ longer[i] = archive[i]
    BY AppendKeeps
  <1> HIDE DEF longer
  <1>2. HeadIn(longer, s)
    BY <1>1 DEF Resumable, HeadIn
  <1>3. ASSUME NEW k \in Keys, NEW fp, EventIn(archive, k, fp)
        PROVE  EventIn(longer, k, fp)
    BY <1>1, <1>3 DEF EventIn
  <1>4. JobsIn(longer, s)
    BY <1>3 DEF Resumable, JobsIn
  <1>5. QED
    BY <1>2, <1>4 DEF Resumable, longer

LEMMA FreshResumable == ASSUME NEW archive PROVE Resumable(archive, Fresh)
  BY DEF Resumable, HeadIn, JobsIn, Fresh, NoJobs

\* A state that names the last record as its head, and has no job event the
\* archive lacks.
LEMMA HeadIsLast ==
    ASSUME NEW archive \in Seq(Envelopes), NEW e \in Envelopes, NEW s,
           s.lastHash = e.hash, s.sequence = e.sequence
    PROVE  HeadIn(Append(archive, e), s)
  <1>1. Len(archive) + 1 \in DOMAIN Append(archive, e)
    BY AppendKeeps
  <1>2. Append(archive, e)[Len(archive) + 1] = e
    BY AppendKeeps
  <1>3. e.sequence \in Nat
    BY HashType
  <1>4. e.sequence <= s.sequence
    BY <1>3
  <1>5. QED
    BY <1>1, <1>2, <1>4 DEF HeadIn

LEMMA EventIsLast ==
    ASSUME NEW archive \in Seq(Envelopes), NEW e \in Envelopes,
           e.kind = "job_state_change", e.legible
    PROVE  EventIn(Append(archive, e), e.key, e.fp)
  <1>1. /\ Len(archive) + 1 \in DOMAIN Append(archive, e)
        /\ Append(archive, e)[Len(archive) + 1] = e
    BY AppendKeeps
  <1>2. QED
    BY <1>1 DEF EventIn

\* Advancing only the sequence number keeps a state resumable.
LEMMA SequenceMayGrow ==
    ASSUME NEW archive \in Seq(Envelopes), NEW s \in States,
           Resumable(archive, s), NEW n \in Nat, s.sequence <= n
    PROVE  Resumable(archive, [s EXCEPT !.sequence = n])
  <1> DEFINE t == [s EXCEPT !.sequence = n]
  <1>1. t.lastHash = s.lastHash /\ t.jobs = s.jobs /\ t.sequence = n
    BY DEF States
  <1>2. \A i \in DOMAIN archive : archive[i].sequence \in Nat
    BY HashType
  <1>3. s.sequence \in Nat
    BY DEF States
  <1> HIDE DEF t
  <1>4. HeadIn(archive, t)
    BY <1>1, <1>2, <1>3 DEF Resumable, HeadIn
  <1>5. JobsIn(archive, t)
    BY <1>1 DEF Resumable, JobsIn
  <1>6. QED
    BY <1>4, <1>5 DEF Resumable, t

(***************************************************************************)
(* The inductive invariant.                                                *)
(***************************************************************************)

\* The states a process runs with, or a restart may find.
Views == {state, index, stable} \ {Missing, Corrupt}

LEMMA StateIsView ==
    ASSUME TypeOK PROVE state \in Views
  BY IndexAssumption DEF TypeOK, Views

LEMMA EnvelopeFields ==
    /\ Observation.hash = digests + 1
    /\ Observation.sequence = state.sequence + 1
    /\ Observation.previous = state.lastHash
    /\ Observation.kind = "observation"
    /\ \A k : /\ JobEvent(k).hash = digests + 1
             /\ JobEvent(k).sequence = state.sequence + 1
             /\ JobEvent(k).previous = state.lastHash
             /\ JobEvent(k).kind = "job_state_change"
             /\ JobEvent(k).key = k
             /\ JobEvent(k).fp = snap[k]
             /\ JobEvent(k).legible = ~torn
  BY DEF Observation, JobEvent, Envelope

\* Whatever becomes of the next envelope, hashes stay unique and nothing a
\* resumable state rests on is lost.
LEMMA ArchiveStep ==
    ASSUME TypeOK, HashesAreOld, NEW e \in Envelopes, e.hash = digests + 1,
           \/ log' = log /\ digests' \in {digests, digests + 1}
           \/ log' = Append(log, e) /\ digests' = digests + 1
    PROVE  /\ HashesAreOld'
           /\ \A s : Resumable(log, s) => Resumable(log', s)
  <1>1. digests \in Nat /\ log \in Seq(Envelopes)
    BY DEF TypeOK
  <1>2. CASE log' = log /\ digests' \in {digests, digests + 1}
    BY <1>1, <1>2 DEF HashesAreOld
  <1>3. CASE log' = Append(log, e) /\ digests' = digests + 1
    <2>1. ASSUME NEW i \in DOMAIN log' PROVE log'[i].hash \in 1 .. digests'
      <3>1. i \in DOMAIN log \/ i = Len(log) + 1
        BY <1>1, <1>3, <2>1, AppendKeeps
      <3>2. CASE i \in DOMAIN log
        <4>1. log'[i] = log[i]
          BY <1>1, <1>3, <3>2, AppendKeeps
        <4>2. log[i].hash \in 1 .. digests
          BY <3>2 DEF HashesAreOld
        <4>3. QED
          BY <1>1, <1>3, <4>1, <4>2
      <3>3. CASE i = Len(log) + 1
        <4>1. log'[i] = e
          BY <1>1, <1>3, <3>3, AppendKeeps
        <4>2. QED
          BY <1>1, <1>3, <4>1
      <3>4. QED
        BY <3>1, <3>2, <3>3
    <2>2. HashesAreOld'
      BY <2>1 DEF HashesAreOld
    <2>3. QED
      BY <1>1, <1>3, <2>2, ResumableKept
  <1>4. QED
    BY <1>2, <1>3

LEMMA AppendFailsStep ==
    ASSUME IInv, NEW e \in Envelopes, AppendFails(e),
           e.hash = digests + 1, e.sequence = state.sequence + 1
    PROVE  /\ HashesAreOld'
           /\ \A s \in Views' : Resumable(log', s)
  <1>0. TypeOK /\ HashesAreOld /\ state \in States /\ digests \in Nat
    BY DEF IInv, TypeOK
  <1>1. /\ index' = index /\ stable' = stable
        /\ \/ log' = log /\ digests' \in {digests, digests + 1}
           \/ log' = Append(log, e) /\ digests' = digests + 1
    BY DEF AppendFails, Line, Fragment, NoLine, disk
  <1>2. state' = state \/ state' = [state EXCEPT !.sequence = e.sequence]
    BY DEF AppendFails, FailedAt
  <1>3. /\ HashesAreOld'
        /\ \A s : Resumable(log, s) => Resumable(log', s)
    BY <1>0, <1>1, ArchiveStep
  <1>4. Resumable(log, state)
    BY <1>0, StateIsView DEF IInv, Views
  <1>5. state.sequence \in Nat /\ e.sequence \in Nat
        /\ state.sequence <= e.sequence
    BY <1>0 DEF States
  <1>6. Resumable(log, [state EXCEPT !.sequence = e.sequence])
    BY <1>0, <1>4, <1>5, SequenceMayGrow DEF TypeOK
  <1>7. Resumable(log', state')
    BY <1>2, <1>3, <1>4, <1>6
  <1>8. \A s \in {index, stable} \ {Missing, Corrupt} : Resumable(log', s)
    BY <1>3 DEF IInv
  <1>9. QED
    BY <1>1, <1>3, <1>7, <1>8 DEF Views

LEMMA InterruptedStep ==
    ASSUME IInv, Interrupted
    PROVE  /\ HashesAreOld'
           /\ \A s : Resumable(log, s) => Resumable(log', s)
  <1>0. TypeOK /\ HashesAreOld
    BY DEF IInv
  <1>1. InFlight \subseteq Envelopes /\ \A e \in InFlight : e.hash = digests + 1
    BY <1>0, EnvelopeType, EnvelopeFields DEF InFlight, TypeOK
  <1>2. CASE UNCHANGED << log, torn, digests >>
    BY <1>2, <1>0 DEF HashesAreOld
  <1>3. ASSUME NEW e \in InFlight, digests' = e.hash,
               log' = Append(log, e) \/ log' = log
        PROVE  /\ HashesAreOld'
               /\ \A s : Resumable(log, s) => Resumable(log', s)
    BY <1>0, <1>1, <1>3, ArchiveStep
  <1>4. QED
    BY <1>2, <1>3 DEF Interrupted

\* The archive is left alone, and memory and index only pass states around.
LEMMA ViewsKept ==
    ASSUME IInv, log' = log, digests' = digests,
           Views' \subseteq Views \cup {Fresh}
    PROVE  /\ HashesAreOld'
           /\ \A s \in Views' : Resumable(log', s)
  <1>1. HashesAreOld'
    BY DEF IInv, HashesAreOld
  <1>2. \A s \in Views : Resumable(log, s)
    BY DEF IInv, Views
  <1>3. QED
    BY <1>1, <1>2, FreshResumable

LEMMA ObservationStep ==
    ASSUME IInv, AppendObservation
    PROVE  /\ HashesAreOld'
           /\ \A s \in Views' : Resumable(log', s)
  <1>0. TypeOK /\ HashesAreOld /\ Observation \in Envelopes
    BY EnvelopeType DEF IInv
  <1>1. CASE AppendFails(Observation)
    BY <1>0, <1>1, AppendFailsStep, EnvelopeFields
  <1>2. CASE /\ Line(Observation)
             /\ state' = [state EXCEPT !.sequence = Observation.sequence,
                                       !.lastHash = Observation.hash]
    <2>1. /\ log' = Append(log, Observation) /\ digests' = digests + 1
          /\ index' = index /\ stable' = stable
      BY <1>2, EnvelopeFields DEF Line
    <2>2. /\ HashesAreOld'
          /\ \A s : Resumable(log, s) => Resumable(log', s)
      BY <1>0, <2>1, ArchiveStep, EnvelopeFields
    <2>3. /\ state'.lastHash = Observation.hash
          /\ state'.sequence = Observation.sequence
          /\ state'.jobs = state.jobs
      BY <1>0, <1>2 DEF TypeOK, States
    <2>4. HeadIn(log', state')
      BY <1>0, <2>1, <2>3, HeadIsLast DEF TypeOK
    <2>5. Resumable(log', state)
      BY <1>0, <2>2, StateIsView DEF IInv, Views
    <2>6. JobsIn(log', state')
      BY <2>3, <2>5 DEF Resumable, JobsIn
    <2>7. \A s \in {index, stable} \ {Missing, Corrupt} : Resumable(log', s)
      BY <2>2 DEF IInv
    <2>8. QED
      BY <2>1, <2>2, <2>4, <2>6, <2>7 DEF Views, Resumable
  <1>3. QED
    BY <1>1, <1>2 DEF AppendObservation

LEMMA JobStep ==
    ASSUME IInv, NEW k \in Keys, AppendJob(k)
    PROVE  /\ HashesAreOld'
           /\ \A s \in Views' : Resumable(log', s)
  <1>0. TypeOK /\ HashesAreOld /\ JobEvent(k) \in Envelopes
    BY EnvelopeType DEF IInv
  <1>1. CASE AppendFails(JobEvent(k))
    BY <1>0, <1>1, AppendFailsStep, EnvelopeFields
  <1>2. CASE /\ Line(JobEvent(k))
             /\ state' = [sequence |-> JobEvent(k).sequence,
                          lastHash |-> JobEvent(k).hash,
                          jobs |-> [state.jobs EXCEPT ![k] = snap[k]]]
    <2>1. /\ log' = Append(log, JobEvent(k)) /\ digests' = digests + 1
          /\ index' = index /\ stable' = stable
      BY <1>2, EnvelopeFields DEF Line
    <2>2. /\ HashesAreOld'
          /\ \A s : Resumable(log, s) => Resumable(log', s)
      BY <1>0, <2>1, ArchiveStep, EnvelopeFields
    <2>3. HeadIn(log', state')
      BY <1>0, <1>2, <2>1, HeadIsLast DEF TypeOK
    <2>4. Resumable(log', state)
      BY <1>0, <2>2, StateIsView DEF IInv, Views
    <2>5. JobEvent(k).legible
      BY EnvelopeFields DEF AppendJob, IInv, LoopKeepsUp
    <2>6. EventIn(log', k, snap[k])
      BY <1>0, <2>1, <2>5, EventIsLast, EnvelopeFields DEF TypeOK
    <2>7. \A j \in Keys : state'.jobs[j] = IF j = k THEN snap[k]
                                                    ELSE state.jobs[j]
      BY <1>0, <1>2 DEF TypeOK, States, JobMap
    <2>8. JobsIn(log', state')
      BY <2>4, <2>6, <2>7 DEF Resumable, JobsIn
    <2>9. \A s \in {index, stable} \ {Missing, Corrupt} : Resumable(log', s)
      BY <2>2 DEF IInv
    <2>10. QED
      BY <2>1, <2>2, <2>3, <2>8, <2>9 DEF Views, Resumable
  <1>3. QED
    BY <1>1, <1>2 DEF AppendJob, Recorded

\* The archive and the views, whatever the step.
LEMMA ViewsStep ==
    ASSUME IInv, [Next]_vars
    PROVE  /\ HashesAreOld'
           /\ \A s \in Views' : Resumable(log', s)
  <1>0. TypeOK
    BY DEF IInv
  <1>1. CASE Open
    <2>1. Views' \subseteq Views \cup {Fresh} /\ log' = log /\ digests' = digests
      BY <1>1 DEF Open, Resumed, Views, disk
    <2>2. QED
      BY <2>1, ViewsKept
  <1>2. CASE OpenFails
    BY <1>2, ViewsKept DEF OpenFails, Views, vars
  <1>3. ASSUME NEW jobs \in JobMap, BeginSnapshot(jobs)
        PROVE  HashesAreOld' /\ \A s \in Views' : Resumable(log', s)
    BY <1>3, ViewsKept DEF BeginSnapshot, Views, memory
  <1>4. CASE AppendObservation
    BY <1>4, ObservationStep
  <1>5. ASSUME NEW k \in Keys, SkipJob(k)
        PROVE  HashesAreOld' /\ \A s \in Views' : Resumable(log', s)
    BY <1>5, ViewsKept DEF SkipJob, Views, memory, disk
  <1>6. ASSUME NEW k \in Keys, AppendJob(k)
        PROVE  HashesAreOld' /\ \A s \in Views' : Resumable(log', s)
    BY <1>6, JobStep
  <1>7. CASE SaveState
    <2>1. Views' \subseteq Views \cup {Fresh} /\ log' = log /\ digests' = digests
      BY <1>0, <1>7, StateIsView DEF SaveState, SaveFails, Views
    <2>2. QED
      BY <2>1, ViewsKept
  <1>8. CASE Stop
    <2>1. Views' \subseteq Views \cup {Fresh} /\ log' = log /\ digests' = digests
      BY <1>8 DEF Stop, LoseProcess, Views, disk
    <2>2. QED
      BY <2>1, ViewsKept
  <1>9. CASE Interrupted /\ Views' \subseteq Views \cup {Fresh}
    <2>1. \A s \in Views : Resumable(log, s)
      BY DEF IInv, Views
    <2>2. QED
      BY <1>9, <2>1, InterruptedStep, FreshResumable
  <1>10. CASE Kill
    <2>1. Interrupted /\ Views' \subseteq Views \cup {Fresh}
      BY <1>10 DEF Kill, LoseProcess, Views
    <2>2. QED
      BY <1>9, <2>1
  <1>11. CASE PowerLoss
    <2>1. index' \in {stable, index, Corrupt} /\ stable' = index'
      BY <1>11 DEF PowerLoss
    <2>2. Interrupted /\ state' = Fresh
      BY <1>11 DEF PowerLoss, LoseProcess
    <2>3. Views' \subseteq Views \cup {Fresh}
      BY <2>1, <2>2 DEF Views
    <2>4. QED
      BY <1>9, <2>2, <2>3
  <1>12. CASE Writeback
    <2>1. Views' \subseteq Views \cup {Fresh} /\ log' = log /\ digests' = digests
      BY <1>12 DEF Writeback, Views, memory
    <2>2. QED
      BY <2>1, ViewsKept
  <1>13. CASE UNCHANGED vars
    BY <1>13, ViewsKept DEF Views, vars
  <1>14. QED
    BY <1>1, <1>2, <1>3, <1>4, <1>5, <1>6, <1>7, <1>8, <1>10, <1>11, <1>12,
       <1>13 DEF Next

LEMMA ProcessStep == ASSUME IInv, [Next]_vars PROVE CallsNeedProcess'
  <1> USE DEF IInv, CallsNeedProcess, Return, LoseProcess
  <1>1. CASE Open
    BY <1>1 DEF Open
  <1>2. CASE OpenFails
    BY <1>2 DEF OpenFails, vars
  <1>3. ASSUME NEW jobs \in JobMap, BeginSnapshot(jobs) PROVE CallsNeedProcess'
    BY <1>3 DEF BeginSnapshot
  <1>4. CASE AppendObservation
    BY <1>4 DEF AppendObservation
  <1>5. ASSUME NEW k \in Keys, SkipJob(k) PROVE CallsNeedProcess'
    BY <1>5 DEF SkipJob
  <1>6. ASSUME NEW k \in Keys, AppendJob(k) PROVE CallsNeedProcess'
    BY <1>6 DEF AppendJob
  <1>7. CASE SaveState
    BY <1>7 DEF SaveState, SaveFails
  <1>8. CASE Stop
    BY <1>8 DEF Stop
  <1>9. CASE Kill
    BY <1>9 DEF Kill
  <1>10. CASE PowerLoss
    BY <1>10 DEF PowerLoss
  <1>11. CASE Writeback
    BY <1>11 DEF Writeback, call
  <1>12. CASE UNCHANGED vars
    BY <1>12 DEF vars
  <1>13. QED
    BY <1>1, <1>2, <1>3, <1>4, <1>5, <1>6, <1>7, <1>8, <1>9, <1>10, <1>11,
       <1>12 DEF Next

LEMMA LoopStep == ASSUME IInv, [Next]_vars PROVE LoopKeepsUp'
  <1>0. /\ TypeOK /\ LoopKeepsUp /\ CallsNeedProcess
        /\ state \in States /\ snap \in JobMap /\ todo \subseteq Keys
    BY DEF IInv, TypeOK
  <1> SUFFICES ASSUME pc' = "jobs" PROVE LoopKeepsUp'
    BY DEF LoopKeepsUp
  <1>1. CASE Open
    BY <1>0, <1>1 DEF Open, CallsNeedProcess
  <1>2. CASE OpenFails
    BY <1>0, <1>2 DEF OpenFails, vars, LoopKeepsUp
  <1>3. ASSUME NEW jobs \in JobMap, BeginSnapshot(jobs) PROVE LoopKeepsUp'
    BY <1>3 DEF BeginSnapshot
  <1>4. CASE AppendObservation
    <2>1. /\ Line(Observation) /\ UNCHANGED << todo, snap >>
      BY <1>4 DEF AppendObservation, Return
    <2>2. ~torn'
      BY <2>1 DEF Line
    <2>3. \A k \in Keys \ todo : snap[k] = NoFp
      BY <1>4 DEF AppendObservation, IInv, LoopStartsFull
    <2>4. QED
      BY <2>1, <2>2, <2>3 DEF LoopKeepsUp
  <1>5. ASSUME NEW k \in Keys, SkipJob(k) PROVE LoopKeepsUp'
    <2>1. \A j \in Keys \ todo' : snap[j] # NoFp => state.jobs[j] = snap[j]
      BY <1>0, <1>5 DEF SkipJob, Unchanged, LoopKeepsUp
    <2>2. ~torn
      BY <1>0, <1>5 DEF SkipJob, LoopKeepsUp
    <2>3. QED
      BY <1>5, <2>1, <2>2 DEF SkipJob, memory, disk, LoopKeepsUp
  <1>6. ASSUME NEW k \in Keys, AppendJob(k) PROVE LoopKeepsUp'
    <2>1. /\ Line(JobEvent(k)) /\ snap' = snap /\ todo' = todo \ {k}
          /\ state' = [sequence |-> JobEvent(k).sequence,
                       lastHash |-> JobEvent(k).hash,
                       jobs |-> [state.jobs EXCEPT ![k] = snap[k]]]
      BY <1>6 DEF AppendJob, Recorded, Return
    <2>2. \A j \in Keys : state'.jobs[j] = IF j = k THEN snap[k]
                                                  ELSE state.jobs[j]
      BY <1>0, <2>1 DEF States, JobMap
    <2>3. \A j \in Keys \ todo' : snap[j] # NoFp => state'.jobs[j] = snap[j]
      BY <1>0, <1>6, <2>1, <2>2 DEF LoopKeepsUp, AppendJob
    <2>4. ~torn'
      BY <2>1 DEF Line
    <2>5. QED
      BY <2>1, <2>3, <2>4 DEF LoopKeepsUp
  <1>7. CASE SaveState
    BY <1>7 DEF SaveState, SaveFails, Return
  <1>8. CASE Stop \/ Kill \/ PowerLoss
    BY <1>8 DEF Stop, Kill, PowerLoss, LoseProcess
  <1>9. CASE Writeback
    BY <1>0, <1>9 DEF Writeback, memory, call, LoopKeepsUp
  <1>10. CASE UNCHANGED vars
    BY <1>0, <1>10 DEF vars, LoopKeepsUp
  <1>11. QED
    BY <1>1, <1>2, <1>3, <1>4, <1>5, <1>6, <1>7, <1>8, <1>9, <1>10 DEF Next

LEMMA StartStep == ASSUME IInv, [Next]_vars PROVE LoopStartsFull'
  <1>0. LoopStartsFull
    BY DEF IInv
  <1> SUFFICES ASSUME pc' = "observation" PROVE LoopStartsFull'
    BY DEF LoopStartsFull
  <1>1. CASE Open
    BY <1>0, <1>1 DEF Open, LoopStartsFull
  <1>2. CASE OpenFails
    BY <1>0, <1>2 DEF OpenFails, vars, LoopStartsFull
  <1>3. ASSUME NEW jobs \in JobMap, BeginSnapshot(jobs) PROVE LoopStartsFull'
    BY <1>3 DEF BeginSnapshot, LoopStartsFull
  <1>4. CASE AppendObservation
    BY <1>4 DEF AppendObservation, Return
  <1>5. ASSUME NEW k \in Keys, SkipJob(k) PROVE LoopStartsFull'
    BY <1>5 DEF SkipJob
  <1>6. ASSUME NEW k \in Keys, AppendJob(k) PROVE LoopStartsFull'
    BY <1>6 DEF AppendJob, Return
  <1>7. CASE SaveState
    BY <1>7 DEF SaveState, SaveFails, Return
  <1>8. CASE Stop \/ Kill \/ PowerLoss
    BY <1>8 DEF Stop, Kill, PowerLoss, LoseProcess
  <1>9. CASE Writeback
    BY <1>0, <1>9 DEF Writeback, call, LoopStartsFull
  <1>10. CASE UNCHANGED vars
    BY <1>0, <1>10 DEF vars, LoopStartsFull
  <1>11. QED
    BY <1>1, <1>2, <1>3, <1>4, <1>5, <1>6, <1>7, <1>8, <1>9, <1>10 DEF Next

LEMMA AcknowledgedStep == ASSUME IInv, [Next]_vars PROVE AcknowledgedStateSaved'
  <1>0. /\ TypeOK /\ LoopKeepsUp /\ CallsNeedProcess /\ AcknowledgedStateSaved
    BY DEF IInv
  <1> SUFFICES ASSUME result' = "ok" PROVE AcknowledgedStateSaved'
    BY DEF AcknowledgedStateSaved
  <1>1. CASE Open
    BY <1>1 DEF Open
  <1>2. CASE OpenFails
    BY <1>0, <1>2 DEF OpenFails, vars, AcknowledgedStateSaved
  <1>3. ASSUME NEW jobs \in JobMap, BeginSnapshot(jobs)
        PROVE  AcknowledgedStateSaved'
    BY <1>3 DEF BeginSnapshot
  <1>4. CASE AppendObservation
    BY <1>0, <1>4 DEF AppendObservation, Return, CallsNeedProcess
  <1>5. ASSUME NEW k \in Keys, SkipJob(k) PROVE AcknowledgedStateSaved'
    BY <1>0, <1>5 DEF SkipJob, CallsNeedProcess
  <1>6. ASSUME NEW k \in Keys, AppendJob(k) PROVE AcknowledgedStateSaved'
    BY <1>0, <1>6 DEF AppendJob, Return, CallsNeedProcess
  <1>7. CASE SaveState
    <2>1. /\ index' = state /\ UNCHANGED << state, snap >>
          /\ pc = "jobs" /\ todo = {}
      BY <1>7 DEF SaveState, SaveFails, Return
    <2>2. \A k \in Keys : snap[k] # NoFp => state.jobs[k] = snap[k]
      BY <1>0, <2>1 DEF LoopKeepsUp
    <2>3. QED
      BY <2>1, <2>2 DEF AcknowledgedStateSaved
  <1>8. CASE Stop \/ Kill \/ PowerLoss
    BY <1>8 DEF Stop, Kill, PowerLoss, LoseProcess
  <1>9. CASE Writeback
    BY <1>0, <1>9 DEF Writeback, memory, call, AcknowledgedStateSaved
  <1>10. CASE UNCHANGED vars
    BY <1>0, <1>10 DEF vars, AcknowledgedStateSaved
  <1>11. QED
    BY <1>1, <1>2, <1>3, <1>4, <1>5, <1>6, <1>7, <1>8, <1>9, <1>10 DEF Next

LEMMA HeadStep == ASSUME IInv, [Next]_vars PROVE HeadIsCurrent'
  <1>0. /\ TypeOK /\ HeadIsCurrent /\ CallsNeedProcess
        /\ Observation \in Envelopes
        /\ \A k \in Keys : JobEvent(k) \in Envelopes
    BY EnvelopeType DEF IInv
  <1> SUFFICES ASSUME pc' = "jobs" \/ result' = "ok" PROVE HeadIsCurrent'
    BY DEF HeadIsCurrent
  <1>1. ASSUME NEW e \in Envelopes, Line(e),
               state'.sequence = e.sequence, state'.lastHash = e.hash
        PROVE  HeadIsCurrent'
    <2>1. log \in Seq(Envelopes) /\ log' = Append(log, e)
      BY <1>0, <1>1 DEF Line, TypeOK
    <2>2. log' # << >> /\ log'[Len(log')] = e
      BY <2>1
    <2>3. QED
      BY <1>1, <2>2 DEF HeadIsCurrent
  <1>2. CASE AppendObservation
    <2>1. Line(Observation) /\ state' = [state EXCEPT
              !.sequence = Observation.sequence, !.lastHash = Observation.hash]
      BY <1>2 DEF AppendObservation, Return
    <2>2. /\ state'.sequence = Observation.sequence
          /\ state'.lastHash = Observation.hash
      BY <1>0, <2>1 DEF TypeOK, States
    <2>3. QED
      BY <1>0, <1>1, <2>1, <2>2
  <1>3. ASSUME NEW k \in Keys, AppendJob(k) PROVE HeadIsCurrent'
    <2>1. Line(JobEvent(k)) /\ state' = Recorded(k)
      BY <1>0, <1>3 DEF AppendJob, Return
    <2>2. /\ state'.sequence = JobEvent(k).sequence
          /\ state'.lastHash = JobEvent(k).hash
      BY <2>1 DEF Recorded
    <2>3. QED
      BY <1>0, <1>1, <2>1, <2>2
  <1>4. CASE SaveState
    BY <1>0, <1>4 DEF SaveState, SaveFails, Return, HeadIsCurrent
  <1>5. ASSUME NEW k \in Keys, SkipJob(k) PROVE HeadIsCurrent'
    BY <1>0, <1>5 DEF SkipJob, memory, disk, HeadIsCurrent
  <1>6. CASE Open \/ Stop \/ Kill \/ PowerLoss
             \/ \E jobs \in JobMap : BeginSnapshot(jobs)
    BY <1>0, <1>6 DEF Open, BeginSnapshot, Stop, Kill, PowerLoss, LoseProcess,
                      CallsNeedProcess
  <1>7. CASE Writeback
    BY <1>0, <1>7 DEF Writeback, memory, call, HeadIsCurrent
  <1>8. CASE UNCHANGED vars
    BY <1>0, <1>8 DEF vars, HeadIsCurrent
  <1>9. QED
    BY <1>2, <1>3, <1>4, <1>5, <1>6, <1>7, <1>8 DEF Next, OpenFails

LEMMA InvariantInit == Init => IInv
  <1>1. Init => TypeOK
    BY InitType
  <1>2. Init => Views \subseteq {Fresh}
    BY DEF Init, Views
  <1>3. Init => HashesAreOld
    BY DEF Init, HashesAreOld
  <1>4. Init => LoopStartsFull /\ LoopKeepsUp /\ AcknowledgedStateSaved
                /\ HeadIsCurrent /\ CallsNeedProcess
    BY DEF Init, LoopStartsFull, LoopKeepsUp, AcknowledgedStateSaved,
           HeadIsCurrent, CallsNeedProcess
  <1>5. QED
    BY <1>1, <1>2, <1>3, <1>4, FreshResumable DEF IInv, Views

LEMMA InvariantStep == IInv /\ [Next]_vars => IInv'
  <1> SUFFICES ASSUME IInv, [Next]_vars PROVE IInv'
    OBVIOUS
  <1>1. TypeOK'
    BY TypeStep DEF IInv
  <1>2. HashesAreOld' /\ \A s \in Views' : Resumable(log', s)
    BY ViewsStep
  <1>3. LoopStartsFull' /\ LoopKeepsUp' /\ AcknowledgedStateSaved'
        /\ HeadIsCurrent' /\ CallsNeedProcess'
    BY StartStep, LoopStep, AcknowledgedStep, HeadStep, ProcessStep
  <1>4. QED
    BY <1>1, <1>2, <1>3 DEF IInv, Views

\* IInv holds in every reachable state: whatever fails or stops, the memory,
\* state.json and its durable copy each resume a trail that is in the files.
THEOREM InvariantHolds == Spec => []IInv
  BY InvariantInit, InvariantStep, PTL DEF Spec

(***************************************************************************)
(* What the invariant gives.                                               *)
(***************************************************************************)

\* Deduplication never suppresses an event that is not in the archive: every
\* fingerprint that memory, state.json or its durable copy holds for a job
\* has a legible record, under every combination of faults.
THEOREM DedupIsSafe == Spec => []DedupNeverLosesAnEvent
  <1>1. IInv => DedupNeverLosesAnEvent
    BY DEF IInv, DedupNeverLosesAnEvent, Resumable
  <1>2. QED
    BY <1>1, InvariantHolds, PTL

\* A nil return of AppendSnapshot means that all jobs of the snapshot are in
\* the archive and that a restart resumes from exactly the state in memory.
THEOREM NilMeansDurable == Spec => []AcknowledgedSnapshotIsDurable
  <1>1. IInv => AcknowledgedSnapshotIsDurable
    <2> SUFFICES ASSUME IInv, result = "ok"
                 PROVE  /\ index = state
                        /\ \A k \in Keys : snap[k] # NoFp =>
                                EventIn(log, k, snap[k])
      BY DEF AcknowledgedSnapshotIsDurable
    <2>1. Resumable(log, state)
      BY StateIsView DEF IInv, Views
    <2>2. QED
      BY <2>1 DEF IInv, AcknowledgedStateSaved, Resumable, JobsIn
  <1>2. QED
    BY <1>1, InvariantHolds, PTL

\* After a call that returned nil Status names the archive's last record and
\* counts at least the jobs of the call's snapshot.
THEOREM StatusIsTrue == Spec => []AcknowledgedStatusIsTrue
  <1> DEFINE Recent == {k \in Keys : snap[k] # NoFp}
             Tracked == {k \in Keys : state.jobs[k] # NoFp}
  <1>1. ASSUME IInv, result = "ok"
        PROVE  Cardinality(Tracked) >= Cardinality(Recent)
    <2>1. Recent \subseteq Tracked
      BY <1>1 DEF IInv, AcknowledgedStateSaved
    <2>2. IsFiniteSet(Tracked) /\ IsFiniteSet(Recent)
      BY FS_Subset, StoreAssumption
    <2>3. Cardinality(Recent) <= Cardinality(Tracked)
      BY <2>1, <2>2, FS_Subset
    <2>4. Cardinality(Recent) \in Nat /\ Cardinality(Tracked) \in Nat
      BY <2>2, FS_CardinalityType
    <2>5. QED
      BY <2>3, <2>4
  <1>2. IInv => AcknowledgedStatusIsTrue
    BY <1>1 DEF IInv, HeadIsCurrent, AcknowledgedStatusIsTrue, Status
  <1>3. QED
    BY <1>2, InvariantHolds, PTL

(***************************************************************************)
(* Refinement of the audit trail.                                          *)
(***************************************************************************)

LEMMA LinksShape ==
    ASSUME NEW archive \in Seq(Envelopes)
    PROVE  LET links == [i \in DOMAIN archive |-> Link(archive[i])]
           IN  /\ DOMAIN links = DOMAIN archive
               /\ Len(links) = Len(archive)
  <1>1. DOMAIN archive = 1 .. Len(archive) /\ Len(archive) \in Nat
    OBVIOUS
  <1>2. QED
    BY <1>1

\* An envelope put at the end of the archive is a link of the trail.
LEMMA TrailGrows ==
    ASSUME TypeOK, HashesAreOld, Resumable(log, state),
           NEW e \in Envelopes, log' = Append(log, e),
           e.hash = digests + 1, e.sequence = state.sequence + 1,
           e.previous = state.lastHash
    PROVE  Trail!Extend
  <1>1. log \in Seq(Envelopes) /\ log' \in Seq(Envelopes) /\ digests \in Nat
        /\ Len(log) \in Nat /\ state \in States
    BY AppendKeeps DEF TypeOK
  <1>2. /\ DOMAIN Links = DOMAIN log /\ Len(Links) = Len(log)
        /\ DOMAIN Links' = DOMAIN log' /\ Len(Links') = Len(log')
    BY <1>1, LinksShape DEF Links
  <1>3. /\ \A i \in DOMAIN log : Links[i] = Link(log[i])
        /\ \A i \in DOMAIN log' : Links'[i] = Link(log'[i])
    BY DEF Links
  <1>4. Len(log') = Len(log) + 1 /\ Len(log') \in DOMAIN log'
        /\ log'[Len(log')] = e
    BY <1>1, AppendKeeps
  <1>5. \A i \in DOMAIN Links : Links'[i] = Links[i]
    BY <1>1, <1>2, <1>3, AppendKeeps
  <1>6. Links'[Len(Links')] = Link(e)
    BY <1>2, <1>3, <1>4
  <1>7. \A i \in DOMAIN Links : Links[i].hash # Link(e).hash
    BY <1>1, <1>2, <1>3 DEF HashesAreOld, Link
  <1>8. \A i \in DOMAIN log : log[i].sequence \in Nat
    BY <1>1, HashType
  <1>9. state.sequence \in Nat
    BY <1>1 DEF States
  <1>10. Trail!Rooted(Link(e), Links)
    BY <1>1, <1>2, <1>3, <1>8, <1>9
    DEF Trail!Rooted, Resumable, HeadIn, Link
  <1>11. Trail!Joins(Link(e), Links)
    BY <1>7, <1>10 DEF Trail!Joins
  <1>12. QED
    BY <1>2, <1>4, <1>5, <1>6, <1>11 DEF Trail!Extend

\* The envelope of a step that adds a record to the archive.
LEMMA LogStep ==
    ASSUME IInv, [Next]_vars
    PROVE  \/ log' = log
           \/ \E e \in Envelopes : /\ log' = Append(log, e)
                                   /\ e.hash = digests + 1
                                   /\ e.sequence = state.sequence + 1
                                   /\ e.previous = state.lastHash
  <1> DEFINE Adds == \E e \in Envelopes : /\ log' = Append(log, e)
                                         /\ e.hash = digests + 1
                                         /\ e.sequence = state.sequence + 1
                                         /\ e.previous = state.lastHash
  <1>0. /\ Observation \in Envelopes
        /\ \A k \in Keys : JobEvent(k) \in Envelopes
        /\ todo \subseteq Keys
    BY EnvelopeType DEF IInv, TypeOK
  <1>1. CASE AppendObservation
    <2>1. log' = log \/ log' = Append(log, Observation)
      BY <1>1 DEF AppendObservation, AppendFails, Line, Fragment, NoLine, disk
    <2>2. QED
      BY <1>0, <2>1, EnvelopeFields
  <1>2. ASSUME NEW k \in Keys, AppendJob(k) PROVE log' = log \/ Adds
    <2>1. log' = log \/ log' = Append(log, JobEvent(k))
      BY <1>2 DEF AppendJob, AppendFails, Line, Fragment, NoLine, disk
    <2>2. QED
      BY <1>0, <2>1, EnvelopeFields
  <1>3. CASE Interrupted
    <2>1. log' = log \/ \E e \in InFlight : log' = Append(log, e)
      BY <1>3 DEF Interrupted
    <2>2. \A e \in InFlight : /\ e \in Envelopes
                             /\ e.hash = digests + 1
                             /\ e.sequence = state.sequence + 1
                             /\ e.previous = state.lastHash
      BY <1>0, EnvelopeFields DEF InFlight
    <2>3. QED
      BY <2>1, <2>2
  <1>4. CASE Kill \/ PowerLoss
    BY <1>3, <1>4 DEF Kill, PowerLoss
  <1>5. CASE \/ Open \/ OpenFails \/ SaveState \/ Stop \/ Writeback
             \/ UNCHANGED vars
             \/ \E jobs \in JobMap : BeginSnapshot(jobs)
             \/ \E k \in Keys : SkipJob(k)
    BY <1>5 DEF Open, OpenFails, SaveState, Stop, Writeback, BeginSnapshot,
                SkipJob, disk, vars
  <1>6. QED
    BY <1>1, <1>2, <1>4, <1>5 DEF Next

\* HistoryStore implements AuditTrail, whatever fails: the archive is never
\* rewritten, and every record in it names a parent already there.
THEOREM TrailImplemented == Spec => ImplementsAuditTrail
  <1>1. Init => Trail!Init
    BY DEF Init, Links, Trail!Init
  <1>2. ASSUME IInv, [Next]_vars PROVE [Trail!Extend]_Links
    <2>1. CASE log' = log
      BY <2>1 DEF Links
    <2>2. ASSUME NEW e \in Envelopes, log' = Append(log, e),
                 e.hash = digests + 1, e.sequence = state.sequence + 1,
                 e.previous = state.lastHash
          PROVE  Trail!Extend
      BY <1>2, <2>2, StateIsView, TrailGrows DEF IInv, Views
    <2>3. QED
      BY <1>2, <2>1, <2>2, LogStep
  <1>3. QED
    BY <1>1, <1>2, InvariantHolds, PTL
    DEF ImplementsAuditTrail, Trail!Spec, Spec
=============================================================================
