--------------------------- MODULE ExporterProofs ---------------------------
(***************************************************************************)
(* What clients are told of the archive, for any number of clients and any *)
(* set of faults.  The steps the process takes on the archive are steps of *)
(* HistoryStore, so its invariant holds here, and with it what Status can  *)
(* report.                                                                 *)
(***************************************************************************)
EXTENDS Exporter, TLAPS

\* The archive again, with what is proved of it.
Proved == INSTANCE HistoryStoreChainProofs

LEMMA ProvedAssumptions == Proved!StoreAssumption /\ Proved!IndexAssumption
  <1>1. Proved!StoreAssumption
    BY ArchiveAssumption, ExporterAssumption
    DEF Proved!StoreAssumption, Proved!FaultKinds, Archive!FaultKinds,
        IsFiniteSet, Proved!IsFiniteSet
  <1>2. Proved!IndexAssumption
    BY ArchiveAssumption
    DEF Proved!IndexAssumption, Proved!States, Archive!States,
        Proved!JobMap, Archive!JobMap
  <1>3. QED
    BY <1>1, <1>2

(***************************************************************************)
(* Archive and Proved are instances with the same variables: an action of  *)
(* the one is the action of the other.                                     *)
(***************************************************************************)

LEMMA SameAppend ==
    ASSUME NEW e
    PROVE  /\ Archive!Line(e) <=> Proved!Line(e)
           /\ Archive!AppendFails(e) <=> Proved!AppendFails(e)
  BY DEF Archive!Line, Proved!Line, Archive!AppendFails, Proved!AppendFails,
         Archive!FailedAt, Proved!FailedAt, Archive!NoLine, Proved!NoLine,
         Archive!Fragment, Proved!Fragment, Archive!disk, Proved!disk

LEMMA SameEnvelopes ==
    /\ Archive!Observation = Proved!Observation
    /\ \A k : Archive!JobEvent(k) = Proved!JobEvent(k)
    /\ \A k : Archive!IsNext(k) <=> Proved!IsNext(k)
    /\ \A k : Archive!Unchanged(k) <=> Proved!Unchanged(k)
  BY DEF Archive!Observation, Proved!Observation, Archive!JobEvent,
         Proved!JobEvent, Archive!Envelope, Proved!Envelope,
         Archive!NoKey, Proved!NoKey, Archive!IsNext, Proved!IsNext,
         Archive!Unchanged, Proved!Unchanged

LEMMA SameAppends ==
    /\ Archive!AppendObservation => Proved!AppendObservation
    /\ \A k : Archive!AppendJob(k) => Proved!AppendJob(k)
  BY SameAppend, SameEnvelopes
  DEF Archive!AppendObservation, Proved!AppendObservation,
      Archive!AppendJob, Proved!AppendJob, Archive!Return, Proved!Return,
      Archive!Recorded, Proved!Recorded

LEMMA SameCalls ==
    /\ Archive!Open => Proved!Open
    /\ \A jobs : Archive!BeginSnapshot(jobs) => Proved!BeginSnapshot(jobs)
    /\ \A k : Archive!SkipJob(k) => Proved!SkipJob(k)
    /\ Archive!SaveState => Proved!SaveState
  BY SameEnvelopes
  DEF Archive!Open, Proved!Open, Archive!BeginSnapshot, Proved!BeginSnapshot,
      Archive!SkipJob, Proved!SkipJob, Archive!SaveState, Proved!SaveState,
      Archive!SaveFails, Proved!SaveFails, Archive!Return, Proved!Return,
      Archive!Resumed, Proved!Resumed, Archive!Fresh, Proved!Fresh,
      Archive!NoJobs, Proved!NoJobs, Archive!Genesis, Proved!Genesis,
      Archive!memory, Proved!memory, Archive!disk, Proved!disk

LEMMA SameKill == Archive!Kill => Proved!Kill
  <1>1. Archive!InFlight = Proved!InFlight
    BY SameEnvelopes DEF Archive!InFlight, Proved!InFlight
  <1>2. Archive!Interrupted => Proved!Interrupted
    BY <1>1 DEF Archive!Interrupted, Proved!Interrupted
  <1>3. QED
    BY <1>2
    DEF Archive!Kill, Proved!Kill, Archive!LoseProcess, Proved!LoseProcess,
        Archive!Fresh, Proved!Fresh, Archive!NoJobs, Proved!NoJobs,
        Archive!Genesis, Proved!Genesis

LEMMA SameTypes ==
    /\ Archive!TypeOK <=> Proved!TypeOK
    /\ Archive!Init => Proved!Init
    /\ Archive!JobMap = Proved!JobMap
  BY DEF Archive!TypeOK, Proved!TypeOK, Archive!States, Proved!States,
         Archive!JobMap, Proved!JobMap, Archive!Envelopes, Proved!Envelopes,
         Archive!Kinds, Proved!Kinds, Archive!NoKey, Proved!NoKey,
         Archive!Init, Proved!Init, Archive!Fresh, Proved!Fresh,
         Archive!NoJobs, Proved!NoJobs, Archive!Genesis, Proved!Genesis

(***************************************************************************)
(* Types, and the archive's invariant.                                     *)
(***************************************************************************)

\* The part of TypeOK about callers and cache.
PlacesOK ==
    /\ current \in 0 .. Serials
    /\ age \in 0 .. TTL
    /\ given \in [Callers -> 0 .. Serials]
    /\ at \in [Callers -> {"idle", "get", "status", "append", "writing",
                           "answer"}]
    /\ ticker \in {"none", "waiting", "fired"}
    /\ acked \in 0 .. Serials
    /\ pc # "idle" <=> at[Archiver] = "writing"
    /\ \A c \in refreshing : at[c] = "get" /\ refreshing = {c}

\* What the goroutine appends is a snapshot it was given.
Fetched == at[Archiver] = "append" => given[Archiver] # 0

LEMMA Clientele ==
    /\ Archiver \in Callers /\ Clients \subseteq Callers
    /\ \A c \in Clients : c # Archiver
    /\ Scrapes \subseteq Clients /\ Readers \subseteq Clients
    /\ Watchers \subseteq Clients
  BY ExporterAssumption DEF Callers, Clients

\* Every step of the process is one of the archive or leaves it alone.
LEMMA ArchiveMoves ==
    ASSUME PlacesOK, Fetched, [Next]_vars
    PROVE  [Proved!Next]_(Proved!vars)
  <1>1. CASE UNCHANGED archiveVars
    BY <1>1 DEF archiveVars, Proved!vars
  <1>2. CASE Start
    BY <1>2, SameCalls DEF Start, Proved!Next
  <1>3. CASE BeginAppend
    <2>1. given[Archiver] \in 1 .. Serials
      BY <1>3, Clientele, ExporterAssumption DEF BeginAppend, Fetched, PlacesOK
    <2>2. Contents[given[Archiver]] \in Proved!JobMap
      BY <2>1, ExporterAssumption, SameTypes
    <2>3. QED
      BY <1>3, <2>2, SameCalls DEF BeginAppend, Proved!Next
  <1>4. CASE DiskStep
    BY <1>4, SameCalls, SameAppends DEF DiskStep, DiskCall, Proved!Next
  <1>5. CASE Crash
    BY <1>5, SameKill DEF Crash, Proved!Next
  <1>6. CASE TickerFires \/ WakeArchiver \/ Age \/ UNCHANGED vars
    BY <1>1, <1>6 DEF TickerFires, WakeArchiver, Age, vars
  <1>7. ASSUME NEW c, Arrive(c) \/ ReadStatus(c) \/ Finish(c) \/ Hit(c)
                      \/ Miss(c) \/ Collected(c)
        PROVE  UNCHANGED archiveVars
    BY <1>7 DEF Arrive, ReadStatus, Finish, Hit, Miss, Collected
  <1>8. QED
    BY <1>1, <1>2, <1>3, <1>4, <1>5, <1>6, <1>7 DEF Next

LEMMA CacheNumbers ==
    \A n \in 0 .. Serials : Cache!Following(n) \in 1 .. Serials
  <1>1. Serials \in Nat \ {0}
    BY ExporterAssumption
  <1>2. \A n \in 0 .. Serials : n % Serials \in 0 .. Serials - 1
    BY <1>1
  <1>3. QED
    BY <1>1, <1>2 DEF Cache!Following

LEMMA PlacesStep ==
    ASSUME PlacesOK, Fetched, Proved!IInv, [Next]_vars
    PROVE  PlacesOK' /\ Fetched'
  <1>0. /\ PlacesOK /\ Fetched /\ (pc # "idle" => up)
        /\ Serials \in Nat \ {0} /\ TTL \in Nat
    BY ExporterAssumption DEF PlacesOK, Proved!IInv, Proved!CallsNeedProcess
  <1> USE Clientele DEF PlacesOK, Fetched, Goto
  <1>1. CASE Start
    BY <1>0, <1>1 DEF Start, Archive!Open, cacheVars
  <1>2. CASE TickerFires
    BY <1>0, <1>2 DEF TickerFires, cacheVars, archiveVars
  <1>3. CASE WakeArchiver
    BY <1>0, <1>3 DEF WakeArchiver, cacheVars, archiveVars
  <1>4. CASE BeginAppend
    <2>1. acked' \in 0 .. Serials
      BY <1>0, <1>4 DEF BeginAppend
    <2>2. QED
      BY <1>0, <1>4, <2>1 DEF BeginAppend, Archive!BeginSnapshot, cacheVars
  <1>5. CASE DiskStep
    <2>1. pc # "idle"
      BY <1>5 DEF DiskStep, DiskCall, Archive!AppendObservation,
                  Archive!AppendJob, Archive!SkipJob, Archive!SaveState
    <2>2. at[Archiver] = "writing" /\ Archiver \notin refreshing
      BY <1>0, <2>1
    <2>3. UNCHANGED << current, age, refreshing >>
      BY <1>5 DEF DiskStep
    <2>4. CASE pc' = "idle"
      <3>1. /\ at' = [at EXCEPT ![Archiver] = "idle"]
            /\ ticker' \in {ticker, "waiting"}
            /\ acked' \in {given[Archiver], acked}
            /\ given' = [given EXCEPT ![Archiver] = 0]
        BY <1>5, <2>4 DEF DiskStep, AfterWrite
      <3>2. given[Archiver] \in 0 .. Serials
        BY <1>0
      <3>3. /\ ticker' \in {"none", "waiting", "fired"}
            /\ acked' \in 0 .. Serials
        BY <1>0, <3>1, <3>2
      <3>4. at'[Archiver] = "idle" /\ \A c \in refreshing : at'[c] = at[c]
        BY <1>0, <2>2, <3>1
      <3>5. QED
        BY <1>0, <2>3, <2>4, <3>1, <3>3, <3>4
    <2>5. CASE pc' # "idle"
      <3>1. UNCHANGED << at, ticker, acked, given >>
        BY <1>5, <2>5 DEF DiskStep
      <3>2. QED
        BY <1>0, <2>1, <2>3, <2>5, <3>1
    <2>6. QED
      BY <2>4, <2>5
  <1>6. CASE Crash
    BY <1>0, <1>6 DEF Crash, Archive!Kill, Archive!LoseProcess, Idle
  <1>7. ASSUME NEW c \in Clients, Arrive(c) PROVE PlacesOK' /\ Fetched'
    BY <1>0, <1>7 DEF Arrive, archiveVars, cacheVars
  <1>8. ASSUME NEW c \in Clients, ReadStatus(c) PROVE PlacesOK' /\ Fetched'
    BY <1>0, <1>8 DEF ReadStatus, Cache!Release, archiveVars
  <1>9. ASSUME NEW c \in Clients, Finish(c) PROVE PlacesOK' /\ Fetched'
    BY <1>0, <1>9 DEF Finish, Cache!Release, archiveVars
  <1>10. ASSUME NEW c \in Callers
         PROVE  /\ AfterGet(c) \in {"append", "status", "answer"}
                /\ AfterGet(c) = "append" <=> c = Archiver
    BY DEF AfterGet, Callers
  <1>11. ASSUME NEW c \in Callers, Hit(c) PROVE PlacesOK' /\ Fetched'
    BY <1>0, <1>10, <1>11 DEF Hit, Cache!HandOver, archiveVars
  <1>12. ASSUME NEW c \in Callers, Miss(c) PROVE PlacesOK' /\ Fetched'
    BY <1>0, <1>12 DEF Miss, Cache!BeginRefresh, archiveVars
  <1>13. ASSUME NEW c \in Callers, Collected(c) PROVE PlacesOK' /\ Fetched'
    <2>1. current' \in 1 .. Serials
      BY <1>0, <1>13, CacheNumbers DEF Collected, Cache!EndRefresh
    <2>2. QED
      BY <1>0, <1>10, <1>13, <2>1 DEF Collected, Cache!EndRefresh, archiveVars
  <1>14. CASE Age
    BY <1>0, <1>14 DEF Age, Cache!Age, archiveVars
  <1>15. CASE UNCHANGED vars
    BY <1>0, <1>15 DEF vars, archiveVars, cacheVars
  <1>16. QED
    BY <1>1, <1>2, <1>3, <1>4, <1>5, <1>6, <1>7, <1>8, <1>9, <1>11, <1>12,
       <1>13, <1>14, <1>15 DEF Next

(***************************************************************************)
(* What clients were told.                                                 *)
(***************************************************************************)

\* A head that was reported is not the one a snapshot's events build on: since
\* it was read an observation has been added.
ToldIsPast == pc = "jobs" => told # state.lastHash

ExporterInv ==
    /\ Proved!IInv
    /\ PlacesOK /\ told \in Nat
    /\ Fetched
    /\ ToldHeadIsArchived
    /\ ToldIsPast

\* The next digest is no head that was reported.
LEMMA NextDigestIsNew ==
    ASSUME Proved!IInv, ToldHeadIsArchived
    PROVE  told # digests + 1
  <1>1. digests \in Nat /\ \A i \in DOMAIN log : log[i].hash \in 1 .. digests
    BY DEF Proved!IInv, Proved!TypeOK, Proved!HashesAreOld
  <1>2. told = 0 \/ told \in 1 .. digests
    BY <1>1 DEF ToldHeadIsArchived, Archive!Genesis
  <1>3. QED
    BY <1>1, <1>2

LEMMA StateType == ASSUME Proved!IInv PROVE state \in Proved!States
  BY DEF Proved!IInv, Proved!TypeOK

LEMMA HeadIsArchived ==
    ASSUME Proved!IInv, state.lastHash # Archive!Genesis
    PROVE  \E i \in DOMAIN log : log[i].hash = state.lastHash
  <1>1. state # Missing /\ state # Corrupt
    BY StateType, ProvedAssumptions DEF Proved!IndexAssumption
  <1>2. Proved!Resumable(log, state)
    BY <1>1 DEF Proved!IInv
  <1>3. QED
    BY <1>2
    DEF Proved!Resumable, Proved!HeadIn, Proved!Genesis, Archive!Genesis

\* Records stay where they are.
LEMMA LogGrows ==
    ASSUME Proved!IInv, [Proved!Next]_(Proved!vars), NEW h,
           \E i \in DOMAIN log : log[i].hash = h
    PROVE  \E i \in DOMAIN log' : log'[i].hash = h
  <1>1. \/ log' = log
        \/ \E e \in Proved!Envelopes : log' = Append(log, e)
    BY ProvedAssumptions, Proved!LogStep
    DEF Proved!StoreAssumption, Proved!IndexAssumption
  <1>2. log \in Seq(Proved!Envelopes)
    BY DEF Proved!IInv, Proved!TypeOK
  <1>3. ASSUME NEW e \in Proved!Envelopes, log' = Append(log, e)
        PROVE  \A i \in DOMAIN log : i \in DOMAIN log' /\ log'[i] = log[i]
    BY <1>2, <1>3
  <1>4. QED
    BY <1>1, <1>3

LEMMA ToldStep ==
    ASSUME ExporterInv, [Next]_vars
    PROVE  ToldHeadIsArchived' /\ told' \in Nat
  <1>0. /\ Proved!IInv /\ told \in Nat /\ state.lastHash \in Nat
        /\ [Proved!Next]_(Proved!vars)
    BY ArchiveMoves, StateType DEF ExporterInv, Proved!States
  <1>1. ASSUME NEW c, ReadStatus(c)
        PROVE  ToldHeadIsArchived' /\ told' \in Nat
    <2>1. told' = state.lastHash /\ log' = log
      BY <1>1 DEF ReadStatus, Archive!Status, archiveVars
    <2>2. QED
      BY <1>0, <2>1, HeadIsArchived DEF ToldHeadIsArchived, Archive!Genesis
  <1>2. CASE told' = told
    BY <1>0, <1>2, LogGrows
    DEF ExporterInv, ToldHeadIsArchived, Archive!Genesis
  <1>3. CASE \/ Start \/ TickerFires \/ WakeArchiver \/ BeginAppend \/ DiskStep
             \/ Crash \/ Age \/ UNCHANGED vars
    BY <1>2, <1>3 DEF Start, TickerFires, WakeArchiver, BeginAppend, DiskStep,
                      Crash, Age, vars
  <1>4. ASSUME NEW c, \/ Arrive(c) \/ Finish(c)
                      \/ Hit(c) \/ Miss(c) \/ Collected(c)
        PROVE  told' = told
    BY <1>4 DEF Arrive, Finish, Hit, Miss, Collected
  <1>5. QED
    BY <1>1, <1>2, <1>3, <1>4 DEF Next

\* What a call of append that succeeds leaves in memory.
LEMMA AppendedHead ==
    ASSUME Proved!IInv, pc' = "jobs",
           \/ Archive!AppendObservation
           \/ \E k \in Keys : Archive!AppendJob(k)
    PROVE  state'.lastHash = digests + 1
  <1>1. state \in Proved!States
    BY StateType
  <1>2. CASE Archive!AppendObservation
    BY <1>1, <1>2
    DEF Archive!AppendObservation, Archive!Return, Archive!Observation,
        Archive!Envelope, Proved!States
  <1>3. ASSUME NEW k \in Keys, Archive!AppendJob(k)
        PROVE  state'.lastHash = digests + 1
    BY <1>1, <1>3
    DEF Archive!AppendJob, Archive!Return, Archive!Recorded, Archive!JobEvent,
        Archive!Envelope
  <1>4. QED
    BY <1>2, <1>3

LEMMA PastStep == ASSUME ExporterInv, [Next]_vars PROVE ToldIsPast'
  <1>0. /\ Proved!IInv /\ ToldIsPast /\ (pc # "idle" => up)
        /\ told # digests + 1
    BY NextDigestIsNew DEF ExporterInv, Proved!IInv, Proved!CallsNeedProcess
  <1> SUFFICES ASSUME pc' = "jobs" PROVE told' # state'.lastHash
    BY DEF ToldIsPast
  <1>1. CASE DiskStep
    <2>1. told' = told
      BY <1>1 DEF DiskStep
    <2>2. CASE \/ Archive!AppendObservation
               \/ \E k \in Keys : Archive!AppendJob(k)
      BY <1>0, <2>1, <2>2, AppendedHead
    <2>3. CASE \E k \in Keys : Archive!SkipJob(k)
      BY <1>0, <2>1, <2>3 DEF Archive!SkipJob, Archive!memory, ToldIsPast
    <2>4. CASE Archive!SaveState
      BY <2>4 DEF Archive!SaveState, Archive!SaveFails, Archive!Return
    <2>5. QED
      BY <1>1, <2>2, <2>3, <2>4 DEF DiskStep, DiskCall
  <1>2. CASE Start \/ BeginAppend \/ Crash
    BY <1>0, <1>2 DEF Start, Archive!Open, BeginAppend, Archive!BeginSnapshot,
                      Crash, Archive!Kill, Archive!LoseProcess
  <1>3. ASSUME NEW c, ReadStatus(c) PROVE FALSE
    BY <1>3 DEF ReadStatus, CanRead, archiveVars
  <1>4. CASE UNCHANGED archiveVars /\ told' = told
    BY <1>0, <1>4 DEF archiveVars, ToldIsPast
  <1>5. CASE TickerFires \/ WakeArchiver \/ Age \/ UNCHANGED vars
    BY <1>4, <1>5 DEF TickerFires, WakeArchiver, Age, vars
  <1>6. ASSUME NEW c, \/ Arrive(c) \/ Finish(c)
                      \/ Hit(c) \/ Miss(c) \/ Collected(c)
        PROVE  UNCHANGED archiveVars /\ told' = told
    BY <1>6 DEF Arrive, Finish, Hit, Miss, Collected
  <1>7. QED
    BY <1>1, <1>2, <1>3, <1>4, <1>5, <1>6 DEF Next

LEMMA ExporterInvariant == Spec => []ExporterInv
  <1>1. Init => ExporterInv
    <2> SUFFICES ASSUME Init PROVE ExporterInv
      OBVIOUS
    <2>1. Proved!IInv
      BY SameTypes, ProvedAssumptions, Proved!InvariantInit
      DEF Init, Proved!StoreAssumption, Proved!IndexAssumption
    <2>2. Archive!Genesis = 0 /\ pc = "idle"
      BY DEF Init, Archive!Init, Archive!Genesis
    <2>3. PlacesOK /\ Fetched
      BY <2>2, Clientele, ExporterAssumption
      DEF Init, Cache!Init, Idle, PlacesOK, Fetched
    <2>4. told \in Nat /\ ToldHeadIsArchived /\ ToldIsPast
      BY <2>2 DEF Init, ToldHeadIsArchived, ToldIsPast
    <2>5. QED
      BY <2>1, <2>3, <2>4 DEF ExporterInv
  <1>2. ExporterInv /\ [Next]_vars => ExporterInv'
    <2> SUFFICES ASSUME ExporterInv, [Next]_vars PROVE ExporterInv'
      OBVIOUS
    <2>1. Proved!IInv'
      BY ArchiveMoves, ProvedAssumptions, Proved!InvariantStep
      DEF ExporterInv, Proved!StoreAssumption, Proved!IndexAssumption
    <2>2. PlacesOK' /\ Fetched'
      BY PlacesStep DEF ExporterInv
    <2>3. QED
      BY <2>1, <2>2, ToldStep, PastStep DEF ExporterInv
  <1>3. QED
    BY <1>1, <1>2, PTL DEF Spec

(***************************************************************************)
(* The two components in the process.                                      *)
(***************************************************************************)

\* The process does to the archive what HistoryStore's behaviours do, so that
\* everything proved of the archive alone holds of the archive in the process.
THEOREM ArchiveInProcess == Spec => Proved!Spec
  <1>1. Init => Proved!Init
    BY SameTypes DEF Init
  <1>2. ExporterInv /\ [Next]_vars => [Proved!Next]_(Proved!vars)
    BY ArchiveMoves DEF ExporterInv
  <1>3. QED
    BY <1>1, <1>2, ExporterInvariant, PTL DEF Spec, Proved!Spec

\* Above all its promises: deduplication loses no event, a nil return means
\* that the snapshot is durable and that Status tells the truth, and the log
\* is an audit trail, whatever fails and whoever asks meanwhile.
THEOREM ArchiveKeepsItsPromises ==
    Spec => /\ []Proved!DedupNeverLosesAnEvent
            /\ []Proved!AcknowledgedSnapshotIsDurable
            /\ []Proved!AcknowledgedStatusIsTrue
            /\ Proved!ImplementsAuditTrail
  <1>1. /\ Proved!Spec => []Proved!DedupNeverLosesAnEvent
        /\ Proved!Spec => []Proved!AcknowledgedSnapshotIsDurable
        /\ Proved!Spec => []Proved!AcknowledgedStatusIsTrue
        /\ Proved!Spec => Proved!ImplementsAuditTrail
    BY ProvedAssumptions, Proved!DedupIsSafe, Proved!NilMeansDurable,
       Proved!StatusIsTrue, Proved!TrailImplemented
    DEF Proved!StoreAssumption, Proved!IndexAssumption
  <1>2. QED
    BY <1>1, ArchiveInProcess

\* While only orderly faults occur the log of the process is one unbranched
\* chain, and no event of a job is in it twice in a row: a snapshot that the
\* cache hands out again, or a client that asks at any moment, changes nothing.
THEOREM ArchiveIsOneChain ==
    ASSUME Faults \subseteq Proved!OrderlyFaults
    PROVE  Spec => []Proved!NoRepeatedEvent /\ Proved!ImplementsAuditChain
  <1>1. /\ Proved!Spec => []Proved!NoRepeatedEvent
        /\ Proved!Spec => Proved!ImplementsAuditChain
    BY ProvedAssumptions, Proved!NoEventTwice, Proved!ChainImplemented
    DEF Proved!StoreAssumption, Proved!IndexAssumption
  <1>2. QED
    BY <1>1, ArchiveInProcess

\* The process does to the cache what its abstract specification allows, from
\* each start on: the archive goroutine, its disk calls and the handlers take
\* SharedSnapshot's steps only, and a restart begins it anew.
THEOREM CacheInProcess ==
    Spec => /\ Cache!Init
            /\ [][[Cache!Next]_cacheVars \/ (Crash /\ Cache!Init')]_vars
  <1>1. Init => Cache!Init
    BY DEF Init
  <1>2. [Next]_vars =>
            [[Cache!Next]_cacheVars \/ (Crash /\ Cache!Init')]_vars
    <2> SUFFICES ASSUME [Next]_vars
                 PROVE  \/ Cache!Next \/ UNCHANGED cacheVars
                        \/ Crash /\ Cache!Init'
      OBVIOUS
    <2>1. CASE UNCHANGED cacheVars
      BY <2>1
    <2>2. ASSUME NEW c \in Callers, Hit(c) \/ Miss(c) \/ Collected(c)
          PROVE  Cache!Next
      BY <2>2 DEF Hit, Miss, Collected, Cache!Next
    <2>3. ASSUME NEW c \in Clients, Arrive(c) \/ ReadStatus(c) \/ Finish(c)
          PROVE  Cache!Next \/ UNCHANGED cacheVars
      BY <2>3, Clientele DEF Arrive, ReadStatus, Finish, Cache!Next
    <2>4. CASE DiskStep
      <3>1. CASE pc' = "idle"
        BY <2>4, <3>1, Clientele DEF DiskStep, Cache!Next, Cache!Release
      <3>2. CASE pc' # "idle"
        BY <2>4, <3>2 DEF DiskStep, cacheVars
      <3>3. QED
        BY <3>1, <3>2
    <2>5. CASE Crash
      BY <2>5 DEF Crash, Cache!Init
    <2>6. CASE Age
      BY <2>6 DEF Age, Cache!Next
    <2>7. CASE Start \/ TickerFires \/ WakeArchiver \/ BeginAppend
               \/ UNCHANGED vars
      BY <2>7 DEF Start, TickerFires, WakeArchiver, BeginAppend, vars, cacheVars
    <2>8. QED
      BY <2>1, <2>2, <2>3, <2>4, <2>5, <2>6, <2>7 DEF Next
  <1>3. QED
    BY <1>1, <1>2, PTL DEF Spec

\* Types of the composition, and that the archive's mutex is held exactly
\* while the archive goroutine is in write().
THEOREM TypeCorrect == Spec => []TypeOK
  <1>1. ExporterInv => TypeOK
    BY SameTypes DEF ExporterInv, Proved!IInv, PlacesOK, TypeOK
  <1>2. QED
    BY <1>1, ExporterInvariant, PTL

\* A chain head that Status has once reported stays in the archive, whatever
\* fails and whenever the process dies.
THEOREM ToldHeadsStay == Spec => []ToldHeadIsArchived
  <1>1. ExporterInv => ToldHeadIsArchived
    BY DEF ExporterInv
  <1>2. QED
    BY <1>1, ExporterInvariant, PTL

\* Status never reports a head from the middle of a call: only an observation is
\* ever written behind a head it reported.
THEOREM ToldHeadsEndSnapshots == Spec => ToldHeadEndsASnapshot
  <1> DEFINE Grows == Len(log') > Len(log) =>
                          \/ log'[Len(log')].kind = "observation"
                          \/ told # log'[Len(log')].previous
  <1>1. ASSUME ExporterInv, [Next]_vars PROVE Grows
    <2>0. /\ log \in Seq(Proved!Envelopes) /\ ToldIsPast
          /\ ~(Len(log) > Len(log))
      BY <1>1 DEF ExporterInv, Proved!IInv, Proved!TypeOK
    <2>1. ASSUME NEW e, log' = log \/ log' = Append(log, e),
                 \/ e = Archive!Observation
                 \/ pc = "jobs" /\ e.previous = state.lastHash
          PROVE  Grows
      <3>1. log' = Append(log, e) => log'[Len(log')] = e
        BY <2>0
      <3>2. Archive!Observation.kind = "observation"
        BY DEF Archive!Observation, Archive!Envelope
      <3>3. QED
        BY <2>0, <2>1, <3>1, <3>2 DEF ToldIsPast
    <2>2. \A k : Archive!JobEvent(k).previous = state.lastHash
      BY DEF Archive!JobEvent, Archive!Envelope
    <2>3. CASE log' = log
      BY <2>0, <2>3
    <2>4. CASE Archive!AppendObservation
      <3>1. log' = log \/ log' = Append(log, Archive!Observation)
        BY <2>4 DEF Archive!AppendObservation, Archive!AppendFails, Archive!Line,
                    Archive!Fragment, Archive!NoLine, Archive!disk
      <3>2. QED
        BY <2>1, <3>1
    <2>5. ASSUME NEW k \in Keys, Archive!AppendJob(k) PROVE Grows
      <3>1. /\ pc = "jobs"
            /\ log' = log \/ log' = Append(log, Archive!JobEvent(k))
        BY <2>5 DEF Archive!AppendJob, Archive!AppendFails, Archive!Line,
                    Archive!Fragment, Archive!NoLine, Archive!disk
      <3>2. QED
        BY <2>1, <2>2, <3>1
    <2>6. CASE Archive!Kill
      <3>1. log' = log \/ \E e \in Archive!InFlight : log' = Append(log, e)
        BY <2>6 DEF Archive!Kill, Archive!Interrupted
      <3>2. \A e \in Archive!InFlight :
                \/ e = Archive!Observation
                \/ pc = "jobs" /\ e.previous = state.lastHash
        BY <2>2 DEF Archive!InFlight
      <3>3. QED
        BY <2>1, <2>3, <3>1, <3>2
    <2>7. CASE DiskStep
      <3>1. CASE Archive!SaveState \/ \E k \in Keys : Archive!SkipJob(k)
        BY <2>3, <3>1 DEF Archive!SaveState, Archive!SkipJob, Archive!disk
      <3>2. QED
        BY <2>4, <2>5, <2>7, <3>1 DEF DiskStep, DiskCall
    <2>8. CASE Start \/ BeginAppend
      BY <2>3, <2>8 DEF Start, Archive!Open, Archive!disk, BeginAppend,
                        Archive!BeginSnapshot
    <2>9. CASE UNCHANGED archiveVars
      BY <2>3, <2>9 DEF archiveVars
    <2>10. CASE TickerFires \/ WakeArchiver \/ Age \/ UNCHANGED vars
      BY <2>9, <2>10 DEF TickerFires, WakeArchiver, Age, vars
    <2>11. ASSUME NEW c, \/ Arrive(c) \/ ReadStatus(c) \/ Finish(c)
                         \/ Hit(c) \/ Miss(c) \/ Collected(c)
           PROVE  UNCHANGED archiveVars
      BY <2>11 DEF Arrive, ReadStatus, Finish, Hit, Miss, Collected
    <2>12. CASE Crash
      BY <2>6, <2>12 DEF Crash
    <2>13. QED
      BY <1>1, <2>7, <2>8, <2>9, <2>10, <2>11, <2>12 DEF Next
  <1>2. QED
    BY <1>1, ExporterInvariant, PTL DEF Spec, ToldHeadEndsASnapshot

(***************************************************************************)
(* The snapshot that was archived last.                                    *)
(***************************************************************************)

\* Its jobs are in memory as it has them.
AckedIsKnown ==
    acked # 0 =>
        \A k \in Keys : Contents[acked][k] # NoFp =>
                            state.jobs[k] = Contents[acked][k]

\* A call under way writes the jobs of the snapshot that was fetched for it.
WritesFetched ==
    pc # "idle" => /\ given[Archiver] # 0 /\ snap = Contents[given[Archiver]]
                   /\ acked \in {0, given[Archiver]}
                   /\ \A k \in todo : snap[k] # NoFp

AckedInv == (~up => acked = 0) /\ AckedIsKnown /\ WritesFetched

\* The loop finds each of those jobs unchanged.
LEMMA AckedAddsNothing ==
    ASSUME AckedInv, NEW k \in Keys, Archive!AppendJob(k)
    PROVE  acked = 0 /\ given[Archiver] # acked
  <1>1. /\ pc # "idle" /\ k \in todo /\ state.jobs[k] # snap[k]
    BY DEF Archive!AppendJob, Archive!IsNext, Archive!Unchanged
  <1>2. QED
    BY <1>1 DEF AckedInv, AckedIsKnown, WritesFetched

\* What a call to the disk does to the jobs in memory.
LEMMA DiskEffects ==
    ASSUME Proved!IInv, DiskCall
    PROVE  /\ pc # "idle" /\ UNCHANGED << up, snap >> /\ todo' \subseteq todo
           /\ \/ state'.jobs = state.jobs
              \/ \E k \in Keys : Archive!AppendJob(k)
  <1>1. state \in Proved!States
    BY StateType
  <1>2. CASE Archive!AppendObservation
    <2> DEFINE e == Archive!Observation.sequence
               h == Archive!Observation.hash
    <2>1. \/ state' = [state EXCEPT !.sequence = e, !.lastHash = h]
          \/ state' = state
          \/ state' = [state EXCEPT !.sequence = e]
      BY <1>2 DEF Archive!AppendObservation, Archive!AppendFails, Archive!FailedAt
    <2> HIDE DEF e, h
    <2>2. state'.jobs = state.jobs
      BY <1>1, <2>1 DEF Proved!States
    <2>3. QED
      BY <1>2, <2>2 DEF Archive!AppendObservation, Archive!Return
  <1>3. ASSUME NEW k \in Keys, Archive!AppendJob(k)
        PROVE  pc # "idle" /\ UNCHANGED << up, snap >> /\ todo' \subseteq todo
    BY <1>3 DEF Archive!AppendJob, Archive!Return
  <1>4. CASE \E k \in Keys : Archive!SkipJob(k)
    BY <1>4 DEF Archive!SkipJob, Archive!memory
  <1>5. CASE Archive!SaveState
    BY <1>5 DEF Archive!SaveState, Archive!SaveFails, Archive!Return
  <1>6. QED
    BY <1>2, <1>3, <1>4, <1>5 DEF DiskCall

LEMMA AckedStep ==
    ASSUME ExporterInv, ExporterInv', AckedInv, [Next]_vars
    PROVE  AckedInv'
  <1>0. /\ Proved!IInv /\ Proved!IInv' /\ PlacesOK /\ Fetched
        /\ ~up => acked = 0
        /\ pc # "idle" => up
        /\ DOMAIN given = Callers
    BY DEF ExporterInv, AckedInv, Proved!IInv, Proved!CallsNeedProcess, PlacesOK
  <1>1. CASE /\ UNCHANGED << up, pc, snap, todo, state, acked >>
             /\ pc # "idle" => given'[Archiver] = given[Archiver]
    BY <1>1 DEF AckedInv, AckedIsKnown, WritesFetched
  <1>2. CASE Start
    BY <1>0, <1>2 DEF Start, Archive!Open, AckedInv, AckedIsKnown, WritesFetched
  <1>3. CASE BeginAppend
    <2>1. /\ pc' # "idle" /\ given' = given /\ given[Archiver] # 0
          /\ snap' = Contents[given[Archiver]]
          /\ todo' = {k \in Keys : Contents[given[Archiver]][k] # NoFp}
          /\ acked' = IF given[Archiver] = acked THEN acked ELSE 0
          /\ up /\ UNCHANGED << up, state >>
      BY <1>0, <1>3 DEF BeginAppend, Archive!BeginSnapshot, Archive!memory,
                        Fetched, cacheVars
    <2>2. AckedIsKnown'
      BY <2>1 DEF AckedInv, AckedIsKnown
    <2>3. QED
      BY <2>1, <2>2 DEF AckedInv, WritesFetched
  <1>4. CASE DiskStep
    <2>1. /\ pc # "idle" /\ UNCHANGED << up, snap >> /\ todo' \subseteq todo
          /\ \/ state'.jobs = state.jobs
             \/ \E k \in Keys : Archive!AppendJob(k)
      BY <1>0, <1>4, DiskEffects DEF DiskStep
    <2>2. /\ given[Archiver] # 0 /\ snap = Contents[given[Archiver]]
          /\ acked \in {0, given[Archiver]} /\ \A k \in todo : snap[k] # NoFp
      BY <2>1 DEF AckedInv, WritesFetched
    <2>3. acked # 0 => state'.jobs = state.jobs
      BY <2>1, AckedAddsNothing
    <2>4. CASE UNCHANGED acked
      <3>1. AckedIsKnown'
        BY <2>3, <2>4 DEF AckedInv, AckedIsKnown
      <3>2. pc' # "idle" => UNCHANGED given
        BY <1>4 DEF DiskStep
      <3>3. QED
        BY <1>0, <2>1, <2>2, <2>4, <3>1, <3>2 DEF AckedInv, WritesFetched
    <2>5. CASE pc' = "idle" /\ result' = "ok" /\ acked' = given[Archiver]
      <3>1. \A k \in Keys : snap'[k] # NoFp => state'.jobs[k] = snap'[k]
        BY <1>0, <2>5 DEF Proved!IInv, Proved!AcknowledgedStateSaved
      <3>2. AckedIsKnown'
        BY <2>1, <2>2, <2>5, <3>1 DEF AckedIsKnown
      <3>3. QED
        BY <1>0, <2>1, <2>5, <3>2 DEF AckedInv, WritesFetched
    <2>6. QED
      BY <1>4, <2>4, <2>5 DEF DiskStep
  <1>5. CASE Crash
    BY <1>5 DEF Crash, Archive!Kill, Archive!LoseProcess, AckedInv,
                AckedIsKnown, WritesFetched
  <1>6. CASE TickerFires \/ WakeArchiver \/ Age \/ UNCHANGED vars
    BY <1>1, <1>6 DEF TickerFires, WakeArchiver, Age, Cache!Age, vars,
                      archiveVars, cacheVars
  <1>7. ASSUME NEW c \in Clients, Arrive(c) \/ ReadStatus(c) \/ Finish(c)
        PROVE  AckedInv'
    <2>1. /\ UNCHANGED << archiveVars, acked >>
          /\ given' = given \/ given' = [given EXCEPT ![c] = 0]
      BY <1>7 DEF Arrive, ReadStatus, Finish, Cache!Release, cacheVars
    <2>2. given'[Archiver] = given[Archiver]
      BY <1>0, <2>1, Clientele
    <2>3. QED
      BY <1>1, <2>1, <2>2 DEF archiveVars
  <1>8. ASSUME NEW c \in Callers, Hit(c) \/ Miss(c) \/ Collected(c)
        PROVE  AckedInv'
    <2>1. /\ UNCHANGED << archiveVars, acked >> /\ at[c] = "get"
          /\ given' = given \/ \E n : given' = [given EXCEPT ![c] = n]
      BY <1>0, <1>8 DEF Hit, Miss, Collected, Cache!HandOver,
                        Cache!BeginRefresh, Cache!EndRefresh, PlacesOK
    <2>2. pc # "idle" => c # Archiver
      BY <1>0, <2>1 DEF PlacesOK
    <2>3. pc # "idle" => given'[Archiver] = given[Archiver]
      BY <1>0, <2>1, <2>2, Clientele
    <2>4. QED
      BY <1>1, <2>1, <2>3 DEF archiveVars
  <1>9. QED
    BY <1>2, <1>3, <1>4, <1>5, <1>6, <1>7, <1>8 DEF Next

\* When the cache hands the goroutine the snapshot it archived last, no event
\* is added, however many calls for that snapshot have failed since.
THEOREM SameSnapshotIsQuiet == Spec => SameSnapshotAddsNoEvent
  <1>1. Init => AckedInv
    BY DEF Init, Archive!Init, AckedInv, AckedIsKnown, WritesFetched
  <1>2. ExporterInv /\ ExporterInv' /\ AckedInv /\ [Next]_vars => AckedInv'
    BY AckedStep
  <1>3. AckedInv => \A k \in Keys : Archive!AppendJob(k) => given[Archiver] # acked
    BY AckedAddsNothing
  <1>4. QED
    BY <1>1, <1>2, <1>3, ExporterInvariant, PTL
    DEF Spec, SameSnapshotAddsNoEvent
=============================================================================
