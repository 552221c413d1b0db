------------------------------ MODULE Exporter ------------------------------
(***************************************************************************)
(* cmd/slurm-insights-exporter/main.go: the one process in which the       *)
(* snapshot cache and the history archive meet.  The archive goroutine gets*)
(* a snapshot, then holds the archive's mutex while it writes to the disk; *)
(* a handler gets a snapshot, asks for the archive's Status, or, for       *)
(* /metrics, does the one after the other.                                 *)
(*                                                                         *)
(* The cache is taken from its abstract specification, SharedSnapshot      *)
(* (which SnapshotCache is shown to implement), the archive from           *)
(* HistoryStore with its faults.  Nothing forces a refresh or a disk call  *)
(* to end: the liveness properties say which of the two they need.         *)
(***************************************************************************)
EXTENDS Naturals, Sequences, FiniteSets

CONSTANTS
    Keys, Fingerprints, NoFp, Missing, Corrupt, Faults, MaxSnapshots,
    TTL, Serials,
    Scrapes,   \* clients of /metrics
    Readers,   \* clients of /api/v1/snapshot and /api/v1/jobs
    Watchers,  \* clients of /api/v1/history/status
    Archiver,  \* the archive goroutine
    Contents   \* Contents[n]: the jobs in snapshot n

VARIABLES
    up, pc, state, lastWrite, snap, todo, result, log, torn, index, stable,
    digests, snapshots,                  \* of HistoryStore
    current, age, refreshing, given,     \* of SharedSnapshot
    at,     \* what a client or the archive goroutine is doing
    ticker, \* the archive goroutine's: not made yet, waiting, or fired
    told,   \* history variable: the chain head in the latest answer of Status
    acked   \* history variable: the snapshot archived last, 0 if this process
            \* has archived none or has begun a call with another since

archiveVars == << up, pc, state, lastWrite, snap, todo, result, log, torn,
                  index, stable, digests, snapshots >>
cacheVars == << current, age, refreshing, given >>
vars == << archiveVars, cacheVars, at, ticker, told, acked >>

Clients == Scrapes \cup Readers \cup Watchers
Callers == Clients \cup {Archiver}

Archive == INSTANCE HistoryStore
Cache == INSTANCE SharedSnapshot WITH Consumers <- Callers

ASSUME ExporterAssumption ==
    /\ Archiver \notin Clients
    /\ MaxSnapshots \in Nat \ {0} /\ TTL \in Nat /\ Serials \in Nat \ {0}
    /\ Contents \in [1 .. Serials -> Archive!JobMap]

\* What HistoryStore assumes.
ASSUME ArchiveAssumption ==
    /\ Keys \subseteq Nat \ {0} /\ IsFiniteSet(Keys)
    /\ NoFp \notin Fingerprints
    /\ Faults \subseteq Archive!FaultKinds
    /\ Missing \notin Archive!States
    /\ Corrupt \notin Archive!States
    /\ Missing # Corrupt

Goto(c, place) == at' = [at EXCEPT ![c] = place]

-----------------------------------------------------------------------------
(* The archive goroutine and the process.                                  *)

Idle == [c \in Callers |-> "idle"]

Init ==
    /\ Archive!Init
    /\ Cache!Init
    /\ at = Idle
    /\ ticker = "none"
    /\ told = Archive!Genesis
    /\ acked = 0

\* main: Open, the goroutine with its first write, and the server.
Start ==
    /\ snapshots < MaxSnapshots
    /\ Archive!Open
    /\ Goto(Archiver, "get")
    /\ UNCHANGED << cacheVars, ticker, told, acked >>

TickerFires ==
    /\ ticker = "waiting"
    /\ ticker' = "fired"
    /\ UNCHANGED << archiveVars, cacheVars, at, told, acked >>

\* A tick that comes while write() runs waits in the channel; more are lost.
WakeArchiver ==
    /\ at[Archiver] = "idle"
    /\ ticker = "fired"
    /\ snapshots < MaxSnapshots
    /\ ticker' = "waiting"
    /\ Goto(Archiver, "get")
    /\ UNCHANGED << archiveVars, cacheVars, told, acked >>

BeginAppend ==
    /\ at[Archiver] = "append"
    /\ Archive!BeginSnapshot(Contents[given[Archiver]])
    /\ Goto(Archiver, "writing")
    /\ acked' = IF given[Archiver] = acked THEN acked ELSE 0
    /\ UNCHANGED << cacheVars, ticker, told >>

DiskCall ==
    \/ Archive!AppendObservation
    \/ \E k \in Keys : Archive!SkipJob(k) \/ Archive!AppendJob(k)
    \/ Archive!SaveState

\* Mutant: the goroutine returns on the first error.
StopsOnError(outcome) == IF outcome = "error" THEN "stopped" ELSE "idle"

\* write() logs an error and returns in any case.
AfterWrite(outcome) == "idle"

\* A call under AppendSnapshot, the last of which lets write() return.
DiskStep ==
    /\ DiskCall
    /\ IF pc' = "idle"
       THEN /\ Goto(Archiver, AfterWrite(result'))
            /\ ticker' = IF ticker = "none" THEN "waiting" ELSE ticker
            /\ acked' = IF result' = "ok" THEN given[Archiver] ELSE acked
            /\ given' = [given EXCEPT ![Archiver] = 0]
       ELSE UNCHANGED << at, ticker, acked, given >>
    /\ UNCHANGED << current, age, refreshing, told >>

\* The process dies: requests fail, the cache is gone, the disk stays.
Crash ==
    /\ Archive!Kill
    /\ current' = 0
    /\ age' = TTL
    /\ refreshing' = {}
    /\ given' = [c \in Callers |-> 0]
    /\ at' = Idle
    /\ ticker' = "none"
    /\ acked' = 0
    /\ UNCHANGED told

-----------------------------------------------------------------------------
(* The handlers, and Get.                                                  *)

\* A request comes in; /api/v1/history/status is the one that does not Get.
Arrive(c) ==
    /\ up
    /\ at[c] = "idle"
    /\ Goto(c, IF c \in Watchers THEN "status" ELSE "get")
    /\ UNCHANGED << archiveVars, cacheVars, ticker, told, acked >>

\* Mutant: every page carries the archive's status.
AfterAnyGet(c) == IF c = Archiver THEN "append" ELSE "status"

\* What Get is followed by.
AfterGet(c) ==
    CASE c = Archiver -> "append"
      [] c \in Scrapes -> "status"
      [] OTHER -> "answer"

Hit(c) ==
    /\ at[c] = "get"
    /\ Cache!HandOver(c)
    /\ Goto(c, AfterGet(c))
    /\ UNCHANGED << archiveVars, ticker, told, acked >>

Miss(c) ==
    /\ at[c] = "get"
    /\ Cache!BeginRefresh(c)
    /\ UNCHANGED << archiveVars, at, ticker, told, acked >>

Collected(c) ==
    /\ Cache!EndRefresh(c)
    /\ Goto(c, AfterGet(c))
    /\ UNCHANGED << archiveVars, ticker, told, acked >>

\* Mutants: Status without the mutex; the mutex is taken before the argument
\* of AppendSnapshot is evaluated.
ReadsAnyway == TRUE
LockedOverGet == pc = "idle" /\ at[Archiver] # "get"

\* The archive's mutex is free.
CanRead == pc = "idle"

\* Status, and with it the end of the answer.
ReadStatus(c) ==
    /\ at[c] = "status"
    /\ CanRead
    /\ told' = Archive!Status.lastHash
    /\ Cache!Release(c)
    /\ Goto(c, "idle")
    /\ UNCHANGED << archiveVars, ticker, acked >>

\* The end of an answer from the snapshot alone.
Finish(c) ==
    /\ at[c] = "answer"
    /\ Cache!Release(c)
    /\ Goto(c, "idle")
    /\ UNCHANGED << archiveVars, ticker, told, acked >>

Age ==
    /\ Cache!Age
    /\ UNCHANGED << archiveVars, at, ticker, told, acked >>

Next ==
    \/ Start \/ TickerFires \/ WakeArchiver \/ BeginAppend \/ DiskStep \/ Crash
    \/ \E c \in Clients : Arrive(c) \/ ReadStatus(c) \/ Finish(c)
    \/ \E c \in Callers : Hit(c) \/ Miss(c) \/ Collected(c)
    \/ Age

Spec == Init /\ [][Next]_vars

(***************************************************************************)
(* The scheduler runs what can run, a mutex that is free again and again is*)
(* given to each waiter, and the ticker ticks.  Clients need not come, and *)
(* neither Collected nor DiskStep need happen.                             *)
(***************************************************************************)
Fairness ==
    /\ WF_vars(Start \/ WakeArchiver \/ BeginAppend)
    /\ WF_vars(TickerFires)
    /\ \A c \in Callers : SF_vars(Hit(c) \/ Miss(c))
    /\ \A c \in Scrapes \cup Watchers : SF_vars(ReadStatus(c))
    /\ \A c \in Readers : WF_vars(Finish(c))

FairSpec == Spec /\ Fairness

-----------------------------------------------------------------------------
(* Properties.                                                             *)

\* Types, and that the callers' places agree with the two locks: AppendSnapshot
\* runs exactly while the goroutine is in write(), and who collects is in Get.
TypeOK ==
    /\ Archive!TypeOK
    /\ current \in 0 .. Serials
    /\ age \in 0 .. TTL
    /\ given \in [Callers -> 0 .. Serials]
    /\ at \in [Callers -> {"idle", "get", "status", "append", "writing",
                           "answer"}]
    /\ ticker \in {"none", "waiting", "fired"}
    /\ told \in Nat
    /\ acked \in 0 .. Serials
    /\ pc # "idle" <=> at[Archiver] = "writing"
    /\ \A c \in refreshing : at[c] = "get" /\ refreshing = {c}

\* A chain head that Status has once reported stays in the archive, whatever
\* happens to the call or the process that wrote it: a record with this hash is
\* in the log.  Its line may be one no reader can parse, behind a fragment.
ToldHeadIsArchived ==
    told # Archive!Genesis => \E i \in DOMAIN log : log[i].hash = told

\* Status reports a head at which a call had ended, after a failed one that of
\* part of a snapshot: what is written behind it is an observation, with which
\* each snapshot begins, and never one of the events of a snapshot that was
\* being written when it was asked.
ToldHeadEndsASnapshot ==
    [][Len(log') > Len(log) =>
          \/ log'[Len(log')].kind = "observation"
          \/ told # log'[Len(log')].previous]_vars

\* "job_state_change events only when a job is new or its accounting fields
\* change": when the cache hands the goroutine the snapshot it archived last,
\* only an observation is added.
SameSnapshotAddsNoEvent ==
    [][\A k \in Keys : Archive!AppendJob(k) => given[Archiver] # acked]_vars

SlurmAnswers == WF_vars(\E c \in Callers : Collected(c))
DiskAnswers == WF_vars(DiskStep)

\* Pages without archive data do not wait for the disk: as long as collections
\* end, each request for one is answered, even if a disk call never returns.
PagesNeedNoDisk ==
    SlurmAnswers => \A c \in Readers : at[c] = "get" ~> at[c] = "idle"

\* /api/v1/history/status does not wait for Slurm: as long as disk calls end it
\* is answered, even if a collection for the archive never ends.
StatusNeedsNoSlurm ==
    DiskAnswers => \A c \in Watchers : at[c] = "status" ~> at[c] = "idle"

\* "Disk writes run on their own timer, never on the Prometheus request path":
\* a scrape is answered as long as collections and disk calls end, the ones that
\* fail included; it does need the latter, for its Status.
ScrapesReturn ==
    SlurmAnswers /\ DiskAnswers =>
        \A c \in Scrapes : at[c] = "get" ~> at[c] = "idle"

\* A snapshot that could not be archived is followed by another attempt.
ArchiveKeepsWriting ==
    SlurmAnswers /\ DiskAnswers =>
        (up /\ result = "error") ~> (pc # "idle" \/ ~up \/ snapshots = MaxSnapshots)
=============================================================================
