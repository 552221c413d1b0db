---------------------------- MODULE HistoryStore ----------------------------
(***************************************************************************)
(* internal/history/store.go: the append-only archive.  AppendSnapshot     *)
(* writes one observation record and one record per changed job to the     *)
(* day's JSONL file, each linked to the one before by its hash, and then   *)
(* replaces state.json, from which Open resumes after a restart.           *)
(*                                                                         *)
(* One action is one call that reaches the file system (append, saveState, *)
(* Open), so that the process can stop and the disk can fail between any   *)
(* two of them.  The mutex s.mu is held from BeginSnapshot until pc is     *)
(* "idle" again.                                                           *)
(*                                                                         *)
(* Abstractions.  A SHA-256 digest is a number no other digest has: every  *)
(* envelope differs from every other (sequence and CollectedAt).  A job    *)
(* record is its key and its fingerprint.  The daily files are one         *)
(* sequence of lines; a new day only means that the next line does not     *)
(* land behind an unterminated one; a line whose Sync failed is taken to  *)
(* stay.  .state.tmp is never read and is not represented: a saveState that*)
(* stops before its rename changes nothing.                                *)
(***************************************************************************)
EXTENDS Naturals, Sequences, FiniteSets

CONSTANTS
    Keys,         \* "cluster/job_id" keys, numbered in JobID order
    Fingerprints, \* what the digest of a marshalled JobRecord tells apart
    NoFp,         \* no entry in state.Jobs
    Missing,      \* state.json does not exist
    Corrupt,      \* state.json exists and json.Unmarshal rejects it
    Faults,       \* what may go wrong in this instance, see FaultKinds
    MaxSnapshots  \* bound: calls of AppendSnapshot

(***************************************************************************)
(* marshal  json.Marshal of an envelope's data fails (NaN, infinity)       *)
(* open     os.OpenFile of the JSONL file fails                            *)
(* write    Encode or Flush fails after part of the line is in the file    *)
(* sync     the line is in the file, Sync or Close fails                   *)
(* save     WriteFile or Rename of the state index fails                   *)
(* stop     the process ends between two calls, the latest of which returned*)
(*          nil, or before any                                             *)
(* kill     the process ends anywhere                                      *)
(* power    the machine stops anywhere; what was not synced may be lost    *)
(***************************************************************************)
FaultKinds ==
    {"marshal", "open", "write", "sync", "save", "stop", "kill", "power"}

\* Faults that leave the archive one chain: errors before a line reached the
\* file or behind the last one, and restarts behind a call that returned nil.
OrderlyFaults == {"stop", "marshal", "open", "write", "save"}

ASSUME StoreAssumption ==
    /\ Keys \subseteq Nat \ {0} /\ IsFiniteSet(Keys)
    /\ NoFp \notin Fingerprints
    /\ Faults \subseteq FaultKinds
    /\ MaxSnapshots \in Nat

Genesis == 0  \* LastHash "" of a store that has written nothing
NoKey == 0    \* an observation belongs to no job

VARIABLES
    up,        \* the process runs
    pc,        \* where AppendSnapshot stands
    state,     \* s.state
    lastWrite, \* s.lastWrite, as the number of the call that set it
    snap,      \* the jobs of the snapshot of the current or latest call
    todo,      \* keys of that snapshot the loop has not come to
    result,    \* what the latest call returned, "none" before and during it
    log,       \* the envelopes in the JSONL files, oldest first
    torn,      \* the file being written ends in an unterminated line
    index,     \* state.json as the next Open would read it
    stable,    \* state.json as it is on the disk below the page cache
    digests,   \* history variable: digests computed so far
    snapshots  \* calls of AppendSnapshot so far

vars == << up, pc, state, lastWrite, snap, todo, result, log, torn,
           index, stable, digests, snapshots >>
memory == << state, lastWrite >>
disk == << log, torn, index, stable, digests >>
call == << snap, todo, result, snapshots >>

-----------------------------------------------------------------------------
(* Data.                                                                   *)

JobMap == [Keys -> Fingerprints \cup {NoFp}]
NoJobs == [k \in Keys |-> NoFp]

States == [sequence : Nat, lastHash : Nat, jobs : JobMap]
ASSUME IndexAssumption ==
    /\ Missing \notin States
    /\ Corrupt \notin States
    /\ Missing # Corrupt

Fresh == [sequence |-> 0, lastHash |-> Genesis, jobs |-> NoJobs]

Kinds == {"observation", "job_state_change"}

\* An Envelope.  legible is no field of the code's: it says whether the line
\* the envelope was written to is one JSON document.
Envelopes ==
    [sequence : Nat, previous : Nat, hash : Nat, kind : Kinds,
     key : Keys \cup {NoKey}, fp : Fingerprints \cup {NoFp},
     legible : BOOLEAN]

Envelope(kind, key, fp) ==
    [sequence |-> state.sequence + 1, previous |-> state.lastHash,
     hash |-> digests + 1, kind |-> kind, key |-> key, fp |-> fp,
     legible |-> ~torn]

Observation == Envelope("observation", NoKey, NoFp)
JobEvent(k) == Envelope("job_state_change", k, snap[k])

\* The loop takes the snapshot's jobs in the order of their JobID.
IsNext(k) == k \in todo /\ \A j \in todo : k <= j
Unchanged(k) == state.jobs[k] = snap[k]

-----------------------------------------------------------------------------
(* append: what one call leaves behind.                                    *)

Line(e) == /\ log' = Append(log, e)
           /\ torn' = FALSE
           /\ digests' = e.hash
           /\ UNCHANGED << index, stable >>

Fragment(e) == /\ torn' = TRUE
               /\ digests' = e.hash
               /\ UNCHANGED << log, index, stable >>

NoLine(e) == /\ digests' = e.hash
             /\ UNCHANGED << log, torn, index, stable >>

\* Mutants of FailedAt: LastHash is advanced together with Sequence, before
\* the write; Jobs[key] is set before append is tried.
LinkedAt(e) == [state EXCEPT !.sequence = e.sequence, !.lastHash = e.hash]
IndexedAt(e) ==
    [state EXCEPT !.sequence = e.sequence,
                  !.jobs = [k \in Keys |-> IF k = e.key THEN e.fp ELSE @[k]]]

\* What an append that fails behind the marshalling leaves in memory.
FailedAt(e) == [state EXCEPT !.sequence = e.sequence]

\* The error returns of append: Sequence has been advanced by all but the
\* first, LastHash by none.
AppendFails(e) ==
    \/ /\ "marshal" \in Faults
       /\ UNCHANGED << state, disk >>
    \/ /\ state' = FailedAt(e)
       /\ \/ "open" \in Faults /\ NoLine(e)
          \/ "write" \in Faults /\ Fragment(e)
          \/ "sync" \in Faults /\ Line(e)

-----------------------------------------------------------------------------
(* Open and AppendSnapshot.                                                *)

Init ==
    /\ up = FALSE /\ pc = "idle"
    /\ state = Fresh /\ lastWrite = 0
    /\ snap = NoJobs /\ todo = {} /\ result = "none"
    /\ log = << >> /\ torn = FALSE
    /\ index = Missing /\ stable = Missing
    /\ digests = 0 /\ snapshots = 0

\* Mutant: Open without the case of a state.json that does not exist.
ResumedIfAny == index

Resumed == IF index = Missing THEN Fresh ELSE index

\* Open with a state.json it can read, or with none.
Open ==
    /\ ~up
    /\ index # Corrupt
    /\ up' = TRUE
    /\ state' = Resumed
    /\ lastWrite' = 0
    /\ result' = "none"
    /\ UNCHANGED << pc, snap, todo, snapshots, disk >>

\* json.Unmarshal fails: main exits with 1 and the service manager tries again.
OpenFails ==
    /\ ~up
    /\ index = Corrupt
    /\ UNCHANGED vars

\* The archive goroutine calls AppendSnapshot with the cached snapshot.  It
\* may belong to a new day, whose file does not exist yet.
BeginSnapshot(jobs) ==
    /\ up
    /\ pc = "idle"
    /\ snapshots < MaxSnapshots
    /\ snapshots' = snapshots + 1
    /\ pc' = "observation"
    /\ snap' = jobs
    /\ todo' = {k \in Keys : jobs[k] # NoFp}
    /\ result' = "none"
    /\ torn' \in {torn, FALSE}
    /\ UNCHANGED << up, memory, log, index, stable, digests >>

\* Mutant: the mutex is not released on an error.
ReturnLocked(outcome) ==
    /\ pc' = IF outcome = "error" THEN "locked" ELSE "idle"
    /\ result' = outcome
    /\ todo' = {}

Return(outcome) ==
    /\ pc' = "idle"
    /\ result' = outcome
    /\ todo' = {}

AppendObservation ==
    /\ pc = "observation"
    /\ \/ /\ Line(Observation)
          /\ state' = [state EXCEPT !.sequence = Observation.sequence,
                                    !.lastHash = Observation.hash]
          /\ pc' = "jobs"
          /\ UNCHANGED << result, todo >>
       \/ AppendFails(Observation) /\ Return("error")
    /\ UNCHANGED << up, lastWrite, snap, snapshots >>

SkipJob(k) ==
    /\ pc = "jobs"
    /\ IsNext(k)
    /\ Unchanged(k)
    /\ todo' = todo \ {k}
    /\ UNCHANGED << up, pc, memory, disk, snap, result, snapshots >>

\* Mutants of Recorded: Jobs[key] is not set; LastHash is not advanced.
RecordedUnindexed(k) ==
    [state EXCEPT !.sequence = JobEvent(k).sequence,
                  !.lastHash = JobEvent(k).hash]
RecordedUnlinked(k) ==
    [state EXCEPT !.sequence = JobEvent(k).sequence, !.jobs[k] = snap[k]]

\* s.state after a job's event has been written.
Recorded(k) ==
    [sequence |-> JobEvent(k).sequence, lastHash |-> JobEvent(k).hash,
     jobs |-> [state.jobs EXCEPT ![k] = snap[k]]]

AppendJob(k) ==
    /\ pc = "jobs"
    /\ IsNext(k)
    /\ ~Unchanged(k)
    /\ \/ /\ Line(JobEvent(k))
          /\ state' = Recorded(k)
          /\ todo' = todo \ {k}
          /\ UNCHANGED << pc, result >>
       \/ AppendFails(JobEvent(k)) /\ Return("error")
    /\ UNCHANGED << up, lastWrite, snap, snapshots >>

\* Mutant: the error of saveState is dropped.
SaveErrorIgnored ==
    /\ "save" \in Faults
    /\ Return("ok")
    /\ UNCHANGED index

SaveFails ==
    /\ "save" \in Faults
    /\ Return("error")
    /\ UNCHANGED index

\* The end of AppendSnapshot: lastWrite is set before saveState is tried.
SaveState ==
    /\ pc = "jobs"
    /\ todo = {}
    /\ lastWrite' = snapshots
    /\ \/ index' = state /\ Return("ok")
       \/ SaveFails
    /\ UNCHANGED << up, state, snap, log, torn, stable, digests, snapshots >>

-----------------------------------------------------------------------------
(* The process and the machine.                                            *)

LoseProcess ==
    /\ up' = FALSE
    /\ pc' = "idle"
    /\ state' = Fresh
    /\ lastWrite' = 0
    /\ todo' = {}
    /\ result' = "none"
    /\ UNCHANGED << snap, snapshots >>

Stop ==
    /\ "stop" \in Faults
    /\ up
    /\ pc = "idle"
    /\ result # "error"
    /\ LoseProcess
    /\ UNCHANGED disk

\* The envelope an append that is under way would write.
InFlight ==
    IF pc = "observation" THEN {Observation}
    ELSE {JobEvent(k) : k \in {j \in todo : pc = "jobs" /\ IsNext(j)
                                                        /\ ~Unchanged(j)}}

\* What an interrupted append leaves in the file.
Interrupted ==
    \/ UNCHANGED << log, torn, digests >>
    \/ \E e \in InFlight :
          /\ digests' = e.hash
          /\ \/ log' = Append(log, e) /\ torn' = FALSE
             \/ torn' = TRUE /\ log' = log

Kill ==
    /\ "kill" \in Faults
    /\ up
    /\ LoseProcess
    /\ Interrupted
    /\ UNCHANGED << index, stable >>

\* saveState syncs neither .state.tmp nor the directory: what a power loss
\* leaves of the index is the old file, the new one, or an empty one.
PowerLoss ==
    /\ "power" \in Faults
    /\ LoseProcess
    /\ Interrupted
    /\ index' \in {stable, index} \cup (IF stable = index THEN {}
                                                          ELSE {Corrupt})
    /\ stable' = index'

\* The kernel writes the page cache back in its own time.
Writeback ==
    /\ "power" \in Faults
    /\ stable # index
    /\ stable' = index
    /\ UNCHANGED << up, pc, memory, call, log, torn, index, digests >>

Next ==
    \/ Open
    \/ OpenFails
    \/ \E jobs \in JobMap : BeginSnapshot(jobs)
    \/ AppendObservation
    \/ \E k \in Keys : SkipJob(k)
    \/ \E k \in Keys : AppendJob(k)
    \/ SaveState
    \/ Stop
    \/ Kill
    \/ PowerLoss
    \/ Writeback

Spec == Init /\ [][Next]_vars

\* Status, which GET /api/v1/history/status and /metrics report.
Status ==
    [sequence |-> state.sequence, lastHash |-> state.lastHash,
     trackedJobs |-> Cardinality({k \in Keys : state.jobs[k] # NoFp}),
     lastWrite |-> lastWrite]

-----------------------------------------------------------------------------
(* Properties.                                                             *)

TypeOK ==
    /\ up \in BOOLEAN
    /\ pc \in {"idle", "observation", "jobs"}
    /\ state \in States
    /\ lastWrite \in Nat
    /\ snap \in JobMap
    /\ todo \subseteq Keys
    /\ result \in {"none", "ok", "error"}
    /\ log \in Seq(Envelopes)
    /\ torn \in BOOLEAN
    /\ index \in States \cup {Missing, Corrupt}
    /\ stable \in States \cup {Missing, Corrupt}
    /\ digests \in Nat
    /\ snapshots \in Nat

Link(e) == [hash |-> e.hash, previous |-> e.previous, sequence |-> e.sequence]
Links == [i \in DOMAIN log |-> Link(log[i])]

Trail == INSTANCE AuditTrail WITH trail <- Links, Linear <- FALSE
Chain == INSTANCE AuditTrail WITH trail <- Links, Linear <- TRUE

\* Whatever fails and wherever the process or the machine stops, each record
\* put in the archive names a parent that is in the archive already, with a
\* smaller sequence number: no link ever dangles, and the index a restart
\* resumes from never runs ahead of the files (append before saveState).
ImplementsAuditTrail == Trail!Spec

\* While nothing stops the process within a snapshot, no line fails after it
\* reached the file, and restarts find an index that was saved, the archive
\* is one unbranched hash chain.
ImplementsAuditChain == Chain!Spec

\* An archive holds the event: on a line of its own.
EventIn(archive, k, fp) ==
    \E i \in DOMAIN archive : /\ archive[i].kind = "job_state_change"
                              /\ archive[i].key = k
                              /\ archive[i].fp = fp
                              /\ archive[i].legible

JobsIn(archive, s) ==
    \A k \in Keys : s.jobs[k] # NoFp => EventIn(archive, k, s.jobs[k])

\* The deduplication index never suppresses an event that was not written:
\* what it holds for a job, in memory, in state.json or in the copy of it that
\* survives a power loss, has a record in the archive, on a line of its own
\* (the record that lands behind an unterminated line is an observation).
DedupNeverLosesAnEvent ==
    \A s \in {state, index, stable} \ {Missing, Corrupt} : JobsIn(log, s)

\* When AppendSnapshot has returned nil, every job of that snapshot is
\* archived as the snapshot has it, and a restart would resume from exactly
\* the sequence, hash and job index the process holds.
AcknowledgedSnapshotIsDurable ==
    result = "ok" =>
        /\ index = state
        /\ \A k \in Keys : snap[k] # NoFp => EventIn(log, k, snap[k])

\* "reports the sequence, chain head, ...": after a call that returned nil
\* Status names the latest record of the archive, and all the snapshot's jobs
\* are tracked, whatever earlier calls, processes and machines went through.
AcknowledgedStatusIsTrue ==
    result = "ok" =>
        /\ Status.sequence = log[Len(log)].sequence
        /\ Status.lastHash = log[Len(log)].hash
        /\ Status.trackedJobs >= Cardinality({k \in Keys : snap[k] # NoFp})

(***************************************************************************)
(* The inductive invariant behind the four properties above.  No fault is  *)
(* excluded: every clause is about what survives all of them.              *)
(***************************************************************************)

\* Every hash in the archive was computed before, so the next one is new.
HashesAreOld == \A i \in DOMAIN log : log[i].hash \in 1 .. digests

\* A state s resumes a trail that exists: the hash the next envelope will name
\* is in the archive, under a sequence number the next envelope exceeds.
HeadIn(archive, s) ==
    \/ s.lastHash = Genesis
    \/ \E i \in DOMAIN archive : /\ archive[i].hash = s.lastHash
                                 /\ archive[i].sequence <= s.sequence

Resumable(archive, s) == HeadIn(archive, s) /\ JobsIn(archive, s)

\* The loop starts from every job of the snapshot.
LoopStartsFull ==
    pc = "observation" => \A k \in Keys \ todo : snap[k] = NoFp

\* The loop has recorded the jobs it has passed, and writes whole lines.
LoopKeepsUp ==
    pc = "jobs" =>
        /\ ~torn
        /\ \A k \in Keys \ todo : snap[k] # NoFp => state.jobs[k] = snap[k]

\* A call that returned nil left its snapshot in memory and on the disk.
AcknowledgedStateSaved ==
    result = "ok" =>
        /\ index = state
        /\ \A k \in Keys : snap[k] # NoFp => state.jobs[k] = snap[k]

\* Behind the first record of a call memory names the archive's last record.
HeadIsCurrent ==
    pc = "jobs" \/ result = "ok" =>
        /\ log # << >>
        /\ state.sequence = log[Len(log)].sequence
        /\ state.lastHash = log[Len(log)].hash

CallsNeedProcess ==
    /\ pc # "idle" => up
    /\ result # "none" => pc = "idle"

IInv ==
    /\ TypeOK
    /\ HashesAreOld
    /\ \A s \in {state, index, stable} \ {Missing, Corrupt} :
          Resumable(log, s)
    /\ LoopStartsFull
    /\ LoopKeepsUp
    /\ AcknowledgedStateSaved
    /\ HeadIsCurrent
    /\ CallsNeedProcess

\* "job_state_change events only when a job is new or its accounting fields
\* change": two events of a job with the same fields have another one between.
NoRepeatedEvent ==
    \A i, j \in DOMAIN log :
        /\ i < j
        /\ log[i].kind = "job_state_change"
        /\ log[j].kind = "job_state_change"
        /\ log[i].key = log[j].key
        /\ log[i].fp = log[j].fp
        => \E m \in i + 1 .. j - 1 : /\ log[m].key = log[i].key
                                     /\ log[m].fp # log[i].fp

\* "a tamper-evident chain suitable for audit verification": the parent of a
\* record that can be read can be read.
ChainIsLegible ==
    \A i \in DOMAIN log : log[i].legible /\ log[i].previous # Genesis =>
        \E j \in DOMAIN log : /\ log[j].hash = log[i].previous
                              /\ log[j].legible

\* "a durable state index": after a power loss there is an index to resume
\* from, so the exporter can start.
IndexSurvives == index # Corrupt
=============================================================================
