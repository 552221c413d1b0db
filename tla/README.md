# slurm-insights-exporter: specification

TLA+ models of the exporter's core (the shared snapshot cache, the collection
with its slow tier, the append-only history archive, the process that joins
them, the aggregations over `sacct`, `squeue` and `scontrol` output, and the page
they end up on), the TLC configurations that check them, and TLAPS proofs of the
properties that matter most. Paths and line numbers refer
to the repository's source at the commit these files were written for;
`README.md:n` means the exporter's own README.

Everything is run from this directory:

    tlc -config MCHistoryStore_all.cfg MCHistoryStore.tla
    tlapm HistoryStoreProofs.tla

`PROJECT.json` lists the runs, and for each definition the lines it models.

## 1. The system

One process, started by `cmd/slurm-insights-exporter/main.go`. HTTP handlers
and, when a history directory is set, one archive goroutine read a shared
snapshot of Slurm; a read that finds the snapshot too old runs the Slurm
commands itself, under the cache's lock.

    HTTP handlers --Get(r.Context())--------+
                                            v
                                    Cache (mu, TTL) --Collect--> Collector --slow()--> Slurm commands
                                            ^                    (10 goroutines)       (Timeout, kill)
    archive goroutine --Get(Background)-----+
           |
           +--AppendSnapshot--> Store (mu) --append, saveState--> *.jsonl, state.json
    HTTP handlers --Status()------^

| component | source | state | operations | what is hard | what makes it correct |
|---|---|---|---|---|---|
| History archive | `internal/history/store.go` | sequence, last hash and job index in memory and in `state.json`; JSONL files | `Open`, `AppendSnapshot` (`append`, `saveState`), `Status` | crash between any two file operations, five ways for a write to fail, no fsync of the index, an in-memory state that a failed call has half advanced | no dangling link; no event suppressed that was not written; nil means archived and resumable; without crashes one chain and no repeated event |
| Snapshot cache | `internal/slurm/cache.go` | snapshot, its time, a mutex | `Get` | lock held across a collection; the collection has the context of whoever came first; waiters ignore theirs | one collection at a time; data no older than the snapshot says, and that bounded while commands end in time; every `Get` returns |
| Collection, slow tier | `internal/slurm/collector.go:20-105,152-156`, `runner.go` | `slowData`: last result, time and error of seven collectors | `Collect`, `slow`, `run`, `ExecRunner.Run` | ten goroutines; lock released between look and replacement; failures cached or not; commands that time out, fail, or outlive their kill and come back late or never | last good data served; failures retried; slow commands spared |
| Accounting | `collector.go:314-406`, `parse.go` | none beyond a call | `accounting` | two passes over rows in any order, zero denominators, map iteration order | each job once, peak over all steps, sums equal the records' |
| Jobs endpoint | `main.go:88-114` | none | `GET /api/v1/jobs` | default and cap of the limit, filter before limit | a prefix of the matching jobs, never more than the limit |
| TRES profiles | `collector.go:189-259` | none beyond a call | `tresProfiles` | resources only configured or only allocated, over-allocation, two levels of totals | cluster equals the sum of its nodes, profiles partition the nodes |
| Queue | `collector.go:261-312`, `parse.go` | none beyond a call | `queue` | two loops that take rows of different lengths, names that hold the separator, times in three formats | groups add up; the series of running jobs agree with the groups |
| Other collectors | rest of `collector.go` | none | one row to a fixed set of samples | which labels tell two samples apart | no series twice, or said when |
| Parsing | `parse.go` | none | text to numbers | formats | what the aggregations need of it is in `Parse`; the rest is unit-tested |
| Rendering | `render.go` | none | text layout | none | the page has the samples and its own lines |
| HTTP server, start-up | `main.go` | the ticker | handlers, the archive goroutine, flags, routing | two mutexes, held over Slurm and over the disk; errors and restarts; who waits for what | each request waits for what it shows only; heads that were reported stay archived |
| Dashboard generator, deployment | `tools/dashboardgen`, `deploy`, `packaging`, `scripts` | none | build-time data | none | not modelled |

The hazards, at their lines and with the properties that cover them, are in
`PROJECT.json`, under `hazards`.

## 2. Modules

| module | models | role |
|---|---|---|
| `AuditTrail` | README.md:129-140 | abstract: a trail of links that only grows; with `Linear`, one chain |
| `HistoryStore` | `store.go` | detailed; implements `AuditTrail` |
| `HistoryStoreProofs` | | theorems about `HistoryStore` |
| `HistoryStoreChainProofs` | | what holds of it while only `OrderlyFaults` occur |
| `SharedSnapshot` | README.md:113-119 | abstract: one snapshot, atomically handed out and replaced |
| `Collector` | `collector.go:20-105`, `runner.go` | one `Collect`, task by task; extended by `SnapshotCache` |
| `SnapshotCache` | `cache.go` and its callers | detailed; implements `SharedSnapshot` |
| `SnapshotCacheProofs` | | theorems about `SnapshotCache` and `Collector`: the lock and ages |
| `SnapshotServiceProofs` | | the same: what is served, retried and spared; the refinement |
| `Accounting` | `accounting` | its three loops, one action per turn |
| `JobsEndpoint` | `/api/v1/jobs` | extends `Accounting`: answers come from the records it made |
| `JobsEndpointProofs` | | theorems about `Accounting` and `JobsEndpoint` |
| `TresProfiles` | `tresProfiles` | its loops |
| `Parse` | `parse.go` | conversions, used by `Accounting` and `Queue` |
| `Queue` | `queue` | its two loops |
| `Exposition` | the other collectors, `Collect`'s list of samples, `render.go` | composes `Queue` and `TresProfiles`; the page as a bag of series |
| `ExpositionProofs` | | theorems about `TresProfiles` and `Queue`, as `Exposition` runs them, and about the page |
| `SumTheorems` | | sums over finite sets, for the two modules of proofs about aggregates |
| `Exporter` | `main.go` | composes `HistoryStore` and `SharedSnapshot` (both by INSTANCE) with the handlers and the archive goroutine |
| `ExporterProofs` | | theorems about `Exporter`, and how its two components carry over to it |
| `MC...` | | instances for TLC |

Operators introduced by "Mutant" in a comment are deliberate mistakes: each is a
plausible variant of the definition behind it, and shows that a property would
notice it. Nothing refers to them.

### HistoryStore

Memory is `state` (`s.state`) and `lastWrite`; the disk is `log` (the
envelopes, in the order of the files), `torn` (the current file ends in part of
a line), `index` (`state.json` as the next `Open` reads it) and `stable` (the
same below the page cache). `pc`, `todo` and `snap` are where a call of
`AppendSnapshot` stands. `BeginSnapshot` takes the mutex; `AppendObservation`,
`SkipJob` and `AppendJob` are the calls of `append`, `SaveState` the end of
the call. `AppendFails` has the error returns of `append`: `json.Marshal`
(nothing changes), then open, write (part of a line is left) and sync (the line
is left), each of which has advanced `Sequence` but neither `LastHash` nor
`Jobs`. `Stop`, `Kill` and `PowerLoss` end the process: between calls, anywhere,
and anywhere with the index at any of the versions the disk may have, an empty
one included. `Faults` selects what may happen in an instance.

A digest is a fresh number, which stands for collision freedom: no two
envelopes have the same content. `legible` in an envelope says whether its line
is one JSON document; it is not if the line was written behind a fragment.

### Collector and SnapshotCache

`task[c][k]` is the goroutine of collector `k` in the `Collect` called by `c`:
`started`, `running` its command, `hung` in `cmd.Run` after the kill, `done`.
`Reuse`, `Launch`, `Succeed`, `Fail` are the paths through `slow`; a fast
collector has only the last three. `Hang` is a command that outlives its kill.
It may `Return` at any later time, with the error of the kill or, if the command
itself had exited with 0 and only a descendant kept its output open, without
one; what `slow` then does is the same as in time (`Result`, `Failure`). What a
collector returns is the age of the command output it was parsed from, so
staleness can be stated; an error is a flag. `start` is the age of `start` in
`Collect`, the snapshot's `collected_at` (`began`). `cancelled` is the set of
callers whose context is done; `slurm` says whether commands may fail on their
own. `good`, `tried` and `late` are history: the last good output, the
collectors whose command was launched for a snapshot, and those whose output or
failure is of a command that outlived its kill. The code does not know of the
latter, which is why it cannot treat them differently.

`Get` is `Request` (come to `mu.Lock`), then `Hit`, or `Miss`, the collection
and `Store`; `Finish` is the caller done with the result. `holder` is the mutex
where it is held across steps. `Cancel` is a client that goes away while it
waits or collects. `Tick` lets a unit of time pass when nothing but commands can
go on, which is the assumption that Go code takes no time next to Slurm.

### Accounting, JobsEndpoint, TresProfiles

A row is a record of parsed fields and may come in any order. The state is the
code's local variables; each turn of a loop is an action, and loops over Go maps
take their keys in any order. Ratios are pairs of numerator and denominator.
A group's numerator has what all its jobs used, its denominator only what those
asked for that asked for something (`Surplus` is the difference this makes).
`JobsEndpoint` answers one query after another over `jobs`. A profile's name,
a digest of the sorted configuration, is the configuration: `%g` prints the
shortest text that reads back as the number, so equal names mean equal
configurations up to collisions.

### Parse, Queue, Exposition

`Parse` takes a text as the numbers between its separators; `Printed` is how
Slurm writes a number of seconds, so that a round trip through `duration` can be
checked. `squeue`'s rows carry what was meant (`mem`, `elapsed`, ...), how many
columns were printed, and whether the name holds a `|`. `Column(r, i)` is the
column whose text the code finds in `r[i]`, and every field behind the name is
read through it: memory, GPUs, start, submit time, and the labels user and
nodelist. `qpass` is the loop `queue` is in.

In `Exposition` a sample is the pair of its name and its labels, and `samples` a
bag: with two copies of a pair, Prometheus keeps one value, and because
`sort.Slice` is not stable it need not be the same one each time. `queue` and
`tresProfiles` run as in their modules, interleaved in any order; `Collect`
joins their results with the series of the other collectors' rows, and `Page`
adds the lines of the renderer and of the `/metrics` handler. A row of the
collectors without loops is the labels that are made of it (`Printable`), and
`InputsAssumption` says of which commands Slurm prints a row once. `Parts` are
what samples are made of one at a time (a row of a collector, a running job of
`queue`, a node of `tresProfiles`, and once each what is left), `SeriesOf` the series a part adds to;
`Collect` counts for each series the parts that add to it.

### Exporter

`at[c]` is where a client or the archive goroutine stands: in `Get`, in
`Status`, in `write()`, or behind. The cache is `SharedSnapshot`, which
`SnapshotCache` implements (`sharing`): `Hit` is its hand-over, `Miss` and
`Collected` the two ends of a refresh. The archive is `HistoryStore` as it is:
`BeginAppend` and `DiskStep` are its actions, and `pc # "idle"` is its mutex
held. The argument of `AppendSnapshot` is evaluated before the mutex is taken,
so `"get"` comes before `"append"`; `ticker` is the channel of length one.
`Crash` ends the process at any point: the requests and the cache are gone, the
disk stays. `told` remembers the chain head of the last answer, `acked` the
snapshot that was archived last, until a call for another begins: numbers come
back after `Serials` refreshes, a snapshot does not.

## 3. Plan

Order: what can lose or corrupt durable data first, then what is concurrent,
then what computes.

1. Done: `AuditTrail`, `HistoryStore`, its five runs, its proofs.
2. Done: `Collector`, `SharedSnapshot`, `SnapshotCache`, its four runs, proofs
   of typing, single flight and recency.
3. Done: `Accounting`, `JobsEndpoint`, `TresProfiles`, with a run each for the
   first two together and for the third.
4. Done: `Exporter`, the cache's abstraction and `HistoryStore` with the
   handlers.
5. Done: `Parse`, `Queue`, and the page (`Exposition`).
6. Directory entries of new JSONL files, lines whose `Sync` failed, and power
   loss of either, in `HistoryStore`.
7. Done: theorems on `NoRepeatedEvent` and `ImplementsAuditChain` under the
   orderly faults, and on what clients of `Exporter` were told.
8. Done: theorems on what the cache serves and the refinement of
   `SharedSnapshot`; on the aggregations and the jobs endpoint, for any output
   of Slurm's commands and any request.
9. Done: a theorem on `OnlySharesAndDiagnosticsRepeat`, by counting parts instead
   of joining bags; that the process preserves what is proved of the archive and
   uses the cache as `SharedSnapshot` allows.

## 4. Runs

| run | question | result |
|---|---|---|
| `all_faults` | every fault at once, two jobs, three snapshots | holds: `IInv`, `DedupNeverLosesAnEvent`, `AcknowledgedStatusIsTrue`, `AcknowledgedSnapshotIsDurable`, refinement of `AuditTrail` |
| `orderly` | errors of marshal, open, write and index (`OrderlyFaults`), restarts after calls that succeeded; no failed sync, no kill | holds: `NoRepeatedEvent`, refinement of the linear `AuditTrail` |
| `kill_forks` | the same chain with a kill anywhere | violated |
| `torn_line` | the parent of a legible record is legible | violated |
| `power_loss` | the index can be read after a power loss | violated |
| `sharing` | two cancellable requests and the archive, one fast collector, one slow whose command may outlive its kill and come back late | holds: `SingleFlight`, `HandedOutDataIsRecent`, `LastGoodDataIsServed`, `FailedRefreshIsRetried`, `SlowTierIsSpared`, refinement of `SharedSnapshot` |
| `progress` | liveness with commands that end | holds: `EveryGetReturns`, `ErrorsDoNotOutliveTheirCause` |
| `first_failure` | README.md:117, of every failed refresh | violated |
| `hung_command` | `EveryGetReturns` with a command that outlives its kill | violated |
| `accounting` | rows of up to three jobs and their steps, in all orders; queries over the result | holds |
| `tres` | up to three nodes of two profiles; queues of up to three rows; small outputs of the other commands | holds: the totals and profiles of `TresProfiles`, `QueueAddsUp`, `JobSeriesAgreeWithQueue`, `OnlySharesAndDiagnosticsRepeat` |
| `exporter` | one scrape, one reader, one client of the status page and the archive, with failing opens and kills | holds: `ToldHeadIsArchived`, `ToldHeadEndsASnapshot`, `SameSnapshotAddsNoEvent`, and the liveness properties below |

### What `exporter` says

Which request needs what, as liveness with the outside world as a premise:
`SlurmAnswers` (a collection that has begun ends) and `DiskAnswers` (a call of
the archive's to the disk ends, with or without an error).

| request | returns if | property |
|---|---|---|
| `/api/v1/snapshot`, `/api/v1/jobs` | Slurm answers | `PagesNeedNoDisk` |
| `/api/v1/history/status` | the disk answers | `StatusNeedsNoSlurm` |
| `/metrics` | both do | `ScrapesReturn` |

The archive's own rule, `ArchiveKeepsWriting`, is that after a failed write
another is begun. None of them holds if the two mutexes were nested or one were
kept on an error.

### What `tres` says of the page

A series is on the page twice in two cases only: the shares of an account with
several users while `labels.users` is off, which is the default, and
`scheduler_last_queue_length`, which `sdiag` prints in two sections. Both come
from labels the exporter leaves out. Two running jobs always have series of
their own, because `job_id` stands in front of the name.

A job whose name holds a `|`, which `squeue` does not quote, is read from
shifted fields. Its group has its state, partition, account, QOS, reason, nodes,
CPUs and times right, and its memory and GPUs as zero, as have its own series:
that is all `QueueAddsUp` and `JobSeriesAgreeWithQueue` say of it. With
`metrics.per-job` the job's series also have a piece of the name as `job_name`,
the rest of it as `user`, and the start time as `nodelist`; their start time is
the submit time, and there is no wait. The model has all of this but `job_name`
(`SeriesOfJob`); nothing in the code or its documentation forbids it, so no
property does.

### What `accounting` says of efficiencies

A group's efficiency is not an average of its jobs' when some have no
denominator: a job without a memory request reports no memory efficiency, but
its peak is in the group's numerator (`collector.go:379`), and so for the CPU
time of a job that has no elapsed time. The group is then above the average of
the others by that surplus over their requests, and may be above every job in
it; it is never below all of them. `AggregateIsAverageAndSurplus` says this
exactly.

### What `sharing` says of ages

A snapshot's data is never older than its `collected_at`, except for the slow
tier, whose entries may be `SlowRefresh` and one command older. How old
`collected_at` itself is has a bound, `TTL + Timeout`, only if no command of the
collection outlived its kill. `Get` counts a snapshot's age from when the
collection came back (`cache.go:27`), so after one that came back late, what the
other collectors brought before is handed out as new for another `TTL`, without
an error; `slow` dates its entries in the same way (`collector.go:52`). A client
of the JSON pages can tell from `collected_at` in the first case; in the second
nobody can.

### What the violations say

* `kill_forks`. `state.json` is replaced after all records of a snapshot. A
  process killed in between resumes from the older head, and its next record
  has the same parent as a record already there. README.md:138 has the chain
  "continue after restart". The trail is still rooted: `all_faults` shows that
  every link leads to a record that is there, so a reader can tell a fork from
  a missing record. Events may be repeated for the same reason.
* `torn_line`. After a write that left part of a line, the next record shares
  its line. `append` returns nil and the chain goes on from a record no reader
  can parse.
* `power_loss`. `.state.tmp` is renamed without a sync; an empty `state.json`
  makes `Open` fail on each start.
* `first_failure`. `slow` stores a failure as an entry when there is no older
  one, and serves it until `SlowRefresh` is over. Where there is good data the
  claim holds: `FailedRefreshIsRetried`.
* `hung_command`. `cmd.Run` has no `WaitDelay`; a child that keeps the output
  open or cannot be killed keeps `Cache.mu` locked, until it goes away, if it
  does. README.md:105 promises a partial snapshot when one command fails.

Other statements of the documentation that the code does not keep, seen while
modelling and not given a run of their own:

* README.md:119, "the job endpoint reads the cache and never performs its own
  Slurm query": its `Get` collects when the snapshot has expired.
* README.md:140, "last successful write": `lastWrite` is set before `saveState`
  and stays set when that fails.
* README.md:140, disk writes "never on the Prometheus request path": `/metrics`
  calls `Status`, which waits for the mutex `AppendSnapshot` holds over its
  writes and syncs. `ScrapesReturn` therefore has `DiskAnswers` as a premise.
* `main.go:80` describes the sequence as the chain's latest: it runs ahead of it
  after an append that failed to open or write its file.
* `collector.go:304` describes `slurm_job_start_time_seconds` as "Job start Unix
  time": of a job with a `|` in its name it is the submit time.
* README.md:136, no repeated copies: not after a kill or a failed sync.

### Bounds

* `MaxSnapshots = 3`: one call to make a state, one to fail or be cut short, one
  to build on it. Two keys and two fingerprints: a loop with a first and a last
  job, and a job that changes and changes back. Two calls for the violations.
  `orderly` and `torn_line` may end in a state with nothing left to do, because
  the calls are bounded and a restart need not be possible there
  (`CHECK_DEADLOCK FALSE`); `tres` ends when the function has returned.
* Ages are not told apart beyond `MaxAge`, which exceeds every bound a property
  speaks of (assumed in `CacheAssumption`). `TTL` and `SlowRefresh` are small
  numbers with the order they have by default (`Timeout <= TTL < SlowRefresh`).
  Snapshots are numbered modulo `Serials`, 2 in `sharing` and 3 in the others: no
  time passes while a caller uses what it was handed, so it is enough that a
  snapshot differs from the next.
* `sharing` lets the slow tier's command hang, which takes in the ways to grow
  old that are told apart: the fast collector waits for it, and its own entry is
  late. A fast one, which has no entry, hangs in `hung_command`; the theorems are
  for any `Hangs`.
* Each caller calls `Get` at most once in a unit of time (`asked`). More calls
  would be hits, or expired snapshots with `TTL = 0`, which no run uses.
* One collector per tier: collectors of a tier do not interact except through
  `wg.Wait`, for which one of each kind is enough to be first or last.
* Listings of at most four rows: a job, two steps and another job, in any
  order; `DefaultLimit = 1` and `MaxLimit = 2` stand for 1000 and 10000, so
  that both cut lists of three jobs.
* `exporter`: one client of each kind, which comes again and again; clients of a
  kind interact through the two mutexes only, and each mutex has at least two
  contenders of different kinds. Two snapshots archived, so that one can fail or
  be cut short and be followed by another; one job, which changes each time; two
  serial numbers; failures of the open and kills. The disk errors that differ
  only in what they leave behind are in `all_faults`. The bound on snapshots lets
  the goroutine end (`CHECK_DEADLOCK FALSE`).
* `tres`: the collectors share nothing, so the output of one command is varied
  at a time: all listings of nodes, all queues of up to two rows of 51 kinds and
  of three that are complete, and up to three shares and two diagnostics with
  the other commands' rows fixed. Elapsed times lie on both sides of each place
  where the format changes (59, 3599, 3600, 90061 seconds).

### Fairness

Stated in `SnapshotCache!Fairness`. Goroutines that can run do, and commands
end (weak fairness of `Store`, `Finish` and the collectors' steps). A waiter
takes the mutex if it is free again and again (strong fairness): Go's
`sync.Mutex` hands itself to a waiter that has waited more than a millisecond.
Time passes (strong fairness of `Tick`), and the archive's ticker keeps calling.
Requests are not assumed to come, nor clients to stay. `Return` has no fairness:
a command that outlived its kill may come back or not. `HistoryStore` has safety
properties only.

Stated in `Exporter!Fairness`. The archive goroutine goes on where it can, and its
ticker ticks (weak fairness); whoever waits for one of the two mutexes gets it if
it is free again and again (strong fairness, as above). `Collected` and
`DiskStep` have none: that a collection or a disk call ends is a premise of the
properties that need it, and stays visible there. Clients need not come, and a
process may be killed at any time; a request that dies with it counts as over.

## 5. Proofs

For all values of the constants that satisfy the assumptions of their
modules: `StoreAssumption` and `IndexAssumption` (the archive);
`CollectorAssumption`, `CacheAssumption`, and `EntryAssumption` and
`SnapshotAssumption`, which say that "no entry" and "no snapshot" are neither an
entry nor a snapshot (the cache); `ExporterAssumption` and `ArchiveAssumption`
(the process; the second repeats what the archive assumes); `AccountingAssumption`
and `EndpointAssumption`: rows are rows, the limits positive;
`ListingsAssumption`: `scontrol show node` prints a node once; `InputsAssumption`:
the inputs are listings and rows, and of which commands a row is printed once
(only the theorem on the page needs the latter).

| theorem | statement |
|---|---|
| `HistoryStoreProofs!TypeCorrect` | `[]TypeOK` |
| `HistoryStoreProofs!InvariantHolds` | `[]IInv` |
| `HistoryStoreProofs!DedupIsSafe` | `[]DedupNeverLosesAnEvent` |
| `HistoryStoreProofs!NilMeansDurable` | `[]AcknowledgedSnapshotIsDurable` |
| `HistoryStoreProofs!StatusIsTrue` | `[]AcknowledgedStatusIsTrue` |
| `HistoryStoreProofs!TrailImplemented` | `Spec => ImplementsAuditTrail` |
| `HistoryStoreChainProofs!NoEventTwice` | `[]NoRepeatedEvent`, if `Faults \subseteq OrderlyFaults` |
| `HistoryStoreChainProofs!ChainImplemented` | `Spec => ImplementsAuditChain`, if `Faults \subseteq OrderlyFaults` |
| `SnapshotCacheProofs!TypeCorrect` | `[]TypeOK`; no command runs past its timeout |
| `SnapshotCacheProofs!OneCommandOfAKind` | `[]SingleFlight` |
| `SnapshotCacheProofs!DataIsRecent` | `[]HandedOutDataIsRecent`: data is as recent as `collected_at` and its tier allow; `collected_at` is within `TTL + Timeout` if no command of the collection outlived its kill |
| `SnapshotServiceProofs!LastGoodDataHolds` | `[]LastGoodDataIsServed` |
| `SnapshotServiceProofs!RetriesFailedRefresh` | `Spec => FailedRefreshIsRetried` |
| `SnapshotServiceProofs!SparesTheSlowTier` | `Spec => SlowTierIsSpared` |
| `SnapshotServiceProofs!RefinesSharedSnapshot` | `Spec => ImplementsSharedSnapshot` |
| `JobsEndpointProofs!AccountingTypes` | `EndpointSpec => []TypeOK` |
| `JobsEndpointProofs!JobsAreCountedOnce` | `EndpointSpec => []EachJobOnce` |
| `JobsEndpointProofs!PeaksAreOverAllSteps` | `EndpointSpec => []PeakIsOverAllSteps` |
| `JobsEndpointProofs!GroupSumsAddUp` | `EndpointSpec => []GroupsAddUp` |
| `JobsEndpointProofs!EfficiencyIsAverageAndSurplus` | `EndpointSpec => []AggregateIsAverageAndSurplus` |
| `JobsEndpointProofs!AnswersAreBounded` | `EndpointSpec => []AnswerIsBounded` |
| `ExpositionProofs!TresTypes` | `PageSpec => []TypeOK` |
| `ExpositionProofs!ClusterIsTheSum` | `PageSpec => []ClusterIsTheSumOfItsNodes` |
| `ExpositionProofs!MissesNoResource` | `PageSpec => []NoResourceIsMissed` |
| `ExpositionProofs!ProfilesPartition` | `PageSpec => []ProfilesPartitionNodes` |
| `ExpositionProofs!QueueTypes` | `PageSpec => []QueueTypeOK` |
| `ExpositionProofs!QueueSumsAddUp` | `PageSpec => []QueueAddsUp` |
| `ExpositionProofs!SeriesPerJobAgree` | `PageSpec => []JobSeriesAgreeWithQueue` |
| `ExpositionProofs!OnlyTheseRepeat` | `PageSpec => []OnlySharesAndDiagnosticsRepeat` |
| `ExpositionProofs!PrintedIsRead` | `duration(Printed(n)) = n` for every number of seconds |
| `ExporterProofs!TypeCorrect` | `[]TypeOK` |
| `ExporterProofs!ToldHeadsStay` | `[]ToldHeadIsArchived` |
| `ExporterProofs!ToldHeadsEndSnapshots` | `Spec => ToldHeadEndsASnapshot` |
| `ExporterProofs!SameSnapshotIsQuiet` | `Spec => SameSnapshotAddsNoEvent` |
| `ExporterProofs!ArchiveInProcess` | `Spec => Proved!Spec`: the process does to the archive what `HistoryStore` does |
| `ExporterProofs!ArchiveKeepsItsPromises` | `Spec` implies the archive's four promises: `DedupNeverLosesAnEvent`, `AcknowledgedSnapshotIsDurable`, `AcknowledgedStatusIsTrue`, `ImplementsAuditTrail` |
| `ExporterProofs!ArchiveIsOneChain` | `Spec` implies `NoRepeatedEvent` and `ImplementsAuditChain`, if `Faults \subseteq OrderlyFaults` |
| `ExporterProofs!CacheInProcess` | every step of `Spec` is one of `SharedSnapshot` or a crash back to its `Init` |

The archive. None of the properties is inductive: an error or a crash in the
next step uses an index the property does not mention. `IInv` speaks of the
three places a job index can be (memory, `state.json`, its stable copy) and says
that each is `Resumable`: its last hash is in the archive under a sequence
number not above its own, and each event it holds has a readable record. A step
adds to the archive at most one line with a new hash (`HashesAreOld`), so what
was resumable remains so (`ResumableKept`), and every index after a step is an
index before it, an empty one, or the memory after a record was written. Job
events are legible because an observation always precedes them in a call
(`LoopKeepsUp`: `~torn`). The refinement follows: the parent of a new record is
the hash of a resumable state.

`HeadIsCurrent` is the part of `IInv` for what `Status` reports: from the first
record of a call on, the memory's sequence number and hash are those of the
archive's last record. An error ends the call, so the loop never goes on from a
state in which they disagree. The count of jobs follows from
`AcknowledgedSnapshotIsDurable` and needs the set of keys to be finite, which
`StoreAssumption` says.

The archive without kills and failed syncs. `OrderlyFaults` has stops after
calls that succeeded, and the errors that leave nothing behind but a fragment or
an old index. What the next call goes on from is `View`: the
memory while the process is up, what `Open` will read while it is not.
`OrderlyInv` says that this view names the archive's last record and the last
event of each job (`ViewIsLatest`), and that it survives a stop, because index
and memory agree whenever one may happen (`StopsSettled`). Each step then either
leaves archive and view as they are (`Quiet`) or adds one envelope that the view
names afterwards (`Adds`); an event is added only if it differs from the view's.
The condition on `Faults` cannot be dropped: `kill_forks` is a chain that forks
without it.

The process. The steps of `Exporter` that touch the archive are `HistoryStore`'s
(`ArchiveMoves`), so its `IInv` holds here as well. A head is reported only
while the archive's mutex is free, when the memory's head is in the archive, and
records stay where they are. While a snapshot's events are written, the memory's
head is one that no status page has shown yet (`ToldIsPast`): the snapshot's
observation came after the mutex was taken, under a new hash, and each event
has a new hash in turn. `AckedInv` has the jobs of the snapshot archived last in
memory, so the loop over the same snapshot finds each of them unchanged; a call
for it that fails changes none, and a call for another one ends the claim.

The two components in the process. `ArchiveMoves` makes every behaviour of
`Exporter` one of `HistoryStore` on the archive's variables
(`ArchiveInProcess`), so the theorems about the archive alone, temporal ones and
refinements included, hold of it among the handlers and the cache: what is
assumed there of its caller, one call at a time with a snapshot's jobs, the
process provides. The cache is used through its promise: between two starts only
`SharedSnapshot`'s steps are taken (`CacheInProcess`), and those are what
`SnapshotCache` implements (`RefinesSharedSnapshot`).

The cache. `LockInv` ties tasks to the lock's holder, which gives single
flight. Recency goes through `RecencyInv`: a bound on the age of the data for
each place it passes through (the slow entry, the task, the cached snapshot,
the snapshot handed out). Results wait for the slowest command of their own
collection, so their bound refers to the age of its start, whatever that is:
commands are launched when it begins. `CollectionsEnd` bounds this age by
`Timeout` where no command outlived its kill, and the claim on `collected_at`
follows; a collection for which one did is stored like any other, with an age
that has no bound. The one piece of data without a claim is an entry of `slow`
whose command came back late (`ReusedLate`): it counts from then.

What the cache serves. `GoodInv` follows a slow collector's last good output
through the entry of `slow`, the task that was started from it and the snapshot:
each place has it, or has not been filled since. A task may look at an entry
before another replaces it only if two collections overlap, which `LockInv`
excludes. `RetryInv` says what a failure means: a task that failed and still has
data to show found an entry that had run out, and a failure leaves that entry as
it is, so the next collection finds it run out again (`ErrorsHaveRunOut`). For
the first failure there is no such entry, which is where `first_failure` comes
in. `SlowTierIsSpared` needs in addition that an entry is at most as old as
the output it holds. The refinement maps the caller that collects to the one that
refreshes, and the steps of the collectors to stutters; `Tick`, in both, moves
the same ages.

Sums. The community modules define a sum by a fold that takes one member after
the other with `CHOOSE`. `SumTheorems` shows that the choice does not matter:
if a claim fails for some subset of a finite set it fails for a smallest one
(`SmallestSubset`), and taking a member out of that one gives a smaller. All
else about sums goes back to `SumRemove`.

Accounting. `PeaksInv` has `maxRSS` as the maximum over the step rows seen so
far; from the second loop on these are all. `RecordsInv` says that the record of
the n-th job row is `JobRecord` of that row, where "n-th" counts the job rows up
to it (`Place`), and `GroupsInv` that each group has the sums over the records
with its key. An aggregate's numerator is the sum over the members with a
denominator and the surplus of the others (`SumSplit`); its denominator is that
of the former alone. That what is left is an average is then arithmetic: if
every member's ratio were below that of the sums, so would be the sum of
products the two are compared by (`SomeRatioIsAtMost`, `SomeRatioIsAtLeast`,
`RatioIsExplained`).

The jobs endpoint. `AnswerInv` (`Collected`): while the loop is at job `at` it
has taken exactly the matching jobs in front of `at`, at their places, and there
is room for one more; once it is past the end the answer has all of them or as
many as the limit allows. That there is room is what makes the check behind the
append sufficient, and needs a limit of at least one, which `Limit` never goes
below.

TRES profiles. Between two turns of the inner loop a resource is accounted for on
all nodes but, perhaps, the current one: `Seen(r)` are the lines whose turn for
`r` is over. `TotalsInv` has a resource's totals as sums over these lines and over
the node samples alike, which needs that a node is printed once, because
`node_tres` would have one sample and the totals two. The floor at zero is applied
to each node and to the cluster: that the cluster then has at most as much
available as its nodes, and less only if a node is overallocated, is `SumAtMost`
and `SumLess`.

Queue. `SumsInv` and `JobsInv` describe the two loops after some of the rows.
That the seconds which were printed are the seconds that are summed is
`PrintedIsRead`: `duration(Printed(n)) = n` for every `n`, by division with
remainder in each of the formats. The agreement of job and group series is
`SumByGroup` over the groups of the state `RUNNING`.

The page. `Owner` gives each name of a series the kind of the parts that make
it: no collector uses a name of another, nor the renderer one of theirs
(`PartOwns`, `OthersOwned`). Two parts of one series are therefore of one kind,
and the labels of a series tell which part it is of, by what `InputsAssumption`
says of each command: the node and the partition of a node's row, the ID of a
running job (`JobsAreTold`), all labels of most others (`SharedRepeats`). That leaves the shares, which are labelled with
less than a row has, and the keys of `sdiag`; `RepeatsAreShared` is the other
direction, that these do repeat. Since a sample's count is the number of its
parts, of which there are finitely many (`PartsAreFinite`), it is above one
exactly then (`PageRepeats`). The assumption on nodes cannot be weakened to the
node: with `NodeOnly` for `NodeLabels` the run finds a node in two partitions
twice on the page.

Only model-checked: liveness (`EveryGetReturns`, `ErrorsDoNotOutliveTheirCause`
and the four properties of `Exporter` with a premise), which is beyond the
prover. All invariants and action properties of the runs are theorems.

## 6. What is left out

* Text: the parsing of single numbers, byte sizes and GPU lists, the layout of
  the page, escaping. A job name with more than one `|`, and the label
  `job_name`. NaN and infinities that `strconv.ParseFloat` would accept, except
  that `append` may refuse a snapshot.
* The values of the samples the collectors without loops make, and the cluster
  label, which all samples share.
* Flags and environment variables, routing, the answers of `/` and `/-/healthy`.
* The dashboard generator and the deployment files: they are used at build or
  installation time and keep no state.
* A JSONL file's directory entry; that a line whose `Sync` failed may be lost
  later; disks that lose what they acknowledged.
* The daily rotation, except that a new file starts without a fragment.
* Clock steps: time is monotonic.
* Two jobs of one snapshot with the same key, which `sacct` does not print.
* Panics, memory limits, and the growth of `state.Jobs`.
* Configuration values `Validate` does not check: `cache.ttl` and
  `history.interval` of zero or less.
