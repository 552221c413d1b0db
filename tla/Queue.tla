-------------------------------- MODULE Queue --------------------------------
(***************************************************************************)
(* internal/slurm/collector.go, queue: from the rows of squeue to sums per *)
(* group of jobs and, with metrics.per-job, to series of each running job. *)
(*                                                                         *)
(* A row is what strings.Split makes of a line: a '|' in the job's name,   *)
(* which squeue does not quote, moves the fields behind it by one.  The    *)
(* memory is then read from the user's name (no amount: zero), the GPUs    *)
(* from the memory (no GPUs), the start from the submit time, the submit   *)
(* time from the GPUs (no time: no wait); the label user gets the rest of  *)
(* the name, and the label nodelist the start.                             *)
(*                                                                         *)
(* Abstractions.  A name holds at most one '|': of more, pieces of the name*)
(* would be read as the memory.  A group is its state and the rest of its  *)
(* labels.  A running job has a submit and a start time.  Of the labels of *)
(* a job, user and nodelist are the columns they are read from, and the    *)
(* job's name is left out.                                                 *)
(***************************************************************************)
EXTENDS Parse, FiniteSetsExt

CONSTANTS
    QueueJobs,    \* job IDs
    QueueLabels,  \* partition, account, QOS and reason of a row
    QueueStates,  \* job states, in their base form
    Unlimited     \* the limit of a job that has none

(***************************************************************************)
(* columns  fields squeue printed: it is asked for 17                      *)
(* bars     separators in the job's name                                   *)
(* mem, per the memory field: an amount, per "job", "cpu" (suffix c) or    *)
(*          "node" (n)                                                     *)
(* elapsed, limit  seconds, before Slurm prints them                       *)
(* submit, wait    the submit time, and the seconds from there to the start*)
(***************************************************************************)
QueueRows ==
    [job : QueueJobs, labels : QueueLabels, state : QueueStates,
     nodes : Nat, cpus : Nat, mem : Nat, per : {"job", "cpu", "node"},
     gpus : Nat, elapsed : Nat, limit : Nat \cup {Unlimited},
     submit : Nat, wait : Nat, columns : 0 .. 17, bars : {0, 1}]

VARIABLES
    squeue,      \* the lines of squeue's output
    includeJobs, \* metrics.per-job
    qpass,       \* the loop that is running
    qnext,       \* the row it comes to
    sums,        \* the map m: sums by group
    jobSeries    \* the job_... samples, by row

queueVars == << squeue, includeJobs, qpass, qnext, sums, jobSeries >>

-----------------------------------------------------------------------------
(* Fields of a row.                                                        *)

\* The first columns, counted from 0 as in the code, up to the job's name.
NameColumn == 10

Fields(r) == r.columns + (IF r.columns > NameColumn THEN r.bars ELSE 0)

\* The column whose text is in r[i].
Column(r, i) == IF i > NameColumn THEN i - r.bars ELSE i

KeyOf(r) == << r.state, r.labels >>

MemoryOf(r) ==
    IF Column(r, 12) = 12 THEN memoryAllocation(r.mem, r.per, r.cpus, r.nodes)
                          ELSE 0

GpusOf(r) == IF Column(r, 13) = 13 THEN r.gpus ELSE 0

\* What time.Parse reads in r[i]: nothing if that is not a time.
TimeIn(r, i) == CASE Column(r, i) = 14 -> {r.submit}
                  [] Column(r, i) = 15 -> {r.submit + r.wait}
                  [] OTHER -> {}

ElapsedOf(r) == duration(Printed(r.elapsed))
LimitOf(r) == duration(IF r.limit = Unlimited THEN Word ELSE Printed(r.limit))

Empty == [jobs |-> 0, nodes |-> 0, cpus |-> 0, elapsed |-> 0, limit |-> 0,
          memory |-> 0, gpus |-> 0]

\* m[k], made on first sight.
SumsAt(k) == IF k \in DOMAIN sums THEN sums[k] ELSE Empty

Added(a, r) ==
    [jobs |-> a.jobs + 1, nodes |-> a.nodes + r.nodes, cpus |-> a.cpus + r.cpus,
     elapsed |-> a.elapsed + ElapsedOf(r), limit |-> a.limit + LimitOf(r),
     memory |-> a.memory + (IF Fields(r) >= 14 THEN MemoryOf(r) ELSE 0),
     gpus |-> a.gpus + (IF Fields(r) >= 14 THEN GpusOf(r) ELSE 0)]

\* Mutants: the loop takes rows that lack the last columns; it takes jobs that
\* still hold their nodes.
RunsOrLacksFields(r) == Fields(r) >= 14 /\ r.state = "RUNNING"
RunsOrCompletes(r) == Fields(r) >= 17 /\ r.state \in {"RUNNING", "COMPLETING"}

\* What the second loop takes.
Runs(r) == Fields(r) >= 17 /\ r.state = "RUNNING"

-----------------------------------------------------------------------------

\* squeue has printed the rows of output.
QueueInit(output, perJob) ==
    /\ squeue = output
    /\ includeJobs = perJob
    /\ qpass = "rows"
    /\ qnext = 1
    /\ sums = [k \in {} |-> Empty]
    /\ jobSeries = [i \in {} |-> Empty]

NextRow ==
    /\ qnext <= Len(squeue)
    /\ qnext' = qnext + 1
    /\ UNCHANGED << squeue, includeJobs, qpass >>

PassOverRow ==
    /\ qpass = "rows"
    /\ NextRow
    /\ Fields(squeue[qnext]) < 9
    /\ UNCHANGED << sums, jobSeries >>

AddRow ==
    /\ qpass = "rows"
    /\ NextRow
    /\ LET r == squeue[qnext]
       IN  /\ Fields(r) >= 9
           /\ sums' = [k \in DOMAIN sums \cup {KeyOf(r)} |->
                          IF k = KeyOf(r) THEN Added(SumsAt(k), r) ELSE sums[k]]
    /\ UNCHANGED jobSeries

\* The loop over m only copies it out.
EndRows ==
    /\ qpass = "rows"
    /\ qnext > Len(squeue)
    /\ qpass' = IF includeJobs THEN "jobs" ELSE "returned"
    /\ qnext' = 1
    /\ UNCHANGED << squeue, includeJobs, sums, jobSeries >>

PassOverJob ==
    /\ qpass = "jobs"
    /\ NextRow
    /\ ~Runs(squeue[qnext])
    /\ UNCHANGED << sums, jobSeries >>

JobLabels(r) == [job_id |-> r.job, group |-> r.labels,
                 user |-> Column(r, 11), nodelist |-> Column(r, 16)]

\* The samples of a job: its labels and the values.  There is a start, and a
\* wait, if the times they need could be read.
SeriesOfJob(r) ==
    [labels |-> JobLabels(r), nodes |-> r.nodes, cpus |-> r.cpus,
     memory |-> MemoryOf(r), gpus |-> GpusOf(r), elapsed |-> ElapsedOf(r),
     start |-> TimeIn(r, 15),
     wait |-> {s - t : s \in TimeIn(r, 15), t \in TimeIn(r, 14)}]

EmitJob ==
    /\ qpass = "jobs"
    /\ NextRow
    /\ LET r == squeue[qnext]
       IN  /\ Runs(r)
           /\ jobSeries' = [i \in DOMAIN jobSeries \cup {qnext} |->
                               IF i = qnext THEN SeriesOfJob(r) ELSE jobSeries[i]]
    /\ UNCHANGED sums

QueueReturns ==
    /\ qpass = "jobs"
    /\ qnext > Len(squeue)
    /\ qpass' = "returned"
    /\ UNCHANGED << squeue, includeJobs, qnext, sums, jobSeries >>

QueueNext ==
    PassOverRow \/ AddRow \/ EndRows \/ PassOverJob \/ EmitJob \/ QueueReturns

-----------------------------------------------------------------------------
(* Properties.                                                             *)

JobSamples ==
    [labels : [job_id : QueueJobs, group : QueueLabels, user : {10, 11},
               nodelist : {15, 16}],
     nodes : Nat, cpus : Nat, memory : Nat, gpus : Nat, elapsed : Nat,
     start : SUBSET Nat, wait : SUBSET Nat]

\* Types, and no field is read that a row does not have.
QueueTypeOK ==
    /\ squeue \in Seq(QueueRows)
    /\ includeJobs \in BOOLEAN
    /\ qpass \in {"rows", "jobs", "returned"}
    /\ qnext \in 1 .. Len(squeue) + 1
    /\ DOMAIN sums \subseteq QueueStates \X QueueLabels
    /\ \A k \in DOMAIN sums : sums[k] \in [DOMAIN Empty -> Nat]
    /\ \A i \in DOMAIN jobSeries : /\ Fields(squeue[i]) > 16
                                   /\ jobSeries[i] \in JobSamples

\* What the job of a row counts for, as the code has it: the memory and the GPUs
\* of a job whose name holds a separator, and of a row that lacks them, are zero.
Counts(r) ==
    LET plain == r.bars = 0 /\ r.columns >= 14
        requested == CASE r.per = "cpu" -> r.mem * r.cpus
                       [] r.per = "node" -> r.mem * r.nodes
                       [] OTHER -> r.mem
    IN  [jobs |-> 1, nodes |-> r.nodes, cpus |-> r.cpus, elapsed |-> r.elapsed,
         limit |-> IF r.limit = Unlimited THEN 0 ELSE r.limit,
         memory |-> IF plain THEN requested ELSE 0,
         gpus |-> IF plain THEN r.gpus ELSE 0]

\* The rows with the fields of a job, and of these the ones of a group.
Jobs == {i \in DOMAIN squeue : Fields(squeue[i]) >= 9}
JobsOf(k) == {i \in Jobs : KeyOf(squeue[i]) = k}

\* The groups partition the jobs: what each reports is the sum over its jobs,
\* of times after Slurm printed them and parse.go read them.
QueueAddsUp ==
    qpass # "rows" =>
        /\ DOMAIN sums = {KeyOf(squeue[i]) : i \in Jobs}
        /\ \A k \in DOMAIN sums, f \in DOMAIN Empty :
              sums[k][f] = SumFunction([i \in JobsOf(k) |-> Counts(squeue[i])[f]])

\* The groups of running jobs.
Running == {k \in DOMAIN sums : k[1] = "RUNNING"}

\* A dashboard that adds up the series of the running jobs sees what the group
\* series say of the state RUNNING, as long as squeue prints the columns it is
\* asked for; without metrics.per-job there are none.  A separator in a name
\* does not make the two disagree: it takes the same from both.
JobSeriesAgreeWithQueue ==
    qpass = "returned" =>
        IF ~includeJobs THEN DOMAIN jobSeries = {}
        ELSE (\A i \in DOMAIN squeue : squeue[i].columns = 17) =>
                 \A f \in {"nodes", "cpus", "elapsed", "memory", "gpus"} :
                     SumFunction([k \in Running |-> sums[k][f]])
                         = SumFunction([i \in DOMAIN jobSeries |-> jobSeries[i][f]])
=============================================================================
