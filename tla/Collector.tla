----------------------------- MODULE Collector -----------------------------
(***************************************************************************)
(* internal/slurm/collector.go, lines 20-105, with runner.go: one Collect  *)
(* starts a goroutine per collector, each of which runs one Slurm command  *)
(* under a timeout; the wrapper slow() puts a cache of SlowRefresh in      *)
(* front of the expensive ones.                                            *)
(*                                                                         *)
(* Nothing in the code of Collect keeps two calls apart, so tasks are      *)
(* indexed by the caller; SnapshotCache adds the lock that does.           *)
(*                                                                         *)
(* Abstractions.  What a collector parses out of a command's output is the *)
(* age of that output, counted from the launch of the command and capped   *)
(* at MaxAge; an error is a flag.  Time is a clock of ages: Tick makes     *)
(* everything one unit older.  The goroutines' own work takes no time,     *)
(* only commands do: up to Timeout, or longer when one outlives its kill.  *)
(***************************************************************************)
EXTENDS Naturals

CONSTANTS
    Callers,     \* who may call Collect
    Fast,        \* collectors run each time: nodes, partitions, queue
    Slow,        \* collectors wrapped by slow()
    SlowRefresh, \* cfg.SlowRefresh
    Timeout,     \* cfg.Timeout
    Hangs,       \* collectors whose command may not return when it is killed
    NoData,      \* a collector returned no samples
    NoEntry,     \* c.slowData has no entry
    MaxAge       \* bound: ages are not told apart beyond it

Ages == 0 .. MaxAge
Collectors == Fast \cup Slow

ASSUME CollectorAssumption ==
    /\ Fast \cap Slow = {}
    /\ SlowRefresh \in Nat \ {0}
    /\ Timeout \in Nat \ {0}
    /\ Hangs \subseteq Collectors
    /\ MaxAge \in Nat
    /\ NoData \notin Ages

VARIABLES
    task,      \* task[c][k]: the goroutine of collector k in c's Collect
    start,     \* start[c]: the age of start in c's Collect, NoData outside it
    slowData,  \* c.slowData
    cancelled, \* the callers whose context is done
    slurm,     \* "up": commands succeed in time; "down": they may fail
    good       \* history variable: age of the latest successful output

collectorVars == << task, start, slowData, cancelled, slurm, good >>

Outputs == Ages \cup {NoData}

\* A slowResult: since is time.Since(at), capped at SlowRefresh.  late is not
\* in the code's: the command that brought the data outlived its kill.
Entries == [since : 0 .. SlowRefresh, data : Outputs, err : BOOLEAN,
            late : BOOLEAN]

ASSUME EntryAssumption == NoEntry \notin Entries

Phases == {"off", "started", "running", "hung", "done"}

\* known: slow() found an entry.  queried: the command was launched.  late: the
\* command that data, or the failure, comes from outlived its kill.
Tasks == [phase : Phases, known : BOOLEAN, data : Outputs, err : BOOLEAN,
          queried : BOOLEAN, late : BOOLEAN]

Off == [phase |-> "off", known |-> FALSE, data |-> NoData, err |-> FALSE,
        queried |-> FALSE, late |-> FALSE]
Started == [Off EXCEPT !.phase = "started"]

\* Commands are launched when Collect begins, and run up to Timeout.
InTime ==
    \A c \in Callers, k \in Collectors :
        /\ task[c][k].phase # "off" => start[c] \in Ages
        /\ task[c][k].phase = "started" => start[c] = 0
        /\ task[c][k].phase = "running" => start[c] \in 0 .. Timeout

CollectorTypeOK ==
    /\ task \in [Callers -> [Collectors -> Tasks]]
    /\ start \in [Callers -> Outputs]
    /\ InTime
    /\ slowData \in [Slow -> Entries \cup {NoEntry}]
    /\ cancelled \subseteq Callers
    /\ slurm \in {"up", "down"}
    /\ good \in [Slow -> Outputs]

CollectorInit ==
    /\ task = [c \in Callers |-> [k \in Collectors |-> Off]]
    /\ start = [c \in Callers |-> NoData]
    /\ slowData = [k \in Slow |-> NoEntry]
    /\ cancelled = {}
    /\ slurm \in {"up", "down"}
    /\ good = [k \in Slow |-> NoData]

-----------------------------------------------------------------------------
(* Collect and slow.                                                       *)

StartCollect(c) ==
    /\ task' = [task EXCEPT ![c] = [k \in Collectors |-> Started]]
    /\ start' = [start EXCEPT ![c] = 0]

Known(k) == k \in Slow /\ slowData[k] # NoEntry

\* Mutants: slow() that ignores the age of its entry, and one without cache.
KnownIsFresh(k) == Known(k)
NeverFresh(k) == FALSE /\ Known(k)

IsFresh(k) == Known(k) /\ slowData[k].since < SlowRefresh

\* The entry is younger than SlowRefresh: slow returns it, error included.
Reuse(c, k) ==
    /\ task[c][k].phase = "started"
    /\ IsFresh(k)
    /\ task' = [task EXCEPT ![c][k] = [@ EXCEPT !.phase = "done",
                                               !.data = slowData[k].data,
                                               !.err = slowData[k].err,
                                               !.late = slowData[k].late]]
    /\ UNCHANGED << start, slowData, cancelled, slurm, good >>

\* c.run.  What slow read of the entry stays in its local variables.
Launch(c, k) ==
    /\ task[c][k].phase = "started"
    /\ ~IsFresh(k)
    /\ task' = [task EXCEPT ![c][k] =
          [@ EXCEPT !.phase = "running", !.queried = TRUE, !.known = Known(k),
                    !.data = IF Known(k) THEN slowData[k].data ELSE NoData]]
    /\ UNCHANGED << start, slowData, cancelled, slurm, good >>

\* The command has exited with 0.  Its output dates from its launch; slow()
\* dates the entry it makes of it from now.
Result(c, k) ==
    /\ task' = [task EXCEPT ![c][k] = [@ EXCEPT !.phase = "done",
                                               !.data = start[c]]]
    /\ IF k \in Slow
       THEN /\ slowData' = [slowData EXCEPT ![k] =
                  [since |-> 0, data |-> start[c], err |-> FALSE,
                   late |-> task[c][k].late]]
            /\ good' = [good EXCEPT ![k] = start[c]]
       ELSE UNCHANGED << slowData, good >>
    /\ UNCHANGED << start, cancelled, slurm >>

\* Mutants: a failure is served without the entry's samples; a failure makes
\* the old samples look refreshed.
ServedNothing(c, k) == NoData
EntryRenewed(c, k) ==
    IF k \in Slow
    THEN [slowData EXCEPT ![k] =
             [since |-> 0, data |-> task[c][k].data, err |-> TRUE,
              late |-> FALSE]]
    ELSE slowData

\* The samples that go with an error, and what it does to c.slowData.
ServedOnFailure(c, k) == task[c][k].data
EntriesOnFailure(c, k) ==
    IF k \in Slow /\ ~task[c][k].known
    THEN [slowData EXCEPT ![k] = [since |-> 0, data |-> NoData, err |-> TRUE,
                                  late |-> FALSE]]
    ELSE slowData

\* The command has failed.  With an entry, slow returns the entry's samples and
\* leaves it as it is; without one the failure itself becomes the entry.
Failure(c, k) ==
    /\ task' = [task EXCEPT ![c][k] =
                   [@ EXCEPT !.phase = "done", !.err = TRUE,
                             !.data = ServedOnFailure(c, k)]]
    /\ slowData' = EntriesOnFailure(c, k)
    /\ UNCHANGED << start, cancelled, slurm, good >>

\* The command exits with 0 before its context is done.
Succeed(c, k) ==
    /\ task[c][k].phase = "running"
    /\ c \notin cancelled
    /\ Result(c, k)

\* The command fails, or is killed because its context is done.
Fail(c, k) ==
    /\ task[c][k].phase = "running"
    /\ c \in cancelled \/ slurm = "down"
    /\ Failure(c, k)

\* cmd.Run waits on, past the end of the context, for a process that cannot
\* be killed, or for a descendant that keeps its output open.
Hang(c, k) ==
    /\ k \in Hangs
    /\ task[c][k].phase = "running"
    /\ c \in cancelled \/ start[c] = Timeout
    /\ task' = [task EXCEPT ![c][k] = [@ EXCEPT !.phase = "hung",
                                               !.late = TRUE]]
    /\ UNCHANGED << start, slowData, cancelled, slurm, good >>

\* It may come back, however late: with the error of the kill, or with nil
\* when the command itself had exited with 0 before.
Return(c, k) ==
    /\ task[c][k].phase = "hung"
    /\ Result(c, k) \/ Failure(c, k)

CollectorStep(c, k) ==
    \/ Reuse(c, k)
    \/ Launch(c, k)
    \/ Succeed(c, k)
    \/ Fail(c, k)
    \/ Hang(c, k)
    \/ Return(c, k)

\* wg.Wait: every goroutine has sent its result.
AllDone(c) == \A k \in Collectors : task[c][k].phase = "done"

\* The Snapshot Collect returns; began is the age of CollectedAt.  Not in the
\* code's: tried, the collectors whose command was launched for it, and late,
\* those with the output or failure of a command that outlived its kill.
Collected(c) ==
    [data |-> [k \in Collectors |-> task[c][k].data],
     errors |-> {k \in Collectors : task[c][k].err},
     tried |-> {k \in Collectors : task[c][k].queried},
     late |-> {k \in Collectors : task[c][k].late},
     began |-> start[c]]

EndCollect(c) ==
    /\ task' = [task EXCEPT ![c] = [k \in Collectors |-> Off]]
    /\ start' = [start EXCEPT ![c] = NoData]

-----------------------------------------------------------------------------
(* Slurm and time.                                                         *)

SlurmChanges ==
    /\ slurm' \in {"up", "down"} \ {slurm}
    /\ UNCHANGED << task, start, slowData, cancelled, good >>

Older(d) == IF d = NoData \/ d = MaxAge THEN d ELSE d + 1

OlderEntry(e) ==
    IF e = NoEntry THEN e
    ELSE [e EXCEPT !.since = IF @ < SlowRefresh THEN @ + 1 ELSE @,
                   !.data = Older(@)]

OlderTask(t) == [t EXCEPT !.data = Older(t.data)]

\* Mutant: c.run without context.WithTimeout.
TicksAnyway ==
    \A c \in Callers, k \in Collectors :
        task[c][k].phase \in {"off", "hung", "done", "running"}

\* Time passes only for commands, none of which runs on past its timeout
\* unless it hangs.
MayTick ==
    \A c \in Callers, k \in Collectors :
        \/ task[c][k].phase \in {"off", "hung", "done"}
        \/ task[c][k].phase = "running" /\ start[c] < Timeout

CollectorTick ==
    /\ MayTick
    /\ task' = [c \in Callers |-> [k \in Collectors |-> OlderTask(task[c][k])]]
    /\ start' = [c \in Callers |-> Older(start[c])]
    /\ slowData' = [k \in Slow |-> OlderEntry(slowData[k])]
    /\ good' = [k \in Slow |-> Older(good[k])]
    /\ UNCHANGED << cancelled, slurm >>
=============================================================================
