----------------------------- MODULE Accounting -----------------------------
(***************************************************************************)
(* internal/slurm/collector.go, accounting: from the rows of sacct to one  *)
(* JobRecord per job and one set of samples per group of jobs.  The first  *)
(* loop over the rows finds the peak memory of each job in the rows of its *)
(* steps, the second counts the jobs, the third emits the groups in the    *)
(* order Go's map iteration happens to take.                               *)
(*                                                                         *)
(* Abstractions.  A row is a record of parsed fields.  A group is its      *)
(* account and state; cluster, partition and QOS are further labels of the *)
(* same kind.  Of the sums those of AllocCPUS, ElapsedRaw and energy, and  *)
(* of a JobRecord the fields that are copied, are left out.  A ratio is a  *)
(* pair of numerator and denominator.                                      *)
(***************************************************************************)
EXTENDS Parse, FiniteSetsExt

CONSTANTS
    JobIds,
    Accounts,
    RawStates, \* State as sacct prints it
    Quantity,  \* bound: numbers in a row are in 0 .. Quantity
    Outputs    \* what sacct may print: a set of sequences of Rows

(***************************************************************************)
(* step    JobIDRaw has a dot                                              *)
(* fields  "few": less than 11, a line that is no record; "some": 11 to 14,*)
(*         as the tests have it; "all": the 19 that sacct is asked for     *)
(* used    TotalCPU in seconds                                             *)
(* mem, per  ReqMem: an amount, per "job", "cpu" (suffix c) or "node" (n)  *)
(* rss     MaxRSS in bytes, 0 when empty                                   *)
(***************************************************************************)
Numbers == 0 .. Quantity
Rows == [job : JobIds, step : BOOLEAN, fields : {"few", "some", "all"},
         account : Accounts, state : RawStates,
         cpus : Numbers, elapsed : Numbers, used : Numbers,
         mem : Numbers, per : {"job", "cpu", "node"}, nodes : Numbers,
         rss : Numbers]

ASSUME AccountingAssumption ==
    /\ Quantity \in Nat
    /\ Outputs \subseteq Seq(Rows)

VARIABLES
    rows,    \* the lines of sacct's output
    pass,    \* the loop that is running
    next,    \* the row it comes to
    maxRSS,  \* largest MaxRSS of a job's steps so far
    groups,  \* the map m: sums by group
    jobs,    \* the JobRecords
    samples  \* what the third loop has emitted, by group

vars == << rows, pass, next, maxRSS, groups, jobs, samples >>

-----------------------------------------------------------------------------
(* Fields of a row.                                                        *)

NodesOf(r) == IF r.nodes > 0 THEN r.nodes ELSE 1

RequestedBytes(r) == memoryAllocation(r.mem, r.per, r.cpus, NodesOf(r))

\* Mutant: a division without a look at the denominator.
RatioUnguarded(n, d) == << n, d >>

\* A ratio that is not computed keeps its zero.
Ratio(n, d) == IF d > 0 THEN << n, d >> ELSE << 0, 1 >>

\* CPUTimeRAW, which sacct computes as AllocCPUS * ElapsedRaw.
CPUTimeRaw(r) == r.cpus * r.elapsed

-----------------------------------------------------------------------------

\* Mutant: the state is not brought to its base form.
GroupOfRaw(r) == << r.account, r.state >>

GroupOf(r) == << r.account, baseState(r.state) >>

\* Mutant: rows of steps are taken for jobs.
IsJobOrStep(r) == r.fields # "few"

IsJob(r) == r.fields # "few" /\ ~r.step

Peak(r) == IF maxRSS[r.job] # 0 THEN maxRSS[r.job] ELSE r.rss

\* A JobRecord; what a row with fewer than 18 fields lacks is zero.
JobRecord(r) ==
    LET all == r.fields = "all"
        requested == IF all THEN RequestedBytes(r) ELSE 0
        peak == IF all THEN Peak(r) ELSE 0
    IN  [job |-> r.job, account |-> r.account, state |-> baseState(r.state),
         cpus |-> r.cpus, elapsed |-> r.elapsed, used |-> r.used,
         requested |-> requested, peak |-> peak,
         cpuRatio |-> Ratio(r.used, r.cpus * r.elapsed),
         memRatio |-> Ratio(peak, requested)]

NoSums == [jobs |-> 0, capacity |-> 0, cpu |-> 0, memUsed |-> 0, memReq |-> 0]

SumsOf(g) == IF g \in DOMAIN groups THEN groups[g] ELSE NoSums

Plus(sums, r, j) ==
    [jobs |-> sums.jobs + 1,
     capacity |-> sums.capacity + CPUTimeRaw(r),
     cpu |-> sums.cpu + r.used,
     memUsed |-> sums.memUsed + j.peak,
     memReq |-> sums.memReq + j.requested]

-----------------------------------------------------------------------------

Init ==
    /\ rows \in Outputs
    /\ pass = "steps"
    /\ next = 1
    /\ maxRSS = [j \in JobIds |-> 0]
    /\ groups = [g \in {} |-> NoSums]
    /\ jobs = << >>
    /\ samples = [g \in {} |-> NoSums]

\* Mutant: the latest step wins instead of the largest.
Differs(r) == r.rss # maxRSS[r.job]

Exceeds(r) == r.rss > maxRSS[r.job]

\* One turn of the first loop.
ScanRow ==
    /\ pass = "steps"
    /\ next <= Len(rows)
    /\ LET r == rows[next]
       IN  maxRSS' = IF r.step /\ r.fields = "all" /\ Exceeds(r)
                     THEN [maxRSS EXCEPT ![r.job] = r.rss]
                     ELSE maxRSS
    /\ next' = next + 1
    /\ UNCHANGED << rows, pass, groups, jobs, samples >>

\* One turn of the second loop.
CountJob ==
    /\ pass = "jobs"
    /\ next <= Len(rows)
    /\ IsJob(rows[next])
    /\ LET r == rows[next]
           j == JobRecord(r)
           g == GroupOf(r)
       IN  /\ groups' = [h \in DOMAIN groups \cup {g} |->
                            IF h = g THEN Plus(SumsOf(g), r, j) ELSE groups[h]]
           /\ jobs' = Append(jobs, j)
    /\ next' = next + 1
    /\ UNCHANGED << rows, pass, maxRSS, samples >>

SkipRow ==
    /\ pass = "jobs"
    /\ next <= Len(rows)
    /\ ~IsJob(rows[next])
    /\ next' = next + 1
    /\ UNCHANGED << rows, pass, maxRSS, groups, jobs, samples >>

\* The end of a loop.
NextPass ==
    /\ next > Len(rows)
    /\ \/ pass = "steps" /\ pass' = "jobs" /\ next' = 1
       \/ pass = "jobs" /\ pass' = "emit" /\ UNCHANGED next
    /\ UNCHANGED << rows, maxRSS, groups, jobs, samples >>

\* Mutant: the operands of the ratio are swapped.
SampleInverse(a) ==
    [sums |-> a, cpuRatio |-> Ratio(a.capacity, a.cpu),
     memRatio |-> Ratio(a.memUsed, a.memReq)]

\* The samples of a group.  The ratios are left out when the denominator is
\* zero; Ratio's zero stands for that.
Sample(a) ==
    [sums |-> a, cpuRatio |-> Ratio(a.cpu, a.capacity),
     memRatio |-> Ratio(a.memUsed, a.memReq)]

\* One turn of the third loop.
Emit(g) ==
    /\ pass = "emit"
    /\ g \in DOMAIN groups \ DOMAIN samples
    /\ samples' = [h \in DOMAIN samples \cup {g} |->
                      IF h = g THEN Sample(groups[g]) ELSE samples[h]]
    /\ UNCHANGED << rows, pass, next, maxRSS, groups, jobs >>

Return ==
    /\ pass = "emit"
    /\ DOMAIN groups = DOMAIN samples
    /\ pass' = "returned"
    /\ UNCHANGED << rows, next, maxRSS, groups, jobs, samples >>

Next ==
    \/ ScanRow
    \/ CountJob
    \/ SkipRow
    \/ NextPass
    \/ \E g \in DOMAIN groups : Emit(g)
    \/ Return

Spec == Init /\ [][Next]_vars

-----------------------------------------------------------------------------
(* Properties.                                                             *)

TypeOK ==
    /\ rows \in Seq(Rows)
    /\ pass \in {"steps", "jobs", "emit", "returned"}
    /\ next \in 1 .. Len(rows) + 1
    /\ maxRSS \in [JobIds -> Numbers]
    /\ \A g \in DOMAIN groups : groups[g] \in [DOMAIN NoSums -> Nat]
    /\ \A n \in DOMAIN jobs :
          /\ jobs[n].job \in JobIds /\ jobs[n].account \in Accounts
          /\ {jobs[n].requested, jobs[n].peak} \subseteq Nat
          /\ jobs[n].cpuRatio[2] > 0 /\ jobs[n].memRatio[2] > 0
    /\ DOMAIN samples \subseteq DOMAIN groups

\* The rows of jobs the second loop has been over.
Roots == {n \in DOMAIN rows : /\ pass # "steps" /\ (pass = "jobs" => n < next)
                             /\ rows[n].fields # "few" /\ ~rows[n].step}

\* The place of n in a set of numbers, counted from one.
Place(n, S) == Cardinality({m \in S : m <= n})

\* The record of a row.
RecordOf(n) == jobs[Place(n, Roots)]

\* "Step rows are used to find MaxRSS but are not double-counted as jobs":
\* there is one JobRecord per row of a job, in the order of the rows.
EachJobOnce ==
    /\ Len(jobs) = Cardinality(Roots)
    /\ \A n \in Roots : /\ RecordOf(n).job = rows[n].job
                        /\ RecordOf(n).account = rows[n].account

StepSizes(id) ==
    {rows[n].rss : n \in {m \in DOMAIN rows : /\ rows[m].job = id
                                              /\ rows[m].step
                                              /\ rows[m].fields = "all"}}

\* The peak of a job is the largest of all of its steps, wherever sacct lists
\* them, and its own value only when no step has one.
PeakIsOverAllSteps ==
    \A n \in Roots :
        rows[n].fields = "all" =>
            RecordOf(n).peak = IF StepSizes(rows[n].job) \subseteq {0}
                               THEN rows[n].rss
                               ELSE Max(StepSizes(rows[n].job))

KeyOf(j) == << j.account, j.state >>
Members(g) == {n \in DOMAIN jobs : KeyOf(jobs[n]) = g}

\* What a record counts for in its group.
Share(j) == [jobs |-> 1, capacity |-> j.cpus * j.elapsed, cpu |-> j.used,
             memUsed |-> j.peak, memReq |-> j.requested]

\* The groups partition the jobs and their sums are those of the records the
\* snapshot holds, the peaks found in the first loop included.
GroupsAddUp ==
    /\ DOMAIN groups = {KeyOf(jobs[n]) : n \in DOMAIN jobs}
    /\ \A g \in DOMAIN groups, f \in DOMAIN NoSums :
          groups[g][f] = SumFunction([n \in Members(g) |-> Share(jobs[n])[f]])

AtLeast(p, q) == p[1] * q[2] >= q[1] * p[2]

Ran(g) == {n \in Members(g) : jobs[n].cpus * jobs[n].elapsed > 0}
Requested(g) == {n \in Members(g) : jobs[n].requested > 0}

\* What the members without a ratio of their own add to the numerator.
Surplus(members, known, part) == SumFunction([n \in members \ known |-> part[n]])

\* Without the surplus a group's ratio is between those of the members that have
\* one, with a denominator that is theirs alone; without such members there is
\* none.
Explained(ratio, members, known, own, part) ==
    IF known = {} THEN ratio = << 0, 1 >>
    ELSE LET average == << ratio[1] - Surplus(members, known, part), ratio[2] >>
         IN  /\ \E n \in known : AtLeast(average, own[n])
             /\ \E n \in known : AtLeast(own[n], average)

\* "Prometheus exports the same information as aggregates": the efficiency of
\* a group is an average of the efficiencies of its jobs and a surplus.  It is
\* never below the smallest of them, but may be above the largest, by what jobs
\* without a denominator used: the peak of a job without a memory request, and
\* the CPU time of one without CPUs or elapsed time, are in the group's
\* numerator, while the job itself reports no efficiency.
AggregateIsAverageAndSurplus ==
    \A g \in DOMAIN samples :
        /\ Explained(samples[g].cpuRatio, Members(g), Ran(g),
                     [n \in Members(g) |-> jobs[n].cpuRatio],
                     [n \in Members(g) |-> jobs[n].used])
        /\ Explained(samples[g].memRatio, Members(g), Requested(g),
                     [n \in Members(g) |-> jobs[n].memRatio],
                     [n \in Members(g) |-> jobs[n].peak])
=============================================================================
