----------------------------- MODULE Exposition -----------------------------
(***************************************************************************)
(* From the rows Slurm's commands print to the page /metrics serves: the   *)
(* collectors of internal/slurm/collector.go, Collect's list of their      *)
(* samples, RenderPrometheus, and the lines main.go adds.  What is told    *)
(* apart is the identity of a series, its name and labels: of two samples  *)
(* of one series Prometheus keeps one, and the sort by name, which is not  *)
(* stable, leaves open which.                                              *)
(*                                                                         *)
(* queue and tresProfiles are Queue and TresProfiles, side by side as in   *)
(* Collect; accounting, whose loops are in Accounting, hands over the keys *)
(* of its groups; the others map a row to a fixed set of series.  What     *)
(* Collect gathers is local to it and adding to a list of samples commutes,*)
(* so one action stands for the loop over its channel.                     *)
(*                                                                         *)
(* Abstractions.  A row is the labels made of it.  The cluster label is    *)
(* left out, and so are rows that lack columns, which make fewer series.   *)
(***************************************************************************)
EXTENDS Queue, TresProfiles, Bags, Functions

CONSTANT Inputs \* what the commands may print, together with the flags

ByRow == {"nodes", "partitions", "reservations", "accounting", "fairshare",
          "scheduler", "licenses", "account_limits"}

\* The labels made of a row, and for the scheduler the key of a line.
Printable ==
    [nodes : Seq([node : STRING, partition : STRING, state : STRING]),
     partitions : Seq([partition : STRING, availability : STRING]),
     reservations :
         Seq([reservation : STRING, partition : STRING, state : STRING]),
     accounting : Seq([account : STRING, state : STRING]),
     fairshare : Seq([account : STRING, user : STRING]),
     scheduler : Seq(STRING),
     licenses : Seq([license : STRING, remote : STRING]),
     account_limits : Seq([account : STRING])]

\* sinfo lists a node once for each of its partitions, and partitions once;
\* reservations, licenses and an account's association have one line each, and
\* accounting's groups are the keys of a map.  squeue prints a job once while it
\* runs (one that waits for several partitions may be there for each of them).
\* sshare and sdiag may repeat.
ASSUME InputsAssumption ==
    \A x \in Inputs :
        /\ x.lines \in Listings /\ x.squeue \in Seq(QueueRows)
        /\ x.perJob \in BOOLEAN /\ x.users \in BOOLEAN
        /\ x.printed \in Printable
        /\ \A k \in ByRow \ {"fairshare", "scheduler"} : IsInjective(x.printed[k])
        /\ \A i, j \in DOMAIN x.printed.nodes :
              LET a == x.printed.nodes[i]
                  b == x.printed.nodes[j]
              IN  a.node = b.node /\ a.partition = b.partition => i = j
        /\ \A i, j \in DOMAIN x.squeue :
              LET a == x.squeue[i]
                  b == x.squeue[j]
              IN  a.state = "RUNNING" /\ b.state = "RUNNING" /\ a.job = b.job
                      => i = j

VARIABLES
    printed,      \* rows, by collector
    includeUsers, \* labels.users
    samples,      \* Snapshot.Samples: a bag of series
    collected     \* Collect has returned

pageVars == << queueVars, vars, printed, includeUsers, samples, collected >>

-----------------------------------------------------------------------------
(* The series of a row.                                                    *)

NoLabels == << >>
Each(names, labels) == {<< n, labels >> : n \in names}
ByStatus(name, labels, statuses) ==
    {<< name, Put(labels, "status", s) >> : s \in statuses}

CpuStatuses == {"allocated", "idle", "other", "total"}

\* Mutant: the labels of a node without its partition.
NodeOnly(r) == [node |-> r.node, state |-> r.state]

NodeLabels(r) == [node |-> r.node, partition |-> r.partition, state |-> r.state]

NodeSeries(r) ==
    Each({"node_info", "node_cpus", "node_memory_bytes",
          "node_free_memory_bytes", "node_cpu_load",
          "node_allocated_memory_bytes"}, NodeLabels(r))
    \cup ByStatus("node_cpu_count", NodeLabels(r), CpuStatuses)
    \cup ByStatus("node_gpus", NodeLabels(r), {"total", "allocated"})

PartitionSeries(r) ==
    Each({"partition_nodes", "partition_time_limit_seconds"}, r)
    \cup ByStatus("partition_cpus", r, CpuStatuses)

ReservationSeries(r) ==
    Each({"reservation_info", "reservation_nodes", "reservation_cores",
          "reservation_end_time_seconds"}, r)

AccountingSeries(group) ==
    Each({"accounting_jobs", "accounting_allocated_cpus",
          "accounting_elapsed_seconds", "accounting_cpu_capacity_seconds",
          "accounting_cpu_seconds", "accounting_cpu_efficiency_ratio",
          "accounting_max_rss_bytes", "accounting_requested_memory_bytes",
          "accounting_energy_joules", "accounting_memory_efficiency_ratio"},
         group)

ShareNames == {"fairshare_raw_shares", "fairshare_normalized_shares",
               "fairshare_raw_usage", "fairshare_effective_usage",
               "fairshare_factor"}

FairshareSeries(r) ==
    Each(ShareNames, IF includeUsers THEN r ELSE [account |-> r.account])

\* Of the keys of sdiag that mapping has one stands for all that are printed
\* once; "Last queue length" is in the main and in the backfill statistics.
Mapping == [k \in {"Server thread count", "Last queue length"} |->
                IF k = "Server thread count" THEN "controller_server_threads"
                                             ELSE "scheduler_last_queue_length"]

DiagnosticSeries(key) ==
    IF key \in DOMAIN Mapping THEN {<< Mapping[key], NoLabels >>} ELSE {}

LicenseSeries(r) ==
    ByStatus("license_count", r, {"total", "used", "free", "reserved"})

LimitSeries(r) ==
    Each({"account_cpu_limit", "account_memory_limit_bytes",
          "account_running_job_limit", "account_submitted_job_limit"}, r)

-----------------------------------------------------------------------------
(* The series of the collectors with loops of their own.                   *)

QueueSeries ==
    {"queue_jobs", "queue_nodes", "queue_cpus", "queue_elapsed_seconds",
     "queue_time_limit_seconds", "queue_memory_bytes", "queue_gpus"}
        \X DOMAIN sums

\* Of the samples of one running job.
JobSeries(j) ==
    Each({"job_info", "job_nodes", "job_cpus", "job_memory_bytes", "job_gpus",
          "job_elapsed_seconds"}, j.labels)
    \cup {<< "job_start_time_seconds", j.labels >> : t \in j.start}
    \cup {<< "job_wait_seconds", j.labels >> : t \in j.wait}

TresStatuses == {"total", "allocated", "available"}

AssignmentSeries(l) ==
    {<< "node_profile_assignment",
        [node |-> l.node, profile |-> Profile(l.cfg), state |-> l.state] >>}

TresSeries ==
    {"node_tres"} \X {[node |-> x[1], resource |-> x[2], status |-> t]
                          : x \in DOMAIN nodeTres, t \in TresStatuses}
    \cup {"cluster_tres"} \X {[resource |-> r, status |-> t]
                                  : r \in DOMAIN cluster, t \in TresStatuses}
    \cup {"node_profile_nodes"} \X {[profile |-> c[1], state |-> c[2]]
                                        : c \in DOMAIN counts}
    \cup {"node_profile_info"} \X {[profile |-> p] : p \in DOMAIN profiles}
    \cup {"node_profile_tres"} \X UNION {{[profile |-> p, resource |-> r]
                                               : r \in DOMAIN profiles[p]}
                                              : p \in DOMAIN profiles}

-----------------------------------------------------------------------------
(* Collect and the page.                                                   *)

PageInit ==
    /\ \E x \in Inputs :
          /\ lines = x.lines
          /\ QueueInit(x.squeue, x.perJob)
          /\ includeUsers = x.users
          /\ printed = x.printed
    /\ Init
    /\ samples = EmptyBag
    /\ collected = FALSE

InQueue == QueueNext /\ UNCHANGED << vars, printed, includeUsers, samples, collected >>

InTresProfiles ==
    Next /\ UNCHANGED << queueVars, printed, includeUsers, samples, collected >>

\* What the goroutine of each collector adds to its samples.
Accompanying ==
    {"exporter_collector_success", "exporter_collector_duration_seconds"}
        \X {[collector |-> k] : k \in ByRow \cup {"queue", "tres_profiles"}}

\* What samples are made of: the rows of a collector, one at a time, the jobs
\* queue emits, the nodes tresProfiles goes over, and, under the number 0, what
\* is made only once.
Parts ==
    (UNION {{k} \X DOMAIN printed[k] : k \in ByRow})
    \cup {"jobs"} \X DOMAIN jobSeries
    \cup {"assignments"} \X {i \in DOMAIN lines : lines[i].node # NoNode}
    \cup {"queue", "tres_profiles", "exporter"} \X {0}

\* The series that a part adds a sample to.
SeriesOf(x) ==
    LET k == x[1]
        i == x[2]
    IN  CASE k = "nodes" -> NodeSeries(printed.nodes[i])
          [] k = "partitions" -> PartitionSeries(printed.partitions[i])
          [] k = "reservations" -> ReservationSeries(printed.reservations[i])
          [] k = "accounting" -> AccountingSeries(printed.accounting[i])
          [] k = "fairshare" -> FairshareSeries(printed.fairshare[i])
          [] k = "scheduler" -> DiagnosticSeries(printed.scheduler[i])
          [] k = "licenses" -> LicenseSeries(printed.licenses[i])
          [] k = "account_limits" -> LimitSeries(printed.account_limits[i])
          [] k = "jobs" -> JobSeries(jobSeries[i])
          [] k = "assignments" -> AssignmentSeries(lines[i])
          [] k = "queue" -> QueueSeries
          [] k = "tres_profiles" -> TresSeries
          [] k = "exporter" -> Accompanying

Collect ==
    /\ qpass = "returned"
    /\ returned
    /\ ~collected
    /\ collected' = TRUE
    /\ samples' = LET made == [x \in Parts |-> SeriesOf(x)]
                  IN  [s \in UNION Range(made) |->
                          Cardinality({x \in Parts : s \in made[x]})]
    /\ UNCHANGED << queueVars, vars, printed, includeUsers >>

PageNext == InQueue \/ InTresProfiles \/ Collect

PageSpec == PageInit /\ [][PageNext]_pageVars

\* The lines of RenderPrometheus and of the handler behind the samples.
Footer ==
    Each({"exporter_up", "exporter_collection_duration_seconds",
          "history_enabled", "history_sequence", "history_tracked_jobs",
          "history_last_write_timestamp_seconds"}, NoLabels)

Page == samples (+) SetToBag(Footer)

-----------------------------------------------------------------------------
(* Properties.                                                             *)

\* Two rows of sshare that only a label the exporter does not set tells apart:
\* the user, unless labels.users is set, or the partition of an association.
SharesRepeat(s) ==
    /\ s[1] \in ShareNames
    /\ \E i, j \in DOMAIN printed.fairshare :
          LET a == printed.fairshare[i]
              b == printed.fairshare[j]
          IN  /\ i # j
              /\ a.account = b.account /\ a.account = s[2].account
              /\ includeUsers => a.user = b.user /\ a.user = s[2].user

DiagnosticsRepeat(s) ==
    \E i, j \in DOMAIN printed.scheduler :
        /\ i # j
        /\ printed.scheduler[i] = printed.scheduler[j]
        /\ printed.scheduler[i] \in DOMAIN Mapping
        /\ s[1] = Mapping[printed.scheduler[i]]

\* No series is on the page twice, whichever collectors and lines its samples
\* come from, with two exceptions: the shares of an account with several users
\* while labels.users is off (the default), and an sdiag key that is printed
\* in two sections.  A node in several partitions is none, nor are two running
\* jobs, whatever a separator in a name does to their labels.
OnlySharesAndDiagnosticsRepeat ==
    collected =>
        \A s \in BagToSet(Page) :
            Page[s] > 1 <=> SharesRepeat(s) \/ DiagnosticsRepeat(s)
=============================================================================
