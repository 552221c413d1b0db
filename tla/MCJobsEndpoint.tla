--------------------------- MODULE MCJobsEndpoint ---------------------------
(***************************************************************************)
(* An instance of Accounting and JobsEndpoint for TLC: up to three jobs,   *)
(* with steps, in every order, and a line that is no record.               *)
(***************************************************************************)
EXTENDS JobsEndpoint, SequencesExt

ThreeJobs == {"41", "42", "43"}
TwoAccounts == {"science", "physics"}
TwoRawStates == {"COMPLETED", "CANCELLED by 1000"}

Job(id, account, state, cpus, elapsed, mem, per, rss) ==
    [job |-> id, step |-> FALSE, fields |-> "all", account |-> account,
     state |-> state, cpus |-> cpus, elapsed |-> elapsed, used |-> 2,
     mem |-> mem, per |-> per, nodes |-> 0, rss |-> rss]
Step(id, rss) == [Job(id, "science", "COMPLETED", 1, 1, 0, "job", rss)
                  EXCEPT !.step = TRUE]
Narrow(r) == [r EXCEPT !.fields = "some", !.mem = 0, !.rss = 0]
Noise == [Step("41", 0) EXCEPT !.step = FALSE, !.fields = "few"]

\* A job that ran on two CPUs, one that did not run, one without a memory
\* request, and requests per node and per CPU.
JobRows ==
    {Job("41", "science", "COMPLETED", 2, 3, 2, "cpu", 0),
     Job("41", "physics", "CANCELLED by 1000", 0, 0, 2, "job", 1),
     Job("42", "science", "COMPLETED", 1, 2, 0, "job", 3),
     Job("42", "science", "COMPLETED", 1, 3, 3, "node", 0),
     Job("43", "science", "COMPLETED", 3, 1, 1, "job", 1)}
OtherRows == {Step("41", 1), Step("41", 3), Step("42", 0), Step("42", 2), Noise}

\* sacct lists a job once.
JobsOnce(s) ==
    \A i, j \in DOMAIN s :
        s[i].job = s[j].job /\ {s[i], s[j]} \cap OtherRows = {} => i = j

SmallOutputs ==
    {s \in BoundedSeq(JobRows \cup OtherRows, 4) : JobsOnce(s)}
    \cup {s \in BoundedSeq({Narrow(r) : r \in JobRows}, 2) : JobsOnce(s)}

TwoSpellings == {"completed", "CANCELLED"}
SomeLimits == {0, 2, 3}
=============================================================================
