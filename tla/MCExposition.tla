---------------------------- MODULE MCExposition ----------------------------
(***************************************************************************)
(* Instances of Exposition for TLC.  The collectors share nothing, so the  *)
(* output of one command is varied at a time: all the small listings of    *)
(* MCTresProfiles, queues of up to three rows, or what the other commands  *)
(* print.                                                                  *)
(***************************************************************************)
EXTENDS Exposition, MCTresProfiles

TwoLabels == {"physics", "biology"}
ThreeStates == {"RUNNING", "PENDING", "COMPLETING"}

ThreeJobs == 1 .. 3

Job(labels, state, per, columns, bars) ==
    [job |-> 1, labels |-> labels, state |-> state, nodes |-> 2, cpus |-> 3,
     mem |-> 1, per |-> per, gpus |-> 1, elapsed |-> 3599, limit |-> 86400,
     submit |-> 5, wait |-> 2, columns |-> columns, bars |-> bars]

\* The jobs that run are told apart by their IDs.
Numbered(q) ==
    [i \in DOMAIN q |-> IF q[i].state = "RUNNING" THEN [q[i] EXCEPT !.job = i]
                                                  ELSE q[i]]

\* Columns: no record, up to the reason, up to the GPUs, one short of all,
\* and all of them; a name with a separator takes part in the last three.
RowKinds ==
    {Job(l, s, "cpu", n, 0) : l \in TwoLabels, s \in ThreeStates,
                              n \in {8, 9, 14, 16, 17}}
    \cup {Job(l, s, "job", n, 1) : l \in TwoLabels, s \in ThreeStates,
                                   n \in {14, 16, 17}}
    \cup {[Job("physics", "RUNNING", "node", 17, 0)
              EXCEPT !.elapsed = e, !.limit = Unlimited] : e \in {59, 3600, 90061}}

OneRow == << Job("physics", "RUNNING", "node", 17, 0) >>

SmallQueues ==
    {<< >>, OneRow} \cup {Numbered(<< a, b >>) : a, b \in RowKinds}
    \cup {Numbered(<< a, b, c >>) :
              a, b, c \in {j \in RowKinds : j.columns = 17
                                         /\ j.labels = "physics"}}

NoRows == [k \in ByRow |-> << >>]

NodeRow(n, p) == [node |-> n, partition |-> p, state |-> "IDLE"]
Share(a, u) == [account |-> a, user |-> u]

Shares == {Share("physics", ""), Share("physics", "ann"), Share("biology", "ann")}
Group(state) == [account |-> "physics", state |-> state]

Keys == {"Server thread count", "Last queue length", "Max cycle"}

AllRows ==
    [nodes |-> << NodeRow("n1", "short"), NodeRow("n1", "long"), NodeRow("n2", "long") >>,
     partitions |-> << [partition |-> "short", availability |-> "up"],
                       [partition |-> "long", availability |-> "up"] >>,
     reservations |-> << [reservation |-> "r1", partition |-> "long", state |-> "ACTIVE"] >>,
     accounting |-> << Group("COMPLETED"), Group("FAILED") >>,
     fairshare |-> << >>,
     scheduler |-> << >>,
     licenses |-> << [license |-> "l1", remote |-> "no"], [license |-> "l2", remote |-> "no"] >>,
     account_limits |-> << [account |-> "physics"], [account |-> "biology"] >>]

SmallPrints ==
    {[AllRows EXCEPT !.fairshare = f, !.scheduler = d] :
        f \in SeqOf(Shares, 3), d \in SeqOf(Keys, 2)}

In(listing, queue, rows, perJob, users) ==
    [lines |-> listing, squeue |-> queue, printed |-> rows,
     perJob |-> perJob, users |-> users]

OneNode == << Node("n1", [state |-> "IDLE", cfg |-> Plain, alloc |-> Some]) >>

SmallInputs ==
    {In(l, << >>, NoRows, FALSE, FALSE) : l \in SmallListings}
    \cup {In(<< >>, q, NoRows, perJob, FALSE) : q \in SmallQueues, perJob \in BOOLEAN}
    \cup {In(OneNode, OneRow, p, TRUE, users) : p \in SmallPrints, users \in BOOLEAN}

AllListings == SmallListings \cup {<< >>}
=============================================================================
