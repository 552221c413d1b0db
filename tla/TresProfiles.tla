---------------------------- MODULE TresProfiles ----------------------------
(***************************************************************************)
(* internal/slurm/collector.go, tresProfiles: from the nodes scontrol lists*)
(* to the trackable resources of each node and of the cluster, and to the  *)
(* hardware profiles inferred from the nodes' configuration.               *)
(*                                                                         *)
(* Abstractions.  CfgTRES and AllocTRES are functions from the resources   *)
(* they name to amounts (what tresNumeric returns).  A profile's name is a *)
(* digest of the sorted configuration: the configuration itself stands for *)
(* it.  Maps are iterated in any order.                                    *)
(***************************************************************************)
EXTENDS Integers, Sequences, FiniteSetsExt

CONSTANTS
    Nodes,
    NoNode,    \* a line without NodeName
    States,    \* node states, in their base form
    Resources,
    Listings   \* what scontrol may print: a set of sequences of Lines

\* What a TRES field may say: amounts of the resources it names.
IsAmounts(m) == DOMAIN m \subseteq Resources /\ \A r \in DOMAIN m : m[r] \in Nat

IsLine(l) == /\ l.node \in Nodes \cup {NoNode} /\ l.state \in States
             /\ IsAmounts(l.cfg) /\ IsAmounts(l.alloc)

\* "scontrol show node" prints a node once.
IsListing(s) ==
    /\ Len(s) \in Nat /\ DOMAIN s = 1 .. Len(s)
    /\ \A i \in DOMAIN s : IsLine(s[i])
    /\ \A i, j \in DOMAIN s : s[i].node = s[j].node /\ s[i].node # NoNode => i = j

ASSUME ListingsAssumption == \A s \in Listings : IsListing(s)

VARIABLES
    lines,    \* scontrol's output
    next,     \* the line the loop comes to
    keys,     \* resources of the current node the inner loop has not come to
    nodeTres, \* samples node_tres: by node and resource
    totals,   \* clusterTotals
    counts,   \* profileCounts
    profiles, \* profileTRES and profileConfig: configurations by profile
    cluster,  \* samples cluster_tres: by resource
    returned

vars == << lines, next, keys, nodeTres, totals, counts, profiles, cluster,
           returned >>

Nothing == [x \in {} |-> 0]

\* m[k], or d when the map m has no k.
Get(m, k, d) == IF k \in DOMAIN m THEN m[k] ELSE d
Put(m, k, v) == [x \in DOMAIN m \cup {k} |-> IF x = k THEN v ELSE m[x]]

Profile(cfg) == cfg

\* Mutant: no floor at zero.
MinusUnfloored(total, used) == total - used

\* What is available, but not less than nothing.
Minus(total, used) == IF used > total THEN 0 ELSE total - used

Disposition(total, used) ==
    [total |-> total, allocated |-> used, available |-> Minus(total, used)]

-----------------------------------------------------------------------------

Init ==
    /\ lines \in Listings
    /\ next = 1
    /\ keys = {}
    /\ nodeTres = Nothing
    /\ totals = Nothing
    /\ counts = Nothing
    /\ profiles = Nothing
    /\ cluster = Nothing
    /\ returned = FALSE

SkipLine ==
    /\ keys = {}
    /\ next <= Len(lines)
    /\ lines[next].node = NoNode
    /\ next' = next + 1
    /\ UNCHANGED << lines, keys, nodeTres, totals, counts, profiles, cluster,
                    returned >>

\* Mutants: a profile is marked instead of counted; only the configured
\* resources are visited.
Marked(c) == IF c \in DOMAIN counts THEN counts[c] ELSE 1
Configured(l) == DOMAIN l.cfg

Counted(c) == Get(counts, c, 0) + 1
Named(l) == DOMAIN l.cfg \cup DOMAIN l.alloc

\* The first half of a turn of the outer loop.
BeginNode ==
    /\ keys = {}
    /\ next <= Len(lines)
    /\ lines[next].node # NoNode
    /\ LET l == lines[next]
           p == Profile(l.cfg)
       IN  /\ profiles' = Put(profiles, p, l.cfg)
           /\ counts' = Put(counts, << p, l.state >>, Counted(<< p, l.state >>))
           /\ keys' = Named(l)
    /\ next' = next + 1
    /\ UNCHANGED << lines, nodeTres, totals, cluster, returned >>

Zeros == [configured |-> 0, allocated |-> 0]

\* Mutant: clusterTotals[resource] is made anew for each node.
Anew(r) == Zeros

\* clusterTotals[resource], made on first sight.
TotalsOf(r) == Get(totals, r, Zeros)

\* One turn of the inner loop.
AddResource(r) ==
    /\ r \in keys
    /\ LET l == lines[next - 1]
           total == Get(l.cfg, r, 0)
           used == Get(l.alloc, r, 0)
           t == TotalsOf(r)
       IN  /\ nodeTres' = Put(nodeTres, << l.node, r >>, Disposition(total, used))
           /\ totals' = Put(totals, r, [configured |-> t.configured + total,
                                        allocated |-> t.allocated + used])
    /\ keys' = keys \ {r}
    /\ UNCHANGED << lines, next, counts, profiles, cluster, returned >>

\* One turn of the loop over clusterTotals.
EmitCluster(r) ==
    /\ keys = {}
    /\ next > Len(lines)
    /\ r \in DOMAIN totals \ DOMAIN cluster
    /\ cluster' = Put(cluster, r,
                      Disposition(totals[r].configured, totals[r].allocated))
    /\ UNCHANGED << lines, next, keys, nodeTres, totals, counts, profiles,
                    returned >>

\* The loops over profileCounts and profileTRES only copy them out.
Return ==
    /\ keys = {}
    /\ next > Len(lines)
    /\ DOMAIN cluster = DOMAIN totals
    /\ ~returned
    /\ returned' = TRUE
    /\ UNCHANGED << lines, next, keys, nodeTres, totals, counts, profiles,
                    cluster >>

Next ==
    \/ SkipLine
    \/ BeginNode
    \/ \E r \in Resources : AddResource(r) \/ EmitCluster(r)
    \/ Return

Spec == Init /\ [][Next]_vars

-----------------------------------------------------------------------------
(* Properties.                                                             *)

TypeOK ==
    /\ IsListing(lines)
    /\ next \in 1 .. Len(lines) + 1
    /\ keys \subseteq Resources
    /\ DOMAIN nodeTres \subseteq Nodes \X Resources
    /\ \A x \in DOMAIN nodeTres : nodeTres[x].available \in 0 .. nodeTres[x].total
    /\ \A r \in DOMAIN totals :
          /\ r \in Resources
          /\ totals[r] \in [configured : Nat, allocated : Nat]
    /\ \A c \in DOMAIN counts : c[2] \in States /\ counts[c] \in Nat \ {0}
    /\ \A r \in DOMAIN cluster : cluster[r].available \in 0 .. cluster[r].total
    /\ returned \in BOOLEAN

\* The nodes whose lines the outer loop has begun.
Listed == {n \in 1 .. next - 1 : lines[n].node # NoNode}

\* The samples of the nodes that have a resource, and what is available of it
\* on all of them.
Has(r) == {x \in DOMAIN nodeTres : x[2] = r}
Spare(r) == SumFunction([x \in Has(r) |-> nodeTres[x].available])

\* "Cluster totals": a resource counts for the cluster with what it counts
\* for the nodes, the ones that only have it allocated included, and the
\* cluster never has more available than its nodes have; it has less only
\* when some node has allocated more than it is configured with.
ClusterIsTheSumOfItsNodes ==
    \A r \in DOMAIN cluster :
        /\ cluster[r].total = SumFunction([n \in Listed |-> Get(lines[n].cfg, r, 0)])
        /\ cluster[r].allocated = SumFunction([x \in Has(r) |-> nodeTres[x].allocated])
        /\ cluster[r].available <= Spare(r)
        /\ cluster[r].available < Spare(r) =>
              \E x \in Has(r) : nodeTres[x].allocated > nodeTres[x].total

\* Everything a node is configured with or has allocated is accounted for.
NoResourceIsMissed ==
    returned =>
        \A n \in Listed : \A r \in DOMAIN lines[n].cfg \cup DOMAIN lines[n].alloc :
            << lines[n].node, r >> \in DOMAIN nodeTres /\ r \in DOMAIN cluster

\* The profiles partition the nodes: each state's count of a profile is the
\* number of nodes in that state with its configuration, and what is exported
\* as a profile's resources is what each of its nodes is configured with.
ProfilesPartitionNodes ==
    /\ \A n \in Listed : << Profile(lines[n].cfg), lines[n].state >> \in DOMAIN counts
    /\ \A c \in DOMAIN counts :
          counts[c] = Cardinality({n \in Listed : /\ Profile(lines[n].cfg) = c[1]
                                                  /\ lines[n].state = c[2]})
    /\ \A n \in Listed : profiles[Profile(lines[n].cfg)] = lines[n].cfg
=============================================================================
