-------------------------- MODULE ExpositionProofs --------------------------
(***************************************************************************)
(* Theorems about Exposition: about tresProfiles and queue, which run side *)
(* by side in it, and about the page that Collect's samples make, for      *)
(* everything Slurm's commands may print, of any length and with any       *)
(* amounts.                                                                *)
(***************************************************************************)
EXTENDS Exposition, SumTheorems

(***************************************************************************)
(* tresProfiles: lines and maps.                                           *)
(***************************************************************************)

LEMMA PutFacts ==
    ASSUME NEW m, NEW k, NEW v
    PROVE  /\ DOMAIN Put(m, k, v) = DOMAIN m \cup {k}
           /\ Put(m, k, v)[k] = v
           /\ \A x \in DOMAIN m : x # k => Put(m, k, v)[x] = m[x]
  BY DEF Put

LEMMA DispositionFacts ==
    ASSUME NEW t \in Nat, NEW u \in Nat
    PROVE  /\ Disposition(t, u).total = t
           /\ Disposition(t, u).allocated = u
           /\ Disposition(t, u).available = Minus(t, u)
           /\ Disposition(t, u).available \in 0 .. Disposition(t, u).total
           /\ Minus(t, u) \in Nat
           /\ t <= Minus(t, u) + u
           /\ u <= t => t = Minus(t, u) + u
  BY DEF Disposition, Minus

LEMMA LineFacts ==
    ASSUME IsListing(lines), NEW n \in DOMAIN lines
    PROVE  /\ IsLine(lines[n])
           /\ \A r : /\ Get(lines[n].cfg, r, 0) \in Nat
                     /\ Get(lines[n].alloc, r, 0) \in Nat
           /\ Named(lines[n]) \subseteq Resources
           /\ lines[n].node # NoNode => lines[n].node \in Nodes
           /\ lines[n].state \in States
  <1>1. IsLine(lines[n])
    BY DEF IsListing
  <1>2. QED
    BY <1>1 DEF IsLine, IsAmounts, Get, Named

\* While the inner loop runs it is at the node of the latest line.
KeysInv ==
    keys # {} => next - 1 \in Listed /\ keys \subseteq Named(lines[next - 1])

LEMMA ListedFacts ==
    ASSUME TypeOK
    PROVE  /\ next \in Nat /\ Len(lines) \in Nat
           /\ next - 1 \in 0 .. Len(lines)
           /\ Listed \subseteq DOMAIN lines
           /\ IsFiniteSet(Listed)
           /\ next <= Len(lines) => next \in DOMAIN lines /\ next \notin Listed
  <1>1. Len(lines) \in Nat /\ DOMAIN lines = 1 .. Len(lines)
        /\ next \in 1 .. Len(lines) + 1
    BY DEF TypeOK, IsListing
  <1>2. IsFiniteSet(1 .. next - 1)
    BY <1>1, FS_Interval
  <1>3. IsFiniteSet(Listed)
    BY <1>2, FS_Subset DEF Listed
  <1>4. QED
    BY <1>1, <1>3 DEF Listed

\* What a step of the outer loop adds to the lines that are done.
LEMMA ListedNext ==
    ASSUME TypeOK, next <= Len(lines), next' = next + 1, lines' = lines
    PROVE  /\ lines[next].node = NoNode => Listed' = Listed
           /\ lines[next].node # NoNode => Listed' = Listed \cup {next}
           /\ (next - 1)' = next
  <1>1. 1 .. (next + 1) - 1 = (1 .. next - 1) \cup {next} /\ (next + 1) - 1 = next
    BY ListedFacts DEF TypeOK
  <1>2. QED
    BY <1>1 DEF Listed

LEMMA ZerosAreTotals == Zeros \in [configured : Nat, allocated : Nat]
  BY DEF Zeros

LEMMA TotalsOfType ==
    ASSUME TypeOK, NEW r
    PROVE  TotalsOf(r) \in [configured : Nat, allocated : Nat]
  BY ZerosAreTotals DEF TotalsOf, Get, TypeOK

LEMMA TresTypeStep ==
    ASSUME TypeOK, KeysInv, [Next]_vars
    PROVE  TypeOK' /\ KeysInv'
  <1>0. /\ IsListing(lines)
        /\ next \in 1 .. Len(lines) + 1
        /\ keys \subseteq Resources
        /\ DOMAIN nodeTres \subseteq Nodes \X Resources
        /\ \A x \in DOMAIN nodeTres : nodeTres[x].available \in 0 .. nodeTres[x].total
        /\ \A r \in DOMAIN totals : r \in Resources
              /\ totals[r] \in [configured : Nat, allocated : Nat]
        /\ \A c \in DOMAIN counts : c[2] \in States /\ counts[c] \in Nat \ {0}
        /\ \A r \in DOMAIN cluster : cluster[r].available \in 0 .. cluster[r].total
        /\ returned \in BOOLEAN
    BY DEF TypeOK
  <1>1. CASE SkipLine
    <2>1. next' \in 1 .. Len(lines) + 1
      BY <1>1, ListedFacts DEF SkipLine
    <2>2. QED
      BY <1>0, <1>1, <2>1 DEF SkipLine, TypeOK, KeysInv
  <1>2. CASE BeginNode
    <2> DEFINE l == lines[next]
               c == << Profile(l.cfg), l.state >>
    <2>1. next' \in 1 .. Len(lines) + 1
      BY <1>2, ListedFacts DEF BeginNode
    <2>2. next \in DOMAIN lines
      BY <1>2, ListedFacts DEF BeginNode
    <2>3. Named(l) \subseteq Resources /\ l.state \in States
      BY <1>0, <2>2, LineFacts
    <2>4. Counted(c) \in Nat \ {0}
      BY <1>0 DEF Counted, Get
    <2>5. counts' = Put(counts, c, Counted(c)) /\ c[2] \in States
      BY <1>2, <2>3 DEF BeginNode
    <2>6. \A d \in DOMAIN counts' : d[2] \in States /\ counts'[d] \in Nat \ {0}
      <3> DEFINE n == Counted(c)
      <3>1. n \in Nat \ {0} /\ counts' = Put(counts, c, n) /\ c[2] \in States
        BY <2>4, <2>5
      <3> HIDE DEF n, c
      <3>2. /\ DOMAIN counts' = DOMAIN counts \cup {c} /\ counts'[c] = n
            /\ \A d \in DOMAIN counts : d # c => counts'[d] = counts[d]
        BY <3>1 DEF Put
      <3>3. QED
        BY <1>0, <3>1, <3>2
    <2>7. keys' = Named(l) /\ (next - 1)' \in Listed' /\ (next - 1)' = next
      <3>1. /\ next <= Len(lines) /\ next' = next + 1 /\ lines' = lines
            /\ l.node # NoNode /\ keys' = Named(l)
        BY <1>2 DEF BeginNode
      <3>2. Listed' = Listed \cup {next} /\ (next - 1)' = next
        BY <3>1, ListedNext
      <3>3. QED
        BY <3>1, <3>2
    <2>8. KeysInv'
      <3>1. lines' = lines
        BY <1>2 DEF BeginNode
      <3>2. QED
        BY <2>7, <3>1 DEF KeysInv
    <2>9. TypeOK'
      BY <1>0, <1>2, <2>1, <2>3, <2>6, <2>7 DEF BeginNode, TypeOK
    <2>10. QED
      BY <2>8, <2>9
  <1>3. ASSUME NEW r \in Resources, AddResource(r) PROVE TypeOK' /\ KeysInv'
    <2> DEFINE l == lines[next - 1]
               total == Get(l.cfg, r, 0)
               used == Get(l.alloc, r, 0)
               t == TotalsOf(r)
    <2>1. next - 1 \in Listed /\ l.node # NoNode
      BY <1>3 DEF AddResource, KeysInv, Listed
    <2>2. total \in Nat /\ used \in Nat /\ l.node \in Nodes
      BY <1>0, <2>1, ListedFacts, LineFacts
    <2>3. /\ nodeTres' = Put(nodeTres, << l.node, r >>, Disposition(total, used))
          /\ totals' = Put(totals, r, [configured |-> t.configured + total,
                                       allocated |-> t.allocated + used])
      BY <1>3 DEF AddResource
    <2>4. [configured |-> t.configured + total, allocated |-> t.allocated + used]
             \in [configured : Nat, allocated : Nat]
      BY <2>2, TotalsOfType
    <2>5. \A q \in DOMAIN totals' : q \in Resources
              /\ totals'[q] \in [configured : Nat, allocated : Nat]
      <3> DEFINE v == [configured |-> t.configured + total,
                       allocated |-> t.allocated + used]
      <3>1. v \in [configured : Nat, allocated : Nat] /\ totals' = Put(totals, r, v)
        BY <2>3, <2>4
      <3> HIDE DEF v
      <3>2. /\ DOMAIN totals' = DOMAIN totals \cup {r} /\ totals'[r] = v
            /\ \A q \in DOMAIN totals : q # r => totals'[q] = totals[q]
        BY <3>1 DEF Put
      <3>3. QED
        BY <1>0, <3>1, <3>2
    <2>6. /\ DOMAIN nodeTres' \subseteq Nodes \X Resources
          /\ \A x \in DOMAIN nodeTres' :
                nodeTres'[x].available \in 0 .. nodeTres'[x].total
      <3> DEFINE v == Disposition(total, used)
                 x == << l.node, r >>
      <3>1. v.available \in 0 .. v.total
        <4> HIDE DEF total, used
        <4>1. Disposition(total, used).available
                 \in 0 .. Disposition(total, used).total
          BY <2>2, DispositionFacts
        <4>2. QED
          BY <4>1
      <3>2. x \in Nodes \X Resources /\ nodeTres' = Put(nodeTres, x, v)
        BY <2>2, <2>3
      <3> HIDE DEF v, x
      <3>3. /\ DOMAIN nodeTres' = DOMAIN nodeTres \cup {x} /\ nodeTres'[x] = v
            /\ \A y \in DOMAIN nodeTres : y # x => nodeTres'[y] = nodeTres[y]
        BY <3>2 DEF Put
      <3>4. QED
        BY <1>0, <3>1, <3>2, <3>3
    <2>7. keys' = keys \ {r} /\ UNCHANGED << lines, next, counts, cluster, returned >>
      BY <1>3 DEF AddResource
    <2>8. QED
      BY <1>0, <2>5, <2>6, <2>7 DEF TypeOK, KeysInv, Listed
  <1>4. ASSUME NEW r \in Resources, EmitCluster(r) PROVE TypeOK' /\ KeysInv'
    <2> DEFINE v == Disposition(totals[r].configured, totals[r].allocated)
    <2>1. cluster' = Put(cluster, r, v) /\ r \in DOMAIN totals
      BY <1>4 DEF EmitCluster
    <2>2. v.available \in 0 .. v.total
      BY <1>0, <2>1, DispositionFacts
    <2> HIDE DEF v
    <2>3. /\ DOMAIN cluster' = DOMAIN cluster \cup {r} /\ cluster'[r] = v
          /\ \A q \in DOMAIN cluster : q # r => cluster'[q] = cluster[q]
      BY <2>1 DEF Put
    <2>4. \A q \in DOMAIN cluster' : cluster'[q].available \in 0 .. cluster'[q].total
      BY <1>0, <2>2, <2>3
    <2>5. UNCHANGED << lines, next, keys, nodeTres, totals, counts, returned >>
      BY <1>4 DEF EmitCluster
    <2>6. QED
      BY <1>0, <2>4, <2>5 DEF TypeOK, KeysInv, Listed
  <1>5. CASE Return
    BY <1>0, <1>5 DEF Return, TypeOK, KeysInv
  <1>6. CASE UNCHANGED vars
    BY <1>0, <1>6 DEF vars, TypeOK, KeysInv, Listed
  <1>7. QED
    BY <1>1, <1>2, <1>3, <1>4, <1>5, <1>6 DEF Next

(***************************************************************************)
(* Sums over nodes.  Seen(r) are the lines whose amount of r has been added*)
(* up: all that are listed so far, but the one the inner loop is at only   *)
(* once it has come to r.                                                  *)
(***************************************************************************)

Seen(r) == {n \in Listed : n = next - 1 => r \notin keys}

CfgOf(r) == [n \in DOMAIN lines |-> Get(lines[n].cfg, r, 0)]
Total == [x \in DOMAIN nodeTres |-> nodeTres[x].total]
Allocated == [x \in DOMAIN nodeTres |-> nodeTres[x].allocated]

NodesInv ==
    /\ IsFiniteSet(DOMAIN nodeTres)
    /\ \A x \in DOMAIN nodeTres :
          /\ \E n \in Seen(x[2]) : lines[n].node = x[1]
          /\ nodeTres[x].total \in Nat /\ nodeTres[x].allocated \in Nat
          /\ nodeTres[x].available =
                Minus(nodeTres[x].total, nodeTres[x].allocated)
    /\ \A r \in Resources : \A n \in Seen(r) : r \in Named(lines[n]) =>
          << lines[n].node, r >> \in DOMAIN nodeTres /\ r \in DOMAIN totals

TotalsInv ==
    \A r \in Resources :
        /\ TotalsOf(r).configured = SumFunctionOnSet(CfgOf(r), Seen(r))
        /\ TotalsOf(r).configured = SumFunctionOnSet(Total, Has(r))
        /\ TotalsOf(r).allocated = SumFunctionOnSet(Allocated, Has(r))

ClusterInv ==
    /\ DOMAIN cluster # {} \/ returned => keys = {} /\ next > Len(lines)
    /\ \A r \in DOMAIN cluster :
          /\ r \in DOMAIN totals
          /\ cluster[r] = Disposition(totals[r].configured, totals[r].allocated)
    /\ returned => DOMAIN cluster = DOMAIN totals

LEMMA SeenFacts ==
    ASSUME TypeOK, NEW r
    PROVE  /\ Seen(r) \subseteq Listed /\ IsFiniteSet(Seen(r))
           /\ Seen(r) \subseteq DOMAIN lines
           /\ keys = {} => Seen(r) = Listed
           /\ \A n \in DOMAIN lines : CfgOf(r)[n] \in Nat
           /\ SumFunctionOnSet(CfgOf(r), Seen(r)) \in Nat
  <1>1. /\ Seen(r) \subseteq Listed
        /\ keys = {} => Seen(r) = Listed
    BY DEF Seen
  <1>2. IsFiniteSet(Seen(r)) /\ Seen(r) \subseteq DOMAIN lines
    BY <1>1, ListedFacts, FS_Subset
  <1>3. \A n \in DOMAIN lines : CfgOf(r)[n] \in Nat
    BY LineFacts DEF CfgOf, TypeOK
  <1>4. SumFunctionOnSet(CfgOf(r), Seen(r)) \in Nat
    BY <1>2, <1>3, SumType
  <1>5. QED
    BY <1>1, <1>2, <1>3, <1>4

LEMMA SeenBegins ==
    ASSUME TypeOK, BeginNode, NEW r
    PROVE  /\ next \notin Seen(r) /\ next \in DOMAIN lines
           /\ r \in Named(lines[next]) => Seen(r)' = Seen(r)
           /\ r \notin Named(lines[next]) => /\ Seen(r)' = Seen(r) \cup {next}
                                           /\ CfgOf(r)[next] = 0
  <1>1. /\ keys = {} /\ next <= Len(lines) /\ next' = next + 1 /\ lines' = lines
        /\ lines[next].node # NoNode /\ keys' = Named(lines[next])
    BY DEF BeginNode
  <1>2. /\ Listed' = Listed \cup {next} /\ (next - 1)' = next
        /\ next \notin Listed /\ next \in DOMAIN lines
    BY <1>1, ListedNext, ListedFacts
  <1>3. Seen(r)' = {n \in Listed \cup {next} : n = next => r \notin Named(lines[next])}
    BY <1>1, <1>2 DEF Seen
  <1>4. Seen(r) = Listed
    BY <1>1 DEF Seen
  <1>5. r \notin Named(lines[next]) => CfgOf(r)[next] = 0
    BY <1>2 DEF Named, CfgOf, Get
  <1>6. QED
    BY <1>2, <1>3, <1>4, <1>5

LEMMA SeenAdds ==
    ASSUME TypeOK, KeysInv, NEW q \in Resources, AddResource(q), NEW r
    PROVE  /\ r = q => /\ next - 1 \notin Seen(r) /\ next - 1 \in Listed
                       /\ Seen(r)' = Seen(r) \cup {next - 1}
           /\ r # q => Seen(r)' = Seen(r)
  <1>1. /\ q \in keys /\ keys' = keys \ {q} /\ next' = next /\ lines' = lines
    BY DEF AddResource
  <1>2. next - 1 \in Listed /\ Listed' = Listed
    BY <1>1 DEF KeysInv, Listed
  <1>3. Seen(r)' = {n \in Listed : n = next - 1 => r \notin keys \ {q}}
    BY <1>1, <1>2 DEF Seen
  <1>4. QED
    BY <1>1, <1>2, <1>3 DEF Seen

\* The steps that are not about a node.
Elsewhere ==
    SkipLine \/ (\E q \in Resources : EmitCluster(q)) \/ Return \/ UNCHANGED vars

LEMMA SeenStays ==
    ASSUME TypeOK, NEW r, Elsewhere
    PROVE  /\ Seen(r)' = Seen(r)
           /\ UNCHANGED << lines, nodeTres, totals >>
  <1>1. CASE SkipLine
    <2>1. /\ keys = {} /\ next <= Len(lines) /\ next' = next + 1 /\ lines' = lines
          /\ lines[next].node = NoNode /\ keys' = keys
          /\ UNCHANGED << lines, nodeTres, totals >>
      BY <1>1 DEF SkipLine
    <2>2. Listed' = Listed
      BY <2>1, ListedNext
    <2>3. QED
      BY <2>1, <2>2 DEF Seen
  <1>2. CASE UNCHANGED << lines, next, keys, nodeTres, totals >>
    BY <1>2 DEF Seen, Listed
  <1>3. QED
    BY <1>1, <1>2 DEF Elsewhere, EmitCluster, Return, vars

\* The key AddResource writes is new.
LEMMA AddResourceFacts ==
    ASSUME TypeOK, KeysInv, NodesInv, NEW q \in Resources, AddResource(q)
    PROVE  /\ << lines[next - 1].node, q >> \notin DOMAIN nodeTres
           /\ \E total, used \in Nat :
              /\ total = CfgOf(q)[next - 1]
              /\ nodeTres' = Put(nodeTres, << lines[next - 1].node, q >>,
                                 Disposition(total, used))
              /\ totals' = Put(totals, q,
                               [configured |-> TotalsOf(q).configured + total,
                                allocated |-> TotalsOf(q).allocated + used])
              /\ UNCHANGED << lines, next, cluster, returned >>
  <1> DEFINE l == lines[next - 1]
             x == << l.node, q >>
  <1>1. next - 1 \in Listed /\ next - 1 \notin Seen(q) /\ next - 1 \in DOMAIN lines
    BY SeenAdds, ListedFacts
  <1>2. l.node # NoNode
    BY <1>1 DEF Listed
  <1>3. ASSUME x \in DOMAIN nodeTres PROVE FALSE
    <2>1. PICK n \in Seen(q) : lines[n].node = l.node
      BY <1>3 DEF NodesInv
    <2>2. n \in DOMAIN lines
      BY SeenFacts
    <2>3. n = next - 1
      BY <1>1, <1>2, <2>1, <2>2 DEF TypeOK, IsListing
    <2>4. QED
      BY <1>1, <2>1, <2>3
  <1>4. /\ Get(l.cfg, q, 0) \in Nat /\ Get(l.alloc, q, 0) \in Nat
        /\ Get(l.cfg, q, 0) = CfgOf(q)[next - 1]
    BY <1>1, LineFacts DEF TypeOK, CfgOf
  <1> DEFINE total == Get(l.cfg, q, 0)
             used == Get(l.alloc, q, 0)
  <1>5. /\ nodeTres' = Put(nodeTres, x, Disposition(total, used))
        /\ totals' = Put(totals, q,
                         [configured |-> TotalsOf(q).configured + total,
                          allocated |-> TotalsOf(q).allocated + used])
        /\ UNCHANGED << lines, next, cluster, returned >>
    BY DEF AddResource
  <1>6. total \in Nat /\ used \in Nat /\ total = CfgOf(q)[next - 1]
    BY <1>4
  <1> HIDE DEF total, used
  <1>7. QED
    BY <1>3, <1>5, <1>6

LEMMA NodesStep ==
    ASSUME TypeOK, KeysInv, NodesInv, [Next]_vars
    PROVE  NodesInv'
  <1>0. /\ IsFiniteSet(DOMAIN nodeTres)
        /\ \A x \in DOMAIN nodeTres :
              /\ \E n \in Seen(x[2]) : lines[n].node = x[1]
              /\ nodeTres[x].total \in Nat /\ nodeTres[x].allocated \in Nat
              /\ nodeTres[x].available =
                    Minus(nodeTres[x].total, nodeTres[x].allocated)
        /\ \A r \in Resources : \A n \in Seen(r) : r \in Named(lines[n]) =>
              << lines[n].node, r >> \in DOMAIN nodeTres /\ r \in DOMAIN totals
    BY DEF NodesInv
  <1>1. CASE Elsewhere
    <2>1. /\ \A r : Seen(r)' = Seen(r)
          /\ UNCHANGED << lines, nodeTres, totals >>
      BY <1>1, SeenStays
    <2>2. QED
      BY <1>0, <2>1 DEF NodesInv
  <1>2. CASE BeginNode
    <2>1. /\ UNCHANGED << lines, nodeTres, totals >>
          /\ \A r : Seen(r) \subseteq Seen(r)'
          /\ \A r : \A n \in Seen(r)' : r \in Named(lines[n]) => n \in Seen(r)
      BY <1>2, SeenBegins DEF BeginNode
    <2>2. QED
      BY <1>0, <2>1 DEF NodesInv
  <1>3. ASSUME NEW q \in Resources, AddResource(q) PROVE NodesInv'
    <2> DEFINE x == << lines[next - 1].node, q >>
    <2>1. PICK total \in Nat, used \in Nat :
             /\ nodeTres' = Put(nodeTres, x, Disposition(total, used))
             /\ totals' = Put(totals, q,
                              [configured |-> TotalsOf(q).configured + total,
                               allocated |-> TotalsOf(q).allocated + used])
             /\ lines' = lines
      BY <1>3, AddResourceFacts
    <2>2. DOMAIN totals' = DOMAIN totals \cup {q}
      BY <2>1 DEF Put
    <2>3. /\ Seen(q)' = Seen(q) \cup {next - 1}
          /\ \A r : r # q => Seen(r)' = Seen(r)
      BY <1>3, SeenAdds
    <2> DEFINE v == Disposition(total, used)
    <2>4. /\ v.total \in Nat /\ v.allocated \in Nat
          /\ v.available = Minus(v.total, v.allocated)
      <3> HIDE DEF x
      <3>1. total \in Nat /\ used \in Nat
        OBVIOUS
      <3>2. v.total = total /\ v.allocated = used /\ v.available = Minus(total, used)
        BY <3>1, DispositionFacts
      <3>3. QED
        BY <3>1, <3>2
    <2>5. /\ x[1] = lines[next - 1].node /\ x[2] = q
          /\ nodeTres' = Put(nodeTres, x, v)
      BY <2>1
    <2>6. \A n \in DOMAIN lines : << lines[n].node, q >> = x
             <=> lines[n].node = lines[next - 1].node
      OBVIOUS
    <2> HIDE DEF v, x
    <2>7. /\ DOMAIN nodeTres' = DOMAIN nodeTres \cup {x}
          /\ nodeTres'[x] = v
          /\ \A y \in DOMAIN nodeTres : y # x => nodeTres'[y] = nodeTres[y]
      BY <2>5 DEF Put
    <2>8. IsFiniteSet(DOMAIN nodeTres')
      BY <1>0, <2>7, FS_AddElement
    <2>9. ASSUME NEW y \in DOMAIN nodeTres'
          PROVE  /\ \E n \in Seen(y[2])' : lines'[n].node = y[1]
                 /\ nodeTres'[y].total \in Nat /\ nodeTres'[y].allocated \in Nat
                 /\ nodeTres'[y].available =
                       Minus(nodeTres'[y].total, nodeTres'[y].allocated)
      <3>1. CASE y = x
        BY <2>1, <2>3, <2>4, <2>5, <2>7, <3>1
      <3>2. CASE y # x
        <4>1. y \in DOMAIN nodeTres /\ nodeTres'[y] = nodeTres[y]
          BY <2>7, <2>9, <3>2
        <4>2. PICK n \in Seen(y[2]) : lines[n].node = y[1]
          BY <1>0, <4>1
        <4>3. n \in Seen(y[2])'
          BY <2>3
        <4>4. QED
          BY <1>0, <2>1, <4>1, <4>2, <4>3
      <3>3. QED
        BY <3>1, <3>2
    <2>10. ASSUME NEW r \in Resources, NEW n \in Seen(r)', r \in Named(lines'[n])
          PROVE  << lines'[n].node, r >> \in DOMAIN nodeTres' /\ r \in DOMAIN totals'
      <3>1. CASE n \in Seen(r)
        BY <1>0, <2>2, <2>1, <2>7, <2>10, <3>1
      <3>2. CASE n \notin Seen(r)
        <4>1. r = q /\ n = next - 1
          BY <2>3, <2>10, <3>2
        <4>2. QED
          BY <2>2, <2>1, <2>7, <4>1 DEF x
      <3>3. QED
        BY <3>1, <3>2
    <2>11. QED
      BY <2>8, <2>9, <2>10 DEF NodesInv
  <1>4. QED
    BY <1>1, <1>2, <1>3 DEF Next, Elsewhere

LEMMA HasFacts ==
    ASSUME NodesInv, NEW r
    PROVE  /\ IsFiniteSet(Has(r)) /\ Has(r) \subseteq DOMAIN nodeTres
           /\ \A x \in Has(r) : Total[x] \in Nat /\ Allocated[x] \in Nat
           /\ SumFunctionOnSet(Total, Has(r)) \in Nat
           /\ SumFunctionOnSet(Allocated, Has(r)) \in Nat
  <1>1. Has(r) \subseteq DOMAIN nodeTres
    BY DEF Has
  <1>2. IsFiniteSet(Has(r))
    BY <1>1, FS_Subset DEF NodesInv
  <1>3. \A x \in Has(r) : Total[x] \in Nat /\ Allocated[x] \in Nat
    BY <1>1 DEF NodesInv, Total, Allocated
  <1>4. QED
    BY <1>1, <1>2, <1>3, SumType

LEMMA TotalsStep ==
    ASSUME TypeOK, KeysInv, NodesInv, TotalsInv, [Next]_vars
    PROVE  TotalsInv'
  <1>0. ASSUME NEW r \in Resources
        PROVE  /\ TotalsOf(r).configured = SumFunctionOnSet(CfgOf(r), Seen(r))
               /\ TotalsOf(r).configured = SumFunctionOnSet(Total, Has(r))
               /\ TotalsOf(r).allocated = SumFunctionOnSet(Allocated, Has(r))
    BY DEF TotalsInv
  <1>1. CASE Elsewhere
    <2>1. /\ \A r : Seen(r)' = Seen(r)
          /\ UNCHANGED << lines, nodeTres, totals >>
      BY <1>1, SeenStays
    <2>2. QED
      BY <1>0, <2>1 DEF TotalsInv, TotalsOf, CfgOf, Total, Allocated, Has
  <1>2. CASE BeginNode
    <2>1. UNCHANGED << lines, nodeTres, totals >>
      BY <1>2 DEF BeginNode
    <2>2. ASSUME NEW r \in Resources
          PROVE  SumFunctionOnSet(CfgOf(r), Seen(r)') = SumFunctionOnSet(CfgOf(r), Seen(r))
      <3>1. CASE r \in Named(lines[next])
        BY <1>2, <3>1, SeenBegins
      <3>2. CASE r \notin Named(lines[next])
        <4>1. /\ Seen(r)' = Seen(r) \cup {next} /\ CfgOf(r)[next] = 0
              /\ next \notin Seen(r)
          BY <1>2, <3>2, SeenBegins
        <4>2. /\ IsFiniteSet(Seen(r)) /\ \A n \in Seen(r) : CfgOf(r)[n] \in Int
              /\ SumFunctionOnSet(CfgOf(r), Seen(r)) \in Nat
          BY SeenFacts
        <4>3. SumFunctionOnSet(CfgOf(r), Seen(r) \cup {next}) =
                 SumFunctionOnSet(CfgOf(r), Seen(r)) + CfgOf(r)[next]
          BY <4>1, <4>2, SumAdd
        <4>4. QED
          BY <4>1, <4>2, <4>3
      <3>3. QED
        BY <3>1, <3>2
    <2>3. ASSUME NEW r
          PROVE  /\ TotalsOf(r)' = TotalsOf(r) /\ CfgOf(r)' = CfgOf(r)
                 /\ Has(r)' = Has(r)
      BY <2>1 DEF TotalsOf, CfgOf, Has
    <2>4. Total' = Total /\ Allocated' = Allocated
      BY <2>1 DEF Total, Allocated
    <2>5. QED
      BY <1>0, <2>2, <2>3, <2>4 DEF TotalsInv
  <1>3. ASSUME NEW q \in Resources, AddResource(q) PROVE TotalsInv'
    <2> DEFINE x == << lines[next - 1].node, q >>
    <2>1. PICK total \in Nat, used \in Nat :
             /\ total = CfgOf(q)[next - 1]
             /\ nodeTres' = Put(nodeTres, x, Disposition(total, used))
             /\ totals' = Put(totals, q,
                              [configured |-> TotalsOf(q).configured + total,
                               allocated |-> TotalsOf(q).allocated + used])
             /\ lines' = lines
      BY <1>3, AddResourceFacts
    <2>2. x \notin DOMAIN nodeTres /\ x[2] = q
      BY <1>3, AddResourceFacts
    <2> DEFINE v == Disposition(total, used)
    <2>3. v.total = total /\ v.allocated = used
      BY DispositionFacts
    <2>4. nodeTres' = Put(nodeTres, x, v)
      BY <2>1
    <2> HIDE DEF v, x
    <2>5. /\ DOMAIN nodeTres' = DOMAIN nodeTres \cup {x}
          /\ nodeTres'[x] = v
          /\ \A y \in DOMAIN nodeTres : nodeTres'[y] = nodeTres[y]
      BY <2>2, <2>4 DEF Put
    <2>6. /\ Total'[x] = total /\ Allocated'[x] = used
          /\ \A y \in DOMAIN nodeTres : /\ Total'[y] = Total[y]
                                       /\ Allocated'[y] = Allocated[y]
      BY <2>3, <2>5 DEF Total, Allocated
    <2>7. ASSUME NEW r \in Resources, r # q
          PROVE  /\ TotalsOf(r)'.configured = SumFunctionOnSet(CfgOf(r)', Seen(r)')
                 /\ TotalsOf(r)'.configured = SumFunctionOnSet(Total', Has(r)')
                 /\ TotalsOf(r)'.allocated = SumFunctionOnSet(Allocated', Has(r)')
      <3>1. Seen(r)' = Seen(r) /\ CfgOf(r)' = CfgOf(r)
        BY <1>3, <2>1, <2>7, SeenAdds DEF CfgOf
      <3>2. Has(r)' = Has(r) /\ Has(r) \subseteq DOMAIN nodeTres
        BY <2>2, <2>5, <2>7 DEF Has
      <3>3. TotalsOf(r)' = TotalsOf(r)
        BY <2>1, <2>7 DEF TotalsOf, Get, Put
      <3>4. /\ SumFunctionOnSet(Total', Has(r)) = SumFunctionOnSet(Total, Has(r))
            /\ SumFunctionOnSet(Allocated', Has(r)) =
                  SumFunctionOnSet(Allocated, Has(r))
        BY <2>6, <3>2, HasFacts, SumSame
      <3>5. QED
        BY <1>0, <3>1, <3>2, <3>3, <3>4
    <2>8. /\ TotalsOf(q)'.configured = SumFunctionOnSet(CfgOf(q)', Seen(q)')
          /\ TotalsOf(q)'.configured = SumFunctionOnSet(Total', Has(q)')
          /\ TotalsOf(q)'.allocated = SumFunctionOnSet(Allocated', Has(q)')
      <3>1. /\ Seen(q)' = Seen(q) \cup {next - 1} /\ CfgOf(q)' = CfgOf(q)
            /\ next - 1 \notin Seen(q)
        BY <1>3, <2>1, SeenAdds DEF CfgOf
      <3>2. /\ Has(q)' = Has(q) \cup {x} /\ x \notin Has(q)
            /\ Has(q) \subseteq DOMAIN nodeTres
        BY <2>2, <2>5 DEF Has
      <3>3. /\ TotalsOf(q)'.configured = TotalsOf(q).configured + total
            /\ TotalsOf(q)'.allocated = TotalsOf(q).allocated + used
        BY <2>1 DEF TotalsOf, Get, Put
      <3>4. SumFunctionOnSet(CfgOf(q), Seen(q) \cup {next - 1}) =
               SumFunctionOnSet(CfgOf(q), Seen(q)) + total
        <4>1. IsFiniteSet(Seen(q)) /\ \A n \in Seen(q) : CfgOf(q)[n] \in Int
          BY SeenFacts
        <4>2. QED
          BY <2>1, <3>1, <4>1, SumAdd
      <3>5. /\ SumFunctionOnSet(Total', Has(q)) = SumFunctionOnSet(Total, Has(q))
            /\ SumFunctionOnSet(Allocated', Has(q)) =
                  SumFunctionOnSet(Allocated, Has(q))
        BY <2>6, <3>2, HasFacts, SumSame
      <3>6. /\ SumFunctionOnSet(Total', Has(q) \cup {x}) =
                  SumFunctionOnSet(Total', Has(q)) + total
            /\ SumFunctionOnSet(Allocated', Has(q) \cup {x}) =
                  SumFunctionOnSet(Allocated', Has(q)) + used
        <4>1. /\ IsFiniteSet(Has(q)) /\ total \in Int /\ used \in Int
              /\ \A y \in Has(q) : Total'[y] \in Int /\ Allocated'[y] \in Int
          BY <2>6, <3>2, HasFacts
        <4>2. SumFunctionOnSet(Total', Has(q) \cup {x}) =
                  SumFunctionOnSet(Total', Has(q)) + Total'[x]
          BY <2>6, <3>2, <4>1, SumAdd
        <4>3. SumFunctionOnSet(Allocated', Has(q) \cup {x}) =
                  SumFunctionOnSet(Allocated', Has(q)) + Allocated'[x]
          BY <2>6, <3>2, <4>1, SumAdd
        <4>4. QED
          BY <2>6, <4>2, <4>3
      <3>7. QED
        BY <1>0, <3>1, <3>2, <3>3, <3>4, <3>5, <3>6
    <2>9. QED
      BY <2>7, <2>8 DEF TotalsInv
  <1>4. QED
    BY <1>1, <1>2, <1>3 DEF Next, Elsewhere

LEMMA ClusterStep ==
    ASSUME TypeOK, ClusterInv, [Next]_vars
    PROVE  ClusterInv'
  <1>1. CASE SkipLine \/ BeginNode
    <2>1. next <= Len(lines) /\ next \in Nat /\ Len(lines) \in Nat
      BY <1>1, ListedFacts DEF SkipLine, BeginNode
    <2>2. ~ (next > Len(lines))
      BY <2>1
    <2>3. DOMAIN cluster = {} /\ ~returned
      BY <2>2 DEF ClusterInv
    <2>4. QED
      BY <1>1, <2>3 DEF SkipLine, BeginNode, ClusterInv
  <1>2. ASSUME NEW q \in Resources, AddResource(q) PROVE ClusterInv'
    <2>1. DOMAIN cluster = {} /\ ~returned
      BY <1>2 DEF AddResource, ClusterInv
    <2>2. QED
      BY <1>2, <2>1 DEF AddResource, ClusterInv
  <1>3. ASSUME NEW q \in Resources, EmitCluster(q) PROVE ClusterInv'
    <2> DEFINE v == Disposition(totals[q].configured, totals[q].allocated)
    <2>1. /\ q \in DOMAIN totals \ DOMAIN cluster /\ ~returned
          /\ cluster' = Put(cluster, q, v)
          /\ keys = {} /\ next > Len(lines)
          /\ UNCHANGED << lines, next, keys, totals, returned >>
      BY <1>3 DEF EmitCluster, ClusterInv
    <2>2. /\ DOMAIN cluster' = DOMAIN cluster \cup {q} /\ cluster'[q] = v
          /\ \A r \in DOMAIN cluster : r # q => cluster'[r] = cluster[r]
      BY <2>1 DEF Put
    <2>3. QED
      BY <2>1, <2>2 DEF ClusterInv
  <1>4. CASE Return
    BY <1>4 DEF Return, ClusterInv
  <1>5. CASE UNCHANGED vars
    BY <1>5 DEF vars, ClusterInv
  <1>6. QED
    BY <1>1, <1>2, <1>3, <1>4, <1>5 DEF Next

(***************************************************************************)
(* What the cluster has.                                                   *)
(***************************************************************************)

\* Summed up over nodes, what is available under a floor of zero is at least
\* the difference of the sums, and more only where a node is overcommitted.
LEMMA SpareFacts ==
    ASSUME NodesInv, NEW r, NEW t, NEW u,
           t = SumFunctionOnSet(Total, Has(r)),
           u = SumFunctionOnSet(Allocated, Has(r)),
           NEW spare,
           spare = SumFunctionOnSet([x \in Has(r) |-> nodeTres[x].available], Has(r))
    PROVE  /\ t \in Nat /\ u \in Nat /\ spare \in Nat
           /\ t <= spare + u
           /\ (\A x \in Has(r) : nodeTres[x].allocated <= nodeTres[x].total) =>
                 t = spare + u
  <1> DEFINE a == [x \in Has(r) |-> nodeTres[x].available]
             s == [x \in Has(r) |-> nodeTres[x].available + nodeTres[x].allocated]
  <1>1. /\ IsFiniteSet(Has(r)) /\ Has(r) \subseteq DOMAIN nodeTres
        /\ t \in Nat /\ u \in Nat
    BY HasFacts
  <1>2. ASSUME NEW x \in Has(r)
        PROVE  /\ a[x] \in Nat /\ Total[x] \in Nat /\ Allocated[x] \in Nat
               /\ s[x] = a[x] + Allocated[x] /\ Total[x] <= s[x]
               /\ nodeTres[x].allocated <= nodeTres[x].total => Total[x] = s[x]
    <2>1. /\ nodeTres[x].total \in Nat /\ nodeTres[x].allocated \in Nat
          /\ nodeTres[x].available = Minus(nodeTres[x].total, nodeTres[x].allocated)
          /\ Total[x] = nodeTres[x].total /\ Allocated[x] = nodeTres[x].allocated
      BY <1>1 DEF NodesInv, Total, Allocated
    <2>2. QED
      BY <2>1 DEF Minus
  <1> HIDE DEF a, s
  <1>3. SumFunctionOnSet(a, Has(r)) \in Nat
    BY <1>1, <1>2, SumType
  <1>4. SumFunctionOnSet(s, Has(r)) = SumFunctionOnSet(a, Has(r)) + u
    <2>1. \A x \in Has(r) : a[x] \in Int /\ Allocated[x] \in Int
                            /\ s[x] = a[x] + Allocated[x]
      BY <1>2
    <2>2. QED
      BY <1>1, <2>1, SumOfBoth
  <1>5. t <= SumFunctionOnSet(s, Has(r))
    <2>1. \A x \in Has(r) : Total[x] \in Int /\ s[x] \in Int /\ Total[x] <= s[x]
      BY <1>2
    <2>2. QED
      BY <1>1, <2>1, SumAtMost
  <1>6. ASSUME \A x \in Has(r) : nodeTres[x].allocated <= nodeTres[x].total
        PROVE  t = SumFunctionOnSet(s, Has(r))
    <2>1. \A x \in Has(r) : Total[x] = s[x]
      BY <1>2, <1>6
    <2>2. QED
      BY <1>1, <2>1, SumSame
  <1>7. spare = SumFunctionOnSet(a, Has(r))
    BY DEF a
  <1>8. QED
    BY <1>1, <1>3, <1>4, <1>5, <1>6, <1>7

LEMMA ClusterAddsUp ==
    ASSUME TypeOK, NodesInv, TotalsInv, ClusterInv
    PROVE  ClusterIsTheSumOfItsNodes
  <1> USE DEF ClusterIsTheSumOfItsNodes
  <1> TAKE r \in DOMAIN cluster
  <1> HIDE DEF ClusterIsTheSumOfItsNodes
  <1> DEFINE t == totals[r].configured
             u == totals[r].allocated
             spare == SumFunctionOnSet([x \in Has(r) |-> nodeTres[x].available], Has(r))
  <1>1. /\ r \in DOMAIN totals /\ r \in Resources /\ keys = {}
        /\ cluster[r] = Disposition(t, u) /\ t \in Nat /\ u \in Nat
        /\ TotalsOf(r) = totals[r]
    BY DEF ClusterInv, TypeOK, TotalsOf, Get
  <1>2. /\ t = SumFunctionOnSet(CfgOf(r), Listed)
        /\ t = SumFunctionOnSet(Total, Has(r))
        /\ u = SumFunctionOnSet(Allocated, Has(r))
    BY <1>1, SeenFacts DEF TotalsInv
  <1>3. /\ cluster[r].total = t /\ cluster[r].allocated = u
        /\ cluster[r].available = Minus(t, u)
    BY <1>1 DEF Disposition
  <1> HIDE DEF t, u
  <1>4. t = SumFunction([n \in Listed |-> Get(lines[n].cfg, r, 0)])
    <2> DEFINE f == [n \in Listed |-> Get(lines[n].cfg, r, 0)]
    <2>1. \A n \in Listed : CfgOf(r)[n] = f[n]
      BY ListedFacts DEF CfgOf
    <2>2. DOMAIN f = Listed
      OBVIOUS
    <2> HIDE DEF f
    <2>3. SumFunctionOnSet(CfgOf(r), Listed) = SumFunctionOnSet(f, Listed)
      BY <2>1, ListedFacts, SumSame
    <2>4. QED
      BY <1>2, <2>2, <2>3 DEF SumFunction, f
  <1>5. u = SumFunction([n \in Has(r) |-> nodeTres[n].allocated])
    <2> DEFINE f == [n \in Has(r) |-> nodeTres[n].allocated]
    <2>1. \A n \in Has(r) : Allocated[n] = f[n]
      BY HasFacts DEF Allocated
    <2>2. DOMAIN f = Has(r)
      OBVIOUS
    <2> HIDE DEF f
    <2>3. SumFunctionOnSet(Allocated, Has(r)) = SumFunctionOnSet(f, Has(r))
      BY <2>1, HasFacts, SumSame
    <2>4. QED
      BY <1>2, <2>2, <2>3 DEF SumFunction, f
  <1>6. spare = Spare(r)
    BY DEF SumFunction, Spare
  <1>7. /\ spare \in Nat /\ t <= spare + u
        /\ (\A x \in Has(r) : nodeTres[x].allocated <= nodeTres[x].total) =>
              t = spare + u
    BY <1>2, SpareFacts
  <1>8. \A x \in Has(r) : nodeTres[x].allocated \in Nat /\ nodeTres[x].total \in Nat
    BY HasFacts DEF NodesInv
  <1> HIDE DEF spare
  <1>9. Minus(t, u) <= spare
    BY <1>1, <1>7 DEF Minus
  <1>10. ASSUME Minus(t, u) < spare
         PROVE  \E x \in Has(r) : nodeTres[x].allocated > nodeTres[x].total
    <2>1. t # spare + u
      BY <1>1, <1>7, <1>10 DEF Minus
    <2>2. QED
      BY <1>7, <1>8, <2>1
  <1>11. QED
    BY <1>3, <1>4, <1>5, <1>6, <1>9, <1>10

LEMMA NothingIsMissed ==
    ASSUME TypeOK, NodesInv, ClusterInv
    PROVE  NoResourceIsMissed
  <1> SUFFICES ASSUME returned, NEW n \in Listed, NEW r \in Named(lines[n])
               PROVE  << lines[n].node, r >> \in DOMAIN nodeTres /\ r \in DOMAIN cluster
    BY DEF NoResourceIsMissed, Named
  <1>1. keys = {} /\ DOMAIN cluster = DOMAIN totals
    BY DEF ClusterInv
  <1>2. n \in Seen(r) /\ r \in Resources
    BY <1>1, SeenFacts, ListedFacts, LineFacts DEF TypeOK
  <1>3. QED
    BY <1>1, <1>2 DEF NodesInv

(***************************************************************************)
(* Profiles.                                                               *)
(***************************************************************************)

\* The nodes a count is about.
At(c) == {n \in Listed : Profile(lines[n].cfg) = c[1] /\ lines[n].state = c[2]}

ProfilesInv ==
    /\ ProfilesPartitionNodes
    /\ \A c \in DOMAIN counts : c = << c[1], c[2] >>
    /\ \A n \in Listed : Profile(lines[n].cfg) \in DOMAIN profiles

LEMMA ProfilesStep ==
    ASSUME TypeOK, ProfilesInv, [Next]_vars
    PROVE  ProfilesInv'
  <1>0. /\ \A n \in Listed : << Profile(lines[n].cfg), lines[n].state >> \in DOMAIN counts
        /\ \A c \in DOMAIN counts : counts[c] = Cardinality(At(c))
        /\ \A n \in Listed : profiles[Profile(lines[n].cfg)] = lines[n].cfg
        /\ \A c \in DOMAIN counts : c = << c[1], c[2] >>
        /\ \A n \in Listed : Profile(lines[n].cfg) \in DOMAIN profiles
    BY DEF ProfilesInv, ProfilesPartitionNodes, At
  <1>1. CASE UNCHANGED << lines, Listed, counts, profiles >>
    BY <1>1 DEF ProfilesInv, ProfilesPartitionNodes
  <1>2. CASE SkipLine
    <2>1. UNCHANGED << lines, counts, profiles >>
      BY <1>2 DEF SkipLine
    <2>2. Listed' = Listed
      BY <1>2, ListedNext DEF SkipLine
    <2>3. QED
      BY <1>1, <2>1, <2>2
  <1>3. CASE BeginNode
    <2> DEFINE l == lines[next]
               Later(d) == {n \in Listed' : /\ Profile(lines'[n].cfg) = d[1]
                                            /\ lines'[n].state = d[2]}
    <2>1. PICK c : c = << Profile(l.cfg), l.state >>
      OBVIOUS
    <2>2. /\ next <= Len(lines) /\ next' = next + 1 /\ lines' = lines
          /\ l.node # NoNode
          /\ profiles' = Put(profiles, Profile(l.cfg), l.cfg)
          /\ counts' = Put(counts, c, Counted(c))
      BY <1>3, <2>1 DEF BeginNode
    <2>3. Listed' = Listed \cup {next} /\ next \notin Listed /\ IsFiniteSet(Listed)
      BY <2>2, ListedNext, ListedFacts
    <2>4. c[1] = Profile(l.cfg) /\ c[2] = l.state /\ c = << c[1], c[2] >>
      BY <2>1
    <2>5. /\ \A n \in Listed : profiles'[Profile(lines'[n].cfg)] = lines'[n].cfg
          /\ profiles'[Profile(l.cfg)] = l.cfg
          /\ DOMAIN profiles' = DOMAIN profiles \cup {Profile(l.cfg)}
      <3>1. \A p \in DOMAIN profiles : p # Profile(l.cfg) => profiles'[p] = profiles[p]
        BY <2>2 DEF Put
      <3>2. /\ DOMAIN profiles' = DOMAIN profiles \cup {Profile(l.cfg)}
            /\ profiles'[Profile(l.cfg)] = l.cfg
        BY <2>2 DEF Put
      <3>3. QED
        BY <1>0, <2>2, <3>1, <3>2 DEF Profile
    <2>6. /\ DOMAIN counts' = DOMAIN counts \cup {c}
          /\ counts'[c] = Counted(c)
          /\ \A d \in DOMAIN counts : d # c => counts'[d] = counts[d]
      <3> DEFINE v == Counted(c)
      <3>1. counts' = Put(counts, c, v)
        BY <2>2
      <3> HIDE DEF v
      <3>2. /\ DOMAIN counts' = DOMAIN counts \cup {c}
            /\ counts'[c] = v
            /\ \A d \in DOMAIN counts : d # c => counts'[d] = counts[d]
        BY <3>1 DEF Put
      <3>3. QED
        BY <3>2 DEF v
    <2>7. \A n \in Listed' :
             << Profile(lines'[n].cfg), lines'[n].state >> \in DOMAIN counts'
      BY <1>0, <2>1, <2>2, <2>3, <2>6
    <2>8. \A d \in DOMAIN counts' : d = << d[1], d[2] >>
      BY <1>0, <2>4, <2>6
    <2>9. /\ IsFiniteSet(At(c)) /\ next \notin At(c)
           /\ Later(c) = At(c) \cup {next}
      <3>1. IsFiniteSet(At(c)) /\ next \notin At(c)
        BY <2>3, FS_Subset DEF At
      <3>2. Later(c) = {n \in Listed \cup {next} :
                          Profile(lines[n].cfg) = c[1] /\ lines[n].state = c[2]}
        BY <2>2, <2>3
      <3>3. QED
        BY <2>4, <3>1, <3>2 DEF At
    <2>10. ASSUME NEW d \in DOMAIN counts, d # c
          PROVE  Later(d) = At(d)
      <3>1. Later(d) = {n \in Listed \cup {next} :
                          Profile(lines[n].cfg) = d[1] /\ lines[n].state = d[2]}
        BY <2>2, <2>3
      <3>2. ~ (Profile(lines[next].cfg) = d[1] /\ lines[next].state = d[2])
        BY <1>0, <2>1, <2>10
      <3>3. QED
        BY <3>1, <3>2 DEF At
    <2> HIDE DEF Later
    <2>11. counts'[c] = Cardinality(Later(c))
      <3>1. Cardinality(Later(c)) = Cardinality(At(c)) + 1
        <4>1. /\ IsFiniteSet(At(c)) /\ next \notin At(c)
              /\ Later(c) = At(c) \cup {next}
          BY <2>9
        <4>2. Cardinality(At(c) \cup {next}) = Cardinality(At(c)) + 1
          BY <4>1, FS_AddElement
        <4>3. QED
          BY <4>1, <4>2
      <3>2. CASE c \in DOMAIN counts
        <4>1. Counted(c) = Cardinality(At(c)) + 1
          BY <1>0, <3>2 DEF Counted, Get
        <4>2. QED
          BY <2>6, <3>1, <4>1
      <3>3. CASE c \notin DOMAIN counts
        <4>1. Counted(c) = 1
          BY <3>3 DEF Counted, Get
        <4>2. At(c) = {}
          BY <1>0, <2>1, <2>4, <3>3 DEF At
        <4>3. Cardinality(At(c)) = 0
          BY <4>2, FS_EmptySet
        <4>4. QED
          BY <2>6, <3>1, <4>1, <4>3
      <3>4. QED
        BY <3>2, <3>3
    <2>12. \A d \in DOMAIN counts' : counts'[d] = Cardinality(Later(d))
      <3>1. SUFFICES ASSUME NEW d \in DOMAIN counts, d # c
                     PROVE  counts'[d] = Cardinality(Later(d))
        BY <2>6, <2>11
      <3>2. QED
        BY <1>0, <2>6, <2>10, <3>1
    <2>13. \A n \in Listed' : /\ profiles'[Profile(lines'[n].cfg)] = lines'[n].cfg
                              /\ Profile(lines'[n].cfg) \in DOMAIN profiles'
      BY <1>0, <2>2, <2>3, <2>5
    <2>14. QED
      BY <2>7, <2>8, <2>12, <2>13 DEF ProfilesInv, ProfilesPartitionNodes, Later
  <1>4. ASSUME NEW q \in Resources, AddResource(q) \/ EmitCluster(q) PROVE ProfilesInv'
    BY <1>1, <1>4 DEF AddResource, EmitCluster, Listed
  <1>5. CASE Return \/ UNCHANGED vars
    BY <1>1, <1>5 DEF Return, vars, Listed
  <1>6. QED
    BY <1>2, <1>3, <1>4, <1>5 DEF Next

-----------------------------------------------------------------------------

TresInv == TypeOK /\ KeysInv /\ NodesInv /\ TotalsInv /\ ClusterInv /\ ProfilesInv

LEMMA TresBegins == PageInit => TresInv
  <1> SUFFICES ASSUME PageInit PROVE TresInv
    OBVIOUS
  <1>1. /\ lines \in Listings /\ next = 1 /\ keys = {} /\ returned = FALSE
        /\ nodeTres = Nothing /\ totals = Nothing /\ counts = Nothing
        /\ profiles = Nothing /\ cluster = Nothing
    BY DEF PageInit, Init
  <1>2. DOMAIN Nothing = {}
    BY DEF Nothing
  <1>3. IsListing(lines) /\ Len(lines) \in Nat
    BY <1>1, ListingsAssumption DEF IsListing
  <1>4. TypeOK
    <2>1. next \in 1 .. Len(lines) + 1
      BY <1>1, <1>3
    <2>2. /\ DOMAIN nodeTres = {} /\ DOMAIN totals = {} /\ DOMAIN counts = {}
          /\ DOMAIN cluster = {} /\ keys \subseteq Resources
          /\ returned \in BOOLEAN
      BY <1>1, <1>2
    <2>3. QED
      BY <1>3, <2>1, <2>2 DEF TypeOK
  <1>5. KeysInv
    BY <1>1 DEF KeysInv
  <1>6. Listed = {} /\ \A r : Seen(r) = {} /\ Has(r) = {}
    BY <1>1, <1>2 DEF Listed, Seen, Has
  <1>7. NodesInv
    BY <1>1, <1>2, <1>6, FS_EmptySet DEF NodesInv
  <1>8. TotalsInv
    <2>1. \A r : TotalsOf(r) = Zeros
      BY <1>1, <1>2 DEF TotalsOf, Get
    <2>2. QED
      BY <1>6, <2>1, SumEmpty DEF TotalsInv, Zeros
  <1>9. ClusterInv
    BY <1>1, <1>2 DEF ClusterInv
  <1>10. ProfilesInv
    BY <1>1, <1>2, <1>6 DEF ProfilesInv, ProfilesPartitionNodes
  <1>11. QED
    BY <1>4, <1>5, <1>7, <1>8, <1>9, <1>10 DEF TresInv

LEMMA TresStep == TresInv /\ [PageNext]_pageVars => TresInv'
  <1> SUFFICES ASSUME TresInv, [PageNext]_pageVars PROVE TresInv'
    OBVIOUS
  <1>1. [Next]_vars
    BY DEF PageNext, InQueue, InTresProfiles, Collect, pageVars
  <1>2. QED
    BY <1>1, TresTypeStep, NodesStep, TotalsStep, ClusterStep, ProfilesStep DEF TresInv

LEMMA TresInvHolds == PageSpec => []TresInv
  BY TresBegins, TresStep, PTL DEF PageSpec

\* tresProfiles keeps its types: what is available is never negative and never
\* more than there is, whatever a node has allocated.
THEOREM TresTypes == PageSpec => []TypeOK
  <1>1. TresInv => TypeOK
    BY DEF TresInv
  <1>2. QED
    BY <1>1, TresInvHolds, PTL

\* The cluster's samples of a resource are the sums of the nodes', in whichever
\* order the maps are iterated and for any listing of scontrol.
THEOREM ClusterIsTheSum == PageSpec => []ClusterIsTheSumOfItsNodes
  <1>1. TresInv => ClusterIsTheSumOfItsNodes
    BY ClusterAddsUp DEF TresInv
  <1>2. QED
    BY <1>1, TresInvHolds, PTL

\* No resource of a node is left out, not even one it only has allocated.
THEOREM MissesNoResource == PageSpec => []NoResourceIsMissed
  <1>1. TresInv => NoResourceIsMissed
    BY NothingIsMissed DEF TresInv
  <1>2. QED
    BY <1>1, TresInvHolds, PTL

\* The counts per profile and state partition the nodes, after every line.
THEOREM ProfilesPartition == PageSpec => []ProfilesPartitionNodes
  <1>1. TresInv => ProfilesPartitionNodes
    BY DEF TresInv, ProfilesInv
  <1>2. QED
    BY <1>1, TresInvHolds, PTL

(***************************************************************************)
(* queue: what a row counts for.                                           *)
(***************************************************************************)

\* A time is read as Slurm printed it, in each of the three forms.
THEOREM PrintedIsRead ==
    ASSUME NEW n \in Nat
    PROVE  duration(Printed(n)) = n
  <1>1. CASE n < 3600
    <2>1. /\ Printed(n).days = 0 /\ Printed(n).parts = << n \div 60, n % 60 >>
          /\ Printed(n) # Word
      <3>1. /\ n \div 86400 = 0
        BY <1>1
      <3>2. Printed(n).parts = << n \div 60, n % 60 >>
        BY <1>1 DEF Printed
      <3>3. Printed(n).days = 0
        BY <3>1 DEF Printed
      <3>4. Printed(n).parts # << >>
        BY <3>2
      <3>5. QED
        <4>1. Word.parts = << >>
          BY DEF Word
        <4>2. QED
          BY <3>2, <3>3, <3>4, <4>1
    <2>2. DurationOf(Printed(n)) = 60 * (n \div 60) + (n % 60)
      <3> DEFINE a == n \div 60
                 b == n % 60
      <3>1. a \in Int /\ b \in Int
        OBVIOUS
      <3>2. Printed(n).parts = << a, b >> /\ Printed(n).days = 0
        BY <2>1
      <3> HIDE DEF a, b
      <3>3. Len(Printed(n).parts) = 2 /\ Printed(n).parts[1] = a /\ Printed(n).parts[2] = b
        BY <3>2
      <3>4. DurationOf(Printed(n)) = 60 * a + b
        BY <3>1, <3>2, <3>3 DEF DurationOf
      <3>5. QED
        BY <3>4 DEF a, b
    <2>3. n = 60 * (n \div 60) + (n % 60)
      OBVIOUS
    <2>4. QED
      BY <2>1, <2>2, <2>3 DEF duration
  <1>2. CASE n >= 3600
    <2> DEFINE d == n \div 86400
               h == (n % 86400) \div 3600
               m == (n % 3600) \div 60
               s == n % 60
    <2>1. /\ Printed(n).days = d /\ Printed(n).parts = << h, m, s >>
      BY <1>2 DEF Printed
    <2>2. d \in Int /\ h \in Int /\ m \in Int /\ s \in Int
      OBVIOUS
    <2>3. d * 86400 + (3600 * h + 60 * m + s) = n
      OBVIOUS
    <2> HIDE DEF d, h, m, s
    <2>4. Len(Printed(n).parts) = 3 /\ Printed(n).parts[1] = h /\ Printed(n).parts[2] = m
          /\ Printed(n).parts[3] = s /\ Printed(n).parts # << >>
      BY <2>1
    <2>5. DurationOf(Printed(n)) = d * 86400 + (3600 * h + 60 * m + s)
      BY <2>1, <2>2, <2>4 DEF DurationOf
    <2>6. Printed(n) # Word
      BY <2>4 DEF Word
    <2>7. QED
      BY <2>3, <2>5, <2>6 DEF duration
  <1>3. QED
    BY <1>1, <1>2

LEMMA ElapsedAndLimit ==
    ASSUME NEW r \in QueueRows
    PROVE  /\ ElapsedOf(r) = Counts(r).elapsed /\ ElapsedOf(r) \in Nat
           /\ LimitOf(r) = Counts(r).limit /\ LimitOf(r) \in Nat
  <1>1. r.elapsed \in Nat /\ (r.limit # Unlimited => r.limit \in Nat)
    BY DEF QueueRows
  <1>2. ElapsedOf(r) = r.elapsed
    BY <1>1, PrintedIsRead DEF ElapsedOf
  <1>3. LimitOf(r) = IF r.limit = Unlimited THEN 0 ELSE r.limit
    BY <1>1, PrintedIsRead DEF LimitOf, duration
  <1>4. QED
    BY <1>1, <1>2, <1>3 DEF Counts

LEMMA MemoryAndGpus ==
    ASSUME NEW r \in QueueRows
    PROVE  /\ (IF Fields(r) >= 14 THEN MemoryOf(r) ELSE 0) = Counts(r).memory
           /\ (IF Fields(r) >= 14 THEN GpusOf(r) ELSE 0) = Counts(r).gpus
           /\ MemoryOf(r) \in Nat /\ GpusOf(r) \in Nat
  <1>1. /\ r.mem \in Nat /\ r.cpus \in Nat /\ r.nodes \in Nat /\ r.gpus \in Nat
        /\ r.per \in {"job", "cpu", "node"} /\ r.bars \in {0, 1} /\ r.columns \in Nat
    BY DEF QueueRows
  <1> DEFINE requested == CASE r.per = "cpu" -> r.mem * r.cpus
                            [] r.per = "node" -> r.mem * r.nodes
                            [] OTHER -> r.mem
  <1>2. memoryAllocation(r.mem, r.per, r.cpus, r.nodes) = requested
        /\ requested \in Nat
    BY <1>1 DEF memoryAllocation
  <1>3. /\ MemoryOf(r) = IF r.bars > 0 THEN 0 ELSE requested
        /\ GpusOf(r) = IF r.bars > 0 THEN 0 ELSE r.gpus
        /\ MemoryOf(r) \in Nat /\ GpusOf(r) \in Nat
    <2>1. /\ Column(r, 12) = 12 <=> r.bars = 0
          /\ Column(r, 13) = 13 <=> r.bars = 0
      BY <1>1 DEF Column, NameColumn
    <2>2. QED
      BY <1>1, <1>2, <2>1 DEF MemoryOf, GpusOf
  <1>4. /\ Counts(r).memory =
              IF r.bars = 0 /\ r.columns >= 14 THEN requested ELSE 0
        /\ Counts(r).gpus = IF r.bars = 0 /\ r.columns >= 14 THEN r.gpus ELSE 0
    BY DEF Counts
  <1> HIDE DEF requested
  <1>5. QED
    BY <1>1, <1>3, <1>4 DEF Fields, NameColumn

Figures == {"jobs", "nodes", "cpus", "elapsed", "limit", "memory", "gpus"}

LEMMA FiguresAre == DOMAIN Empty = Figures /\ \A f \in Figures : Empty[f] = 0
  BY DEF Empty, Figures

LEMMA CountsFacts ==
    ASSUME NEW r \in QueueRows
    PROVE  \A f \in Figures : Counts(r)[f] \in Nat
  <1>1. /\ Counts(r).elapsed \in Nat /\ Counts(r).limit \in Nat
        /\ Counts(r).memory \in Nat /\ Counts(r).gpus \in Nat
    BY ElapsedAndLimit, MemoryAndGpus
  <1>2. Counts(r).jobs = 1 /\ Counts(r).nodes = r.nodes /\ Counts(r).cpus = r.cpus
    BY DEF Counts
  <1>3. r.nodes \in Nat /\ r.cpus \in Nat
    BY DEF QueueRows
  <1>4. QED
    BY <1>1, <1>2, <1>3 DEF Figures

\* Adding a row adds what its job counts for.
LEMMA AddedFacts ==
    ASSUME NEW r \in QueueRows, NEW a
    PROVE  /\ DOMAIN Added(a, r) = Figures
           /\ \A f \in Figures : Added(a, r)[f] = a[f] + Counts(r)[f]
  <1>1. Counts(r).jobs = 1 /\ Counts(r).nodes = r.nodes /\ Counts(r).cpus = r.cpus
    BY DEF Counts
  <1>2. /\ Added(a, r).jobs = a.jobs + 1
        /\ Added(a, r).nodes = a.nodes + r.nodes
        /\ Added(a, r).cpus = a.cpus + r.cpus
        /\ Added(a, r).elapsed = a.elapsed + ElapsedOf(r)
        /\ Added(a, r).limit = a.limit + LimitOf(r)
        /\ Added(a, r).memory =
              a.memory + (IF Fields(r) >= 14 THEN MemoryOf(r) ELSE 0)
        /\ Added(a, r).gpus = a.gpus + (IF Fields(r) >= 14 THEN GpusOf(r) ELSE 0)
        /\ DOMAIN Added(a, r) = Figures
    BY DEF Added, Figures
  <1>3. /\ Added(a, r).elapsed = a.elapsed + Counts(r).elapsed
        /\ Added(a, r).limit = a.limit + Counts(r).limit
        /\ Added(a, r).memory = a.memory + Counts(r).memory
        /\ Added(a, r).gpus = a.gpus + Counts(r).gpus
    BY <1>2, ElapsedAndLimit, MemoryAndGpus
  <1>4. QED
    BY <1>1, <1>2, <1>3 DEF Figures

LEMMA AddedType ==
    ASSUME NEW r \in QueueRows, NEW a \in [Figures -> Nat]
    PROVE  Added(a, r) \in [Figures -> Nat]
  <1>1. \A f \in Figures : Added(a, r)[f] \in Nat
    BY AddedFacts, CountsFacts
  <1>2. Added(a, r) = [f \in Figures |-> Added(a, r)[f]]
    BY DEF Added, Figures
  <1>3. QED
    BY <1>1, <1>2

SeriesFigures == {"nodes", "cpus", "elapsed", "memory", "gpus"}

\* A running job's series say what its row counts for in its group.
LEMMA SeriesFacts ==
    ASSUME NEW r \in QueueRows
    PROVE  /\ SeriesOfJob(r) \in JobSamples
           /\ SeriesOfJob(r).labels.job_id = r.job
           /\ Fields(r) >= 14 =>
                 \A f \in SeriesFigures : SeriesOfJob(r)[f] = Counts(r)[f]
  <1>1. /\ SeriesOfJob(r).nodes = r.nodes /\ SeriesOfJob(r).cpus = r.cpus
        /\ SeriesOfJob(r).memory = MemoryOf(r) /\ SeriesOfJob(r).gpus = GpusOf(r)
        /\ SeriesOfJob(r).elapsed = ElapsedOf(r)
    BY DEF SeriesOfJob
  <1>2. Counts(r).nodes = r.nodes /\ Counts(r).cpus = r.cpus
    BY DEF Counts
  <1>3. r.nodes \in Nat /\ r.cpus \in Nat
    BY DEF QueueRows
  <1>4. JobLabels(r) \in [job_id : QueueJobs, group : QueueLabels,
                         user : {10, 11}, nodelist : {15, 16}]
    BY DEF JobLabels, Column, NameColumn, QueueRows
  <1>5. \A i : TimeIn(r, i) \subseteq Nat
               /\ TimeIn(r, i) \subseteq {r.submit, r.submit + r.wait}
    BY DEF TimeIn, QueueRows
  <1>6. {s - t : s \in TimeIn(r, 15), t \in TimeIn(r, 14)} \subseteq Nat
    <2>1. \A t \in TimeIn(r, 14) : t = r.submit
      BY DEF TimeIn, Column, NameColumn, QueueRows
    <2>2. \A s \in TimeIn(r, 15) : s - r.submit \in Nat
      BY <1>5 DEF QueueRows
    <2>3. QED
      BY <2>1, <2>2
  <1>7. SeriesOfJob(r) \in JobSamples
    BY <1>3, <1>4, <1>5, <1>6, ElapsedAndLimit, MemoryAndGpus
       DEF SeriesOfJob, JobSamples
  <1>8. SeriesOfJob(r).labels.job_id = r.job
    BY DEF SeriesOfJob, JobLabels
  <1>9. Fields(r) >= 14 =>
           \A f \in SeriesFigures : SeriesOfJob(r)[f] = Counts(r)[f]
    BY <1>1, <1>2, ElapsedAndLimit, MemoryAndGpus DEF SeriesFigures
  <1>10. QED
    BY <1>7, <1>8, <1>9

(***************************************************************************)
(* queue: the two loops.                                                   *)
(***************************************************************************)

\* The rows the first loop has added, and of these the ones of a group.
Rows == {i \in DOMAIN squeue : /\ qpass = "rows" => i < qnext
                               /\ Fields(squeue[i]) >= 9}
Group(k) == {i \in Rows : KeyOf(squeue[i]) = k}
CountsOf(f) == [i \in DOMAIN squeue |-> Counts(squeue[i])[f]]

SumsInv ==
    /\ DOMAIN sums = {KeyOf(squeue[i]) : i \in Rows}
    /\ \A k \in DOMAIN sums, f \in Figures :
          sums[k][f] = SumFunctionOnSet(CountsOf(f), Group(k))

JobsInv ==
    /\ qpass = "jobs" => includeJobs
    /\ DOMAIN jobSeries = {i \in DOMAIN squeue : /\ includeJobs /\ qpass # "rows"
                                                 /\ qpass = "jobs" => i < qnext
                                                 /\ Runs(squeue[i])}
    /\ \A i \in DOMAIN jobSeries : jobSeries[i] = SeriesOfJob(squeue[i])

LEMMA QueueFacts ==
    ASSUME QueueTypeOK
    PROVE  /\ Len(squeue) \in Nat /\ DOMAIN squeue = 1 .. Len(squeue)
           /\ IsFiniteSet(DOMAIN squeue)
           /\ \A i \in DOMAIN squeue : squeue[i] \in QueueRows
           /\ \A i \in DOMAIN squeue : /\ KeyOf(squeue[i]) \in QueueStates \X QueueLabels
                                       /\ Fields(squeue[i]) \in Nat
           /\ qnext \in 1 .. Len(squeue) + 1
           /\ qnext <= Len(squeue) => qnext \in DOMAIN squeue
  <1>1. squeue \in Seq(QueueRows) /\ qnext \in 1 .. Len(squeue) + 1
    BY DEF QueueTypeOK
  <1>2. /\ Len(squeue) \in Nat /\ DOMAIN squeue = 1 .. Len(squeue)
        /\ \A i \in DOMAIN squeue : squeue[i] \in QueueRows
    BY <1>1
  <1>3. IsFiniteSet(DOMAIN squeue)
    BY <1>2, FS_Interval
  <1>4. \A r \in QueueRows : KeyOf(r) \in QueueStates \X QueueLabels
                             /\ Fields(r) \in Nat
    BY DEF KeyOf, Fields, NameColumn, QueueRows
  <1>5. QED
    BY <1>1, <1>2, <1>3, <1>4

LEMMA SumsAtType ==
    ASSUME QueueTypeOK, NEW k
    PROVE  SumsAt(k) \in [Figures -> Nat]
  <1>1. Empty \in [Figures -> Nat]
    BY DEF Empty, Figures
  <1>2. QED
    BY <1>1, FiguresAre DEF SumsAt, QueueTypeOK

LEMMA QueueTypeStep ==
    ASSUME QueueTypeOK, [QueueNext]_queueVars
    PROVE  QueueTypeOK'
  <1>0. /\ squeue \in Seq(QueueRows) /\ includeJobs \in BOOLEAN
        /\ qpass \in {"rows", "jobs", "returned"}
        /\ qnext \in 1 .. Len(squeue) + 1
        /\ DOMAIN sums \subseteq QueueStates \X QueueLabels
        /\ \A k \in DOMAIN sums : sums[k] \in [Figures -> Nat]
        /\ \A i \in DOMAIN jobSeries : /\ Fields(squeue[i]) > 16
                                       /\ jobSeries[i] \in JobSamples
    BY FiguresAre DEF QueueTypeOK
  <1>1. CASE UNCHANGED << squeue, includeJobs, sums, jobSeries >>
             /\ qpass' \in {"rows", "jobs", "returned"}
             /\ qnext' \in 1 .. Len(squeue) + 1
    BY <1>0, <1>1, FiguresAre DEF QueueTypeOK
  <1>2. NextRow => qnext' \in 1 .. Len(squeue) + 1 /\ qnext \in DOMAIN squeue
                   /\ UNCHANGED << squeue, includeJobs, qpass >>
    BY QueueFacts DEF NextRow
  <1>3. CASE PassOverRow \/ PassOverJob
    BY <1>0, <1>1, <1>2, <1>3 DEF PassOverRow, PassOverJob
  <1>4. CASE EndRows
    <2>1. 1 \in 1 .. Len(squeue) + 1
      BY QueueFacts
    <2>2. QED
      BY <1>1, <1>4, <2>1 DEF EndRows
  <1>5. CASE QueueReturns
    BY <1>0, <1>1, <1>5 DEF QueueReturns
  <1>6. CASE AddRow
    <2> DEFINE r == squeue[qnext]
               key == KeyOf(r)
               a == Added(SumsAt(key), r)
    <2>1. r \in QueueRows /\ key \in QueueStates \X QueueLabels
      BY <1>2, <1>6, QueueFacts DEF AddRow
    <2>2. a \in [Figures -> Nat]
      BY <2>1, SumsAtType, AddedType
    <2>3. /\ DOMAIN sums' = DOMAIN sums \cup {key}
          /\ sums'[key] = a
          /\ \A k \in DOMAIN sums : k # key => sums'[k] = sums[k]
      BY <1>6 DEF AddRow
    <2> HIDE DEF key, a
    <2>4. /\ DOMAIN sums' \subseteq QueueStates \X QueueLabels
          /\ \A k \in DOMAIN sums' : sums'[k] \in [Figures -> Nat]
      BY <1>0, <2>1, <2>2, <2>3
    <2>5. UNCHANGED << squeue, includeJobs, qpass, jobSeries >>
          /\ qnext' \in 1 .. Len(squeue) + 1
      BY <1>2, <1>6 DEF AddRow
    <2>6. QED
      BY <1>0, <2>4, <2>5, FiguresAre DEF QueueTypeOK
  <1>7. CASE EmitJob
    <2> DEFINE r == squeue[qnext]
    <2>1. r \in QueueRows /\ Fields(r) \in Nat /\ Fields(r) >= 17
      BY <1>2, <1>7, QueueFacts DEF EmitJob, Runs
    <2>2. SeriesOfJob(r) \in JobSamples /\ Fields(r) > 16
      BY <2>1, SeriesFacts
    <2>3. /\ DOMAIN jobSeries' = DOMAIN jobSeries \cup {qnext}
          /\ jobSeries'[qnext] = SeriesOfJob(r)
          /\ \A i \in DOMAIN jobSeries : i # qnext => jobSeries'[i] = jobSeries[i]
      BY <1>7 DEF EmitJob
    <2>4. UNCHANGED << squeue, includeJobs, qpass, sums >>
          /\ qnext' \in 1 .. Len(squeue) + 1
      BY <1>2, <1>7 DEF EmitJob
    <2>5. \A i \in DOMAIN jobSeries' : /\ Fields(squeue'[i]) > 16
                                       /\ jobSeries'[i] \in JobSamples
      BY <1>0, <2>2, <2>3, <2>4
    <2>6. QED
      BY <1>0, <2>4, <2>5, FiguresAre DEF QueueTypeOK
  <1>8. CASE UNCHANGED queueVars
    BY <1>0, <1>1, <1>8 DEF queueVars
  <1>9. QED
    BY <1>3, <1>4, <1>5, <1>6, <1>7, <1>8 DEF QueueNext

LEMMA GroupFacts ==
    ASSUME QueueTypeOK, NEW k, NEW f \in Figures
    PROVE  /\ IsFiniteSet(Group(k)) /\ Group(k) \subseteq DOMAIN squeue
           /\ \A i \in DOMAIN squeue : CountsOf(f)[i] = Counts(squeue[i])[f]
                                       /\ CountsOf(f)[i] \in Nat
  <1>1. Group(k) \subseteq DOMAIN squeue
    BY DEF Group, Rows
  <1>2. IsFiniteSet(Group(k))
    BY <1>1, QueueFacts, FS_Subset
  <1>3. \A i \in DOMAIN squeue : Counts(squeue[i])[f] \in Nat
    BY QueueFacts, CountsFacts
  <1>4. QED
    BY <1>1, <1>2, <1>3 DEF CountsOf

LEMMA SumsStep ==
    ASSUME QueueTypeOK, SumsInv, [QueueNext]_queueVars
    PROVE  SumsInv'
  <1>0. /\ DOMAIN sums = {KeyOf(squeue[i]) : i \in Rows}
        /\ \A k \in DOMAIN sums, f \in Figures :
              sums[k][f] = SumFunctionOnSet(CountsOf(f), Group(k))
    BY DEF SumsInv
  <1>1. CASE UNCHANGED << squeue, sums, Rows >>
    BY <1>0, <1>1 DEF SumsInv, CountsOf, Group
  <1>2. NextRow => /\ qnext' = qnext + 1 /\ qnext \in DOMAIN squeue
                   /\ UNCHANGED << squeue, includeJobs, qpass >>
    BY QueueFacts DEF NextRow
  <1>3. CASE PassOverRow
    <2>1. Rows' = Rows
      BY <1>2, <1>3, QueueFacts DEF PassOverRow, Rows
    <2>2. QED
      BY <1>1, <1>2, <1>3, <2>1 DEF PassOverRow
  <1>4. CASE EndRows
    <2>1. \A i \in DOMAIN squeue : i < qnext
      BY <1>4, QueueFacts DEF EndRows
    <2>2. Rows' = Rows
      BY <1>4, <2>1 DEF EndRows, Rows
    <2>3. QED
      BY <1>1, <1>4, <2>2 DEF EndRows
  <1>5. CASE PassOverJob \/ EmitJob
    <2>1. Rows' = Rows
      BY <1>2, <1>5 DEF PassOverJob, EmitJob, Rows
    <2>2. QED
      BY <1>1, <1>2, <1>5, <2>1 DEF PassOverJob, EmitJob
  <1>6. CASE QueueReturns
    BY <1>1, <1>6 DEF QueueReturns, Rows
  <1>7. CASE AddRow
    <2> DEFINE r == squeue[qnext]
               key == KeyOf(r)
               a == Added(SumsAt(key), r)
    <2>1. /\ r \in QueueRows /\ Fields(r) >= 9 /\ qnext \notin Rows
          /\ Rows' = Rows \cup {qnext} /\ squeue' = squeue
          /\ qnext \in DOMAIN squeue
      BY <1>2, <1>7, QueueFacts DEF AddRow, Rows
    <2>2. \A f \in Figures : a[f] = SumsAt(key)[f] + Counts(r)[f]
      BY <2>1, AddedFacts
    <2>3. /\ DOMAIN sums' = DOMAIN sums \cup {key}
          /\ sums'[key] = a
          /\ \A k \in DOMAIN sums : k # key => sums'[k] = sums[k]
      BY <1>7 DEF AddRow
    <2> DEFINE Later(k) == {i \in Rows' : KeyOf(squeue'[i]) = k}
    <2>4. Later(key) = Group(key) \cup {qnext} /\ qnext \notin Group(key)
      BY <2>1 DEF Group
    <2>5. \A k : k # key => Later(k) = Group(k)
      BY <2>1 DEF Group
    <2>6. \A f \in Figures : SumsAt(key)[f] = SumFunctionOnSet(CountsOf(f), Group(key))
      <3>1. CASE key \in DOMAIN sums
        BY <1>0, <3>1 DEF SumsAt
      <3>2. CASE key \notin DOMAIN sums
        <4>1. Group(key) = {}
          BY <1>0, <3>2 DEF Group
        <4>2. \A f \in Figures : SumsAt(key)[f] = 0
          BY <3>2, FiguresAre DEF SumsAt
        <4>3. QED
          BY <4>1, <4>2, SumEmpty
      <3>3. QED
        BY <3>1, <3>2
    <2>7. DOMAIN sums' = {KeyOf(squeue'[i]) : i \in Rows'}
      BY <1>0, <2>1, <2>3
    <2> HIDE DEF key, a, Later
    <2>8. ASSUME NEW f \in Figures
          PROVE  sums'[key][f] = SumFunctionOnSet(CountsOf(f), Later(key))
      <3>1. SumFunctionOnSet(CountsOf(f), Group(key) \cup {qnext}) =
               SumFunctionOnSet(CountsOf(f), Group(key)) + CountsOf(f)[qnext]
        <4>1. /\ IsFiniteSet(Group(key)) /\ Group(key) \subseteq DOMAIN squeue
              /\ \A i \in DOMAIN squeue : CountsOf(f)[i] \in Nat
          BY GroupFacts
        <4>2. CountsOf(f)[qnext] \in Int /\ \A i \in Group(key) : CountsOf(f)[i] \in Int
          BY <2>1, <4>1
        <4>3. QED
          BY <2>4, <4>1, <4>2, SumAdd
      <3>2. CountsOf(f)[qnext] = Counts(r)[f]
        BY <2>1, GroupFacts
      <3>3. QED
        BY <2>2, <2>3, <2>4, <2>6, <3>1, <3>2
    <2>9. ASSUME NEW k \in DOMAIN sums', NEW f \in Figures
          PROVE  sums'[k][f] = SumFunctionOnSet(CountsOf(f), Later(k))
      <3>1. CASE k = key
        BY <2>8, <3>1
      <3>2. CASE k # key
        BY <1>0, <2>3, <2>5, <3>2
      <3>3. QED
        BY <3>1, <3>2
    <2>10. \A f : CountsOf(f)' = CountsOf(f)
      BY <2>1 DEF CountsOf
    <2>11. QED
      BY <2>7, <2>9, <2>10 DEF SumsInv, Later, Group
  <1>8. CASE UNCHANGED queueVars
    BY <1>1, <1>8 DEF queueVars, Rows
  <1>9. QED
    BY <1>3, <1>4, <1>5, <1>6, <1>7, <1>8 DEF QueueNext

LEMMA JobsStep ==
    ASSUME QueueTypeOK, JobsInv, [QueueNext]_queueVars
    PROVE  JobsInv'
  <1>0. /\ qpass = "jobs" => includeJobs
        /\ DOMAIN jobSeries = {i \in DOMAIN squeue : /\ includeJobs /\ qpass # "rows"
                                                     /\ qpass = "jobs" => i < qnext
                                                     /\ Runs(squeue[i])}
        /\ \A i \in DOMAIN jobSeries : jobSeries[i] = SeriesOfJob(squeue[i])
    BY DEF JobsInv
  <1>1. NextRow => /\ qnext' = qnext + 1 /\ qnext \in DOMAIN squeue
                   /\ UNCHANGED << squeue, includeJobs, qpass >>
    BY QueueFacts DEF NextRow
  <1>2. CASE PassOverRow \/ AddRow
    BY <1>0, <1>1, <1>2 DEF PassOverRow, AddRow, JobsInv
  <1>3. CASE EndRows
    <2>1. /\ qpass = "rows" /\ qnext' = 1 /\ UNCHANGED << squeue, includeJobs, jobSeries >>
          /\ qpass' = IF includeJobs THEN "jobs" ELSE "returned"
      BY <1>3 DEF EndRows
    <2>2. \A i \in DOMAIN squeue : ~ (i < 1)
      BY QueueFacts
    <2>3. DOMAIN jobSeries = {}
      BY <1>0, <2>1
    <2>4. QED
      BY <2>1, <2>2, <2>3 DEF JobsInv
  <1>4. CASE PassOverJob
    <2>1. \A i \in DOMAIN squeue : i < qnext + 1 <=> i < qnext \/ i = qnext
      BY QueueFacts
    <2>2. QED
      BY <1>0, <1>1, <1>4, <2>1 DEF PassOverJob, JobsInv
  <1>5. CASE EmitJob
    <2>1. \A i \in DOMAIN squeue : i < qnext + 1 <=> i < qnext \/ i = qnext
      BY QueueFacts
    <2>2. /\ DOMAIN jobSeries' = DOMAIN jobSeries \cup {qnext}
          /\ jobSeries'[qnext] = SeriesOfJob(squeue[qnext])
          /\ \A i \in DOMAIN jobSeries : i # qnext => jobSeries'[i] = jobSeries[i]
          /\ qpass = "jobs" /\ Runs(squeue[qnext])
          /\ qnext' = qnext + 1 /\ qnext \in DOMAIN squeue
          /\ UNCHANGED << squeue, includeJobs, qpass >>
      BY <1>1, <1>5 DEF EmitJob
    <2>3. \A i \in DOMAIN jobSeries' : jobSeries'[i] = SeriesOfJob(squeue'[i])
      BY <1>0, <2>2
    <2>4. DOMAIN jobSeries' = {i \in DOMAIN squeue : i < qnext + 1 /\ Runs(squeue[i])}
      BY <1>0, <2>1, <2>2
    <2>5. QED
      BY <1>0, <2>2, <2>3, <2>4 DEF JobsInv
  <1>6. CASE QueueReturns
    <2>1. \A i \in DOMAIN squeue : i < qnext
      BY <1>6, QueueFacts DEF QueueReturns
    <2>2. QED
      BY <1>0, <1>6, <2>1 DEF QueueReturns, JobsInv
  <1>7. CASE UNCHANGED queueVars
    BY <1>0, <1>7 DEF queueVars, JobsInv
  <1>8. QED
    BY <1>2, <1>3, <1>4, <1>5, <1>6, <1>7 DEF QueueNext

LEMMA GroupsAddUp ==
    ASSUME QueueTypeOK, SumsInv
    PROVE  QueueAddsUp
  <1> USE DEF QueueAddsUp
  <1> HAVE qpass # "rows"
  <1> HIDE DEF QueueAddsUp
  <1>1. Rows = Jobs
    BY DEF Rows, Jobs
  <1>2. DOMAIN sums = {KeyOf(squeue[i]) : i \in Jobs}
    BY <1>1 DEF SumsInv
  <1>3. ASSUME NEW k \in DOMAIN sums, NEW f \in Figures
        PROVE  sums[k][f] = SumFunction([i \in JobsOf(k) |-> Counts(squeue[i])[f]])
    <2> DEFINE c == [i \in JobsOf(k) |-> Counts(squeue[i])[f]]
    <2>1. Group(k) = JobsOf(k)
      BY <1>1 DEF Group, JobsOf
    <2>2. /\ IsFiniteSet(JobsOf(k)) /\ \A i \in JobsOf(k) : CountsOf(f)[i] = c[i]
      BY <2>1, GroupFacts
    <2>3. DOMAIN c = JobsOf(k)
      OBVIOUS
    <2> HIDE DEF c
    <2>4. SumFunctionOnSet(CountsOf(f), JobsOf(k)) = SumFunctionOnSet(c, JobsOf(k))
      BY <2>2, SumSame
    <2>5. sums[k][f] = SumFunction(c)
      BY <2>1, <2>3, <2>4 DEF SumsInv, SumFunction
    <2>6. QED
      BY <2>5 DEF c
  <1>4. QED
    BY <1>2, <1>3, FiguresAre

LEMMA SeriesAgree ==
    ASSUME QueueTypeOK, SumsInv, JobsInv
    PROVE  JobSeriesAgreeWithQueue
  <1> USE DEF JobSeriesAgreeWithQueue
  <1> HAVE qpass = "returned"
  <1> HIDE DEF JobSeriesAgreeWithQueue
  <1>1. CASE ~includeJobs
    BY <1>1 DEF JobsInv
  <1>2. ASSUME includeJobs, \A i \in DOMAIN squeue : squeue[i].columns = 17,
               NEW f \in SeriesFigures
        PROVE  SumFunction([k \in Running |-> sums[k][f]])
                   = SumFunction([i \in DOMAIN jobSeries |-> jobSeries[i][f]])
    <2>1. \A i \in DOMAIN squeue : Fields(squeue[i]) >= 17
      <3>1. \A r \in QueueRows : r.columns = 17 => Fields(r) >= 17
        BY DEF QueueRows, Fields, NameColumn
      <3>2. QED
        BY <1>2, <3>1, QueueFacts
    <2>2. Rows = DOMAIN squeue
      <3>1. \A i \in DOMAIN squeue : Fields(squeue[i]) >= 9
        BY <2>1, QueueFacts
      <3>2. QED
        BY <3>1 DEF Rows
    <2> DEFINE S == DOMAIN jobSeries
               key == [i \in DOMAIN squeue |-> KeyOf(squeue[i])]
               g == [k \in Running |-> sums[k][f]]
               h == [i \in S |-> jobSeries[i][f]]
    <2>3. S = {i \in DOMAIN squeue : squeue[i].state = "RUNNING"}
      BY <1>2, <2>1 DEF JobsInv, Runs
    <2>4. f \in Figures
      BY DEF Figures, SeriesFigures
    <2>5. \A i \in S : h[i] = CountsOf(f)[i] /\ CountsOf(f)[i] \in Int
      <3> TAKE i \in S
      <3>1. i \in DOMAIN squeue /\ squeue[i] \in QueueRows /\ Fields(squeue[i]) >= 14
        BY <2>1, <2>3, QueueFacts
      <3>2. jobSeries[i][f] = Counts(squeue[i])[f]
        BY <3>1, SeriesFacts DEF JobsInv
      <3>3. QED
        BY <2>4, <3>1, <3>2, GroupFacts
    <2>6. IsFiniteSet(S)
      BY <2>3, QueueFacts, FS_Subset
    <2>7. IsFiniteSet(Running)
      <3>1. DOMAIN sums = {KeyOf(squeue[i]) : i \in DOMAIN squeue}
        BY <2>2 DEF SumsInv
      <3>2. IsFiniteSet(DOMAIN sums)
        <4>1. key \in Surjection(DOMAIN squeue, DOMAIN sums)
          BY <3>1 DEF Surjection
        <4> HIDE DEF key
        <4>2. QED
          BY <4>1, QueueFacts, FS_Surjection
      <3>3. QED
        BY <3>2, FS_Subset DEF Running
    <2>8. \A i \in S : key[i] \in Running
      BY <2>2, <2>3 DEF SumsInv, Running, KeyOf
    <2>9. \A k \in Running : g[k] = SumFunctionOnSet(CountsOf(f), {i \in S : key[i] = k})
      <3> TAKE k \in Running
      <3>1. Group(k) = {i \in DOMAIN squeue : key[i] = k}
        BY <2>2 DEF Group
      <3>2. \A i \in DOMAIN squeue : key[i] = k => squeue[i].state = "RUNNING"
        BY DEF Running, KeyOf
      <3>3. Group(k) = {i \in S : key[i] = k}
        BY <2>3, <3>1, <3>2
      <3>4. k \in DOMAIN sums
        BY DEF Running
      <3>5. sums[k][f] = SumFunctionOnSet(CountsOf(f), Group(k))
        BY <2>4, <3>4 DEF SumsInv
      <3>6. QED
        BY <3>3, <3>5
    <2>10. DOMAIN g = Running /\ DOMAIN h = S
      OBVIOUS
    <2> HIDE DEF S, key, g, h
    <2>11. SumFunctionOnSet(g, Running) = SumFunctionOnSet(CountsOf(f), S)
      BY <2>5, <2>6, <2>7, <2>8, <2>9, SumByGroup
    <2>12. SumFunctionOnSet(h, S) = SumFunctionOnSet(CountsOf(f), S)
      BY <2>5, <2>6, SumSame
    <2>13. SumFunction(g) = SumFunction(h)
      BY <2>10, <2>11, <2>12 DEF SumFunction
    <2>14. QED
      BY <2>13 DEF g, h, S
  <1>3. QED
    BY <1>1, <1>2 DEF SeriesFigures

-----------------------------------------------------------------------------

QueueInv == QueueTypeOK /\ SumsInv /\ JobsInv

LEMMA QueueBegins == PageInit => QueueInv
  <1> SUFFICES ASSUME PageInit PROVE QueueInv
    OBVIOUS
  <1>1. PICK x \in Inputs : QueueInit(x.squeue, x.perJob)
    BY DEF PageInit
  <1>2. /\ squeue \in Seq(QueueRows) /\ includeJobs \in BOOLEAN
        /\ qpass = "rows" /\ qnext = 1
        /\ DOMAIN sums = {} /\ DOMAIN jobSeries = {}
    BY <1>1, InputsAssumption DEF QueueInit
  <1>3. Len(squeue) \in Nat /\ DOMAIN squeue = 1 .. Len(squeue)
    BY <1>2
  <1>4. QueueTypeOK
    <2>1. qnext \in 1 .. Len(squeue) + 1
      BY <1>2, <1>3
    <2>2. QED
      BY <1>2, <2>1 DEF QueueTypeOK
  <1>5. Rows = {}
    BY <1>2, <1>3 DEF Rows
  <1>6. SumsInv /\ JobsInv
    BY <1>2, <1>5 DEF SumsInv, JobsInv
  <1>7. QED
    BY <1>4, <1>6 DEF QueueInv

LEMMA QueueStep == QueueInv /\ [PageNext]_pageVars => QueueInv'
  <1> SUFFICES ASSUME QueueInv, [PageNext]_pageVars PROVE QueueInv'
    OBVIOUS
  <1>1. [QueueNext]_queueVars
    BY DEF PageNext, InQueue, InTresProfiles, Collect, pageVars
  <1>2. QED
    BY <1>1, QueueTypeStep, SumsStep, JobsStep DEF QueueInv

LEMMA QueueInvHolds == PageSpec => []QueueInv
  BY QueueBegins, QueueStep, PTL DEF PageSpec

\* queue reads no field a row does not have, and its sums are amounts.
THEOREM QueueTypes == PageSpec => []QueueTypeOK
  <1>1. QueueInv => QueueTypeOK
    BY DEF QueueInv
  <1>2. QED
    BY <1>1, QueueInvHolds, PTL

\* Each group's samples are the sums over its jobs, for any output of squeue:
\* the seconds are the ones Slurm printed and parse.go read back.
THEOREM QueueSumsAddUp == PageSpec => []QueueAddsUp
  <1>1. QueueInv => QueueAddsUp
    BY GroupsAddUp DEF QueueInv
  <1>2. QED
    BY <1>1, QueueInvHolds, PTL

\* The series per job and the series per group agree on the running jobs.
THEOREM SeriesPerJobAgree == PageSpec => []JobSeriesAgreeWithQueue
  <1>1. QueueInv => JobSeriesAgreeWithQueue
    BY SeriesAgree DEF QueueInv
  <1>2. QED
    BY <1>1, QueueInvHolds, PTL

(***************************************************************************)
(* The page: the parts that samples are made of, and the series they share.*)
(***************************************************************************)

\* The kind of the parts that make series of a name, "page" for the names of
\* the lines behind the samples.  No collector uses a name of another.
Owner(n) ==
    IF n \in {"node_info", "node_cpus", "node_memory_bytes",
              "node_free_memory_bytes", "node_cpu_load",
              "node_allocated_memory_bytes", "node_cpu_count", "node_gpus"}
      THEN "nodes"
    ELSE IF n \in {"partition_nodes", "partition_time_limit_seconds",
                   "partition_cpus"}
      THEN "partitions"
    ELSE IF n \in {"reservation_info", "reservation_nodes", "reservation_cores",
                   "reservation_end_time_seconds"}
      THEN "reservations"
    ELSE IF n \in {"accounting_jobs", "accounting_allocated_cpus",
                   "accounting_elapsed_seconds",
                   "accounting_cpu_capacity_seconds", "accounting_cpu_seconds",
                   "accounting_cpu_efficiency_ratio", "accounting_max_rss_bytes",
                   "accounting_requested_memory_bytes",
                   "accounting_energy_joules",
                   "accounting_memory_efficiency_ratio"}
      THEN "accounting"
    ELSE IF n \in ShareNames
      THEN "fairshare"
    ELSE IF n \in {"controller_server_threads", "scheduler_last_queue_length"}
      THEN "scheduler"
    ELSE IF n = "license_count"
      THEN "licenses"
    ELSE IF n \in {"account_cpu_limit", "account_memory_limit_bytes",
                   "account_running_job_limit", "account_submitted_job_limit"}
      THEN "account_limits"
    ELSE IF n = "node_profile_assignment"
      THEN "assignments"
    ELSE IF n \in {"node_tres", "cluster_tres", "node_profile_nodes",
                   "node_profile_info", "node_profile_tres"}
      THEN "tres_profiles"
    ELSE IF n \in {"exporter_collector_success",
                   "exporter_collector_duration_seconds"}
      THEN "exporter"
    ELSE IF n \in {"exporter_up", "exporter_collection_duration_seconds",
                   "history_enabled", "history_sequence",
                   "history_tracked_jobs",
                   "history_last_write_timestamp_seconds"}
      THEN "page"
    ELSE IF n \in {"job_info", "job_nodes", "job_cpus", "job_memory_bytes",
                   "job_gpus", "job_elapsed_seconds", "job_start_time_seconds",
                   "job_wait_seconds"}
      THEN "jobs"
    ELSE "queue"

LEMMA EachFacts ==
    ASSUME NEW names, NEW labels, NEW s \in Each(names, labels)
    PROVE  /\ s = << s[1], s[2] >>
           /\ s[1] \in names
           /\ s[2] = labels
  BY DEF Each

LEMMA ByStatusFacts ==
    ASSUME NEW name, NEW labels, NEW statuses,
           NEW s \in ByStatus(name, labels, statuses)
    PROVE  /\ s[1] = name
           /\ \A l \in DOMAIN labels \ {"status"} : s[2][l] = labels[l]
  BY DEF ByStatus, Put

(***************************************************************************)
(* What the series of a row tell of it.                                    *)
(***************************************************************************)

LEMMA NodeFacts ==
    ASSUME NEW r, NEW s \in NodeSeries(r)
    PROVE  /\ Owner(s[1]) = "nodes"
           /\ s[2].node = r.node /\ s[2].partition = r.partition
  <1> DEFINE names == {"node_info", "node_cpus", "node_memory_bytes",
                       "node_free_memory_bytes", "node_cpu_load",
                       "node_allocated_memory_bytes"}
             l == NodeLabels(r)
  <1>1. /\ DOMAIN l = {"node", "partition", "state"}
        /\ l.node = r.node /\ l.partition = r.partition
    BY DEF NodeLabels
  <1>2. \/ s \in Each(names, l)
        \/ s \in ByStatus("node_cpu_count", l, CpuStatuses)
        \/ s \in ByStatus("node_gpus", l, {"total", "allocated"})
    BY DEF NodeSeries
  <1> HIDE DEF l
  <1>3. /\ s[1] \in names \cup {"node_cpu_count", "node_gpus"}
        /\ s[2].node = l.node /\ s[2].partition = l.partition
    <2>1. CASE s \in Each(names, l)
      BY <2>1, EachFacts
    <2>2. ASSUME NEW n \in {"node_cpu_count", "node_gpus"}, NEW statuses,
                 s \in ByStatus(n, l, statuses)
          PROVE  <1>3!2 /\ s[1] = n
      BY <1>1, <2>2, ByStatusFacts
    <2>3. QED
      BY <1>2, <2>1, <2>2
  <1>4. QED
    BY <1>1, <1>3 DEF Owner

LEMMA PartitionFacts ==
    ASSUME NEW r \in [partition : STRING, availability : STRING],
           NEW s \in PartitionSeries(r)
    PROVE  /\ Owner(s[1]) = "partitions"
           /\ r = [partition |-> s[2].partition, availability |-> s[2].availability]
  <1>1. /\ DOMAIN r = {"partition", "availability"}
        /\ r = [partition |-> r.partition, availability |-> r.availability]
    OBVIOUS
  <1>2. \/ s \in Each({"partition_nodes", "partition_time_limit_seconds"}, r)
        \/ s \in ByStatus("partition_cpus", r, CpuStatuses)
    BY DEF PartitionSeries
  <1>3. /\ s[1] \in {"partition_nodes", "partition_time_limit_seconds",
                     "partition_cpus"}
        /\ s[2].partition = r.partition /\ s[2].availability = r.availability
    <2>1. CASE s \in Each({"partition_nodes", "partition_time_limit_seconds"}, r)
      BY <2>1, EachFacts
    <2>2. CASE s \in ByStatus("partition_cpus", r, CpuStatuses)
      BY <1>1, <2>2, ByStatusFacts
    <2>3. QED
      BY <1>2, <2>1, <2>2
  <1>4. QED
    BY <1>1, <1>3 DEF Owner

LEMMA LicenseFacts ==
    ASSUME NEW r \in [license : STRING, remote : STRING],
           NEW s \in LicenseSeries(r)
    PROVE  /\ Owner(s[1]) = "licenses"
           /\ r = [license |-> s[2].license, remote |-> s[2].remote]
  <1>1. /\ DOMAIN r = {"license", "remote"}
        /\ r = [license |-> r.license, remote |-> r.remote]
    OBVIOUS
  <1>2. /\ s[1] = "license_count"
        /\ s[2].license = r.license /\ s[2].remote = r.remote
    BY <1>1, ByStatusFacts DEF LicenseSeries
  <1>3. QED
    BY <1>1, <1>2 DEF Owner, ShareNames

\* A reservation, a group of jobs and an account's limits are their labels.
LEMMA LabelledFacts ==
    ASSUME NEW r, NEW s
    PROVE  /\ s \in ReservationSeries(r) => Owner(s[1]) = "reservations" /\ s[2] = r
           /\ s \in AccountingSeries(r) => Owner(s[1]) = "accounting" /\ s[2] = r
           /\ s \in LimitSeries(r) => Owner(s[1]) = "account_limits" /\ s[2] = r
  <1>1. ASSUME s \in ReservationSeries(r)
        PROVE  Owner(s[1]) = "reservations" /\ s[2] = r
    BY <1>1, EachFacts DEF ReservationSeries, Owner
  <1>2. ASSUME s \in AccountingSeries(r)
        PROVE  Owner(s[1]) = "accounting" /\ s[2] = r
    BY <1>2, EachFacts DEF AccountingSeries, Owner
  <1>3. ASSUME s \in LimitSeries(r)
        PROVE  Owner(s[1]) = "account_limits" /\ s[2] = r
    BY <1>3, EachFacts DEF LimitSeries, Owner, ShareNames
  <1>4. QED
    BY <1>1, <1>2, <1>3

\* The labels of a share: all of the row's, or only the account.
ShareLabels(r) == IF includeUsers THEN r ELSE [account |-> r.account]

LEMMA ShareFacts ==
    ASSUME NEW r, NEW s
    PROVE  s \in FairshareSeries(r) <=>
               s = << s[1], ShareLabels(r) >> /\ s[1] \in ShareNames
  BY DEF FairshareSeries, Each, ShareLabels

LEMMA SharesOwned == \A n : n \in ShareNames <=> Owner(n) = "fairshare"
  BY DEF Owner, ShareNames

LEMMA DiagnosticFacts ==
    ASSUME NEW key, NEW s
    PROVE  /\ s \in DiagnosticSeries(key) <=>
                  key \in DOMAIN Mapping /\ s = << Mapping[key], NoLabels >>
           /\ \A k \in DOMAIN Mapping : Owner(Mapping[k]) = "scheduler"
           /\ \A j, k \in DOMAIN Mapping : Mapping[j] = Mapping[k] => j = k
  <1> DEFINE K == "Server thread count"
             L == "Last queue length"
  <1>0. /\ DOMAIN Mapping = {K, L}
        /\ Mapping[K] = "controller_server_threads"
        /\ Mapping[L] = "scheduler_last_queue_length"
    BY DEF Mapping
  <1>1. \A k \in DOMAIN Mapping : Owner(Mapping[k]) = "scheduler"
    <2>1. /\ Owner("controller_server_threads") = "scheduler"
          /\ Owner("scheduler_last_queue_length") = "scheduler"
      BY DEF Owner, ShareNames
    <2>2. QED
      BY <1>0, <2>1
  <1>2. \A j, k \in DOMAIN Mapping : Mapping[j] = Mapping[k] => j = k
    BY <1>0
  <1>3. QED
    BY <1>1, <1>2 DEF DiagnosticSeries

LEMMA OthersOwned ==
    /\ \A l, s : s \in AssignmentSeries(l) =>
                     Owner(s[1]) = "assignments" /\ s[2].node = l.node
    /\ \A j, s : s \in JobSeries(j) => Owner(s[1]) = "jobs" /\ s[2] = j.labels
    /\ \A s \in QueueSeries : Owner(s[1]) = "queue"
    /\ \A s \in TresSeries : Owner(s[1]) = "tres_profiles"
    /\ \A s \in Accompanying : Owner(s[1]) = "exporter"
    /\ \A s \in Footer : Owner(s[1]) = "page"
  <1>1. \A l, s : s \in AssignmentSeries(l) =>
                      Owner(s[1]) = "assignments" /\ s[2].node = l.node
    BY DEF AssignmentSeries, Owner, ShareNames
  <1>2. ASSUME NEW s \in QueueSeries
        PROVE  Owner(s[1]) = "queue"
    <2>1. s[1] \in {"queue_jobs", "queue_nodes", "queue_cpus",
                    "queue_elapsed_seconds", "queue_time_limit_seconds",
                    "queue_memory_bytes", "queue_gpus"}
      BY DEF QueueSeries
    <2>2. QED
      BY <2>1 DEF Owner, ShareNames
  <1>3. ASSUME NEW s \in TresSeries
        PROVE  Owner(s[1]) = "tres_profiles"
    <2>1. s[1] \in {"node_tres", "cluster_tres", "node_profile_nodes",
                    "node_profile_info", "node_profile_tres"}
      BY DEF TresSeries
    <2>2. QED
      BY <2>1 DEF Owner, ShareNames
  <1>4. \A s \in Accompanying : Owner(s[1]) = "exporter"
    BY DEF Accompanying, Owner, ShareNames
  <1>5. \A s \in Footer : Owner(s[1]) = "page"
    BY EachFacts DEF Footer, Owner, ShareNames
  <1>6. ASSUME NEW j, NEW s \in JobSeries(j)
        PROVE  Owner(s[1]) = "jobs" /\ s[2] = j.labels
    <2> DEFINE names == {"job_info", "job_nodes", "job_cpus", "job_memory_bytes",
                         "job_gpus", "job_elapsed_seconds"}
    <2>1. \/ s \in Each(names, j.labels)
          \/ s = << "job_start_time_seconds", j.labels >>
          \/ s = << "job_wait_seconds", j.labels >>
      BY Zenon DEF JobSeries
    <2>2. /\ s[1] \in names \cup {"job_start_time_seconds", "job_wait_seconds"}
          /\ s[2] = j.labels
      BY <2>1, EachFacts
    <2>3. QED
      BY <2>2 DEF Owner, ShareNames
  <1>7. QED
    BY <1>1, <1>2, <1>3, <1>4, <1>5, <1>6

(***************************************************************************)
(* Two parts of one series.                                                *)
(***************************************************************************)

\* What PageInit says of the input, all of which Collect finds unchanged.
InputOK ==
    /\ IsListing(lines)
    /\ includeUsers \in BOOLEAN
    /\ printed \in Printable
    /\ \A k \in ByRow \ {"fairshare", "scheduler"} : IsInjective(printed[k])
    /\ \A i, j \in DOMAIN printed.nodes :
          LET a == printed.nodes[i]
              b == printed.nodes[j]
          IN  a.node = b.node /\ a.partition = b.partition => i = j
    /\ \A i, j \in DOMAIN squeue :
          LET a == squeue[i]
              b == squeue[j]
          IN  a.state = "RUNNING" /\ b.state = "RUNNING" /\ a.job = b.job => i = j

Once == {"queue", "tres_profiles", "exporter"}
Assigned == {i \in DOMAIN lines : lines[i].node # NoNode}

LEMMA PartsAre ==
    /\ \A x \in Parts : x = << x[1], x[2] >>
    /\ \A k, i : << k, i >> \in Parts <=>
            \/ k \in ByRow /\ i \in DOMAIN printed[k]
            \/ k = "jobs" /\ i \in DOMAIN jobSeries
            \/ k = "assignments" /\ i \in Assigned
            \/ k \in Once /\ i = 0
  <1>1. \A x : x \in Parts <=> \/ \E k \in ByRow : x \in {k} \X DOMAIN printed[k]
                               \/ x \in {"jobs"} \X DOMAIN jobSeries
                               \/ x \in {"assignments"} \X Assigned
                               \/ x \in Once \X {0}
    <2>1. /\ \A x : x \in UNION {{k} \X DOMAIN printed[k] : k \in ByRow}
                      <=> \E k \in ByRow : x \in {k} \X DOMAIN printed[k]
          /\ {i \in DOMAIN lines : lines[i].node # NoNode} = Assigned
          /\ {"queue", "tres_profiles", "exporter"} = Once
      BY Zenon DEF Assigned, Once
    <2>2. QED
      BY <2>1, Zenon DEF Parts
  <1>2. QED
    BY <1>1

\* The series of a part, kind by kind.
LEMMA SeriesAre ==
    ASSUME NEW i
    PROVE  /\ SeriesOf(<< "nodes", i >>) = NodeSeries(printed.nodes[i])
           /\ SeriesOf(<< "partitions", i >>) = PartitionSeries(printed.partitions[i])
           /\ SeriesOf(<< "reservations", i >>)
                  = ReservationSeries(printed.reservations[i])
           /\ SeriesOf(<< "accounting", i >>) = AccountingSeries(printed.accounting[i])
           /\ SeriesOf(<< "fairshare", i >>) = FairshareSeries(printed.fairshare[i])
           /\ SeriesOf(<< "scheduler", i >>) = DiagnosticSeries(printed.scheduler[i])
           /\ SeriesOf(<< "licenses", i >>) = LicenseSeries(printed.licenses[i])
           /\ SeriesOf(<< "account_limits", i >>) = LimitSeries(printed.account_limits[i])
           /\ SeriesOf(<< "jobs", i >>) = JobSeries(jobSeries[i])
           /\ SeriesOf(<< "assignments", i >>) = AssignmentSeries(lines[i])
           /\ SeriesOf(<< "queue", i >>) = QueueSeries
           /\ SeriesOf(<< "tres_profiles", i >>) = TresSeries
           /\ SeriesOf(<< "exporter", i >>) = Accompanying
  BY DEF SeriesOf

LEMMA Elements ==
    ASSUME NEW T, NEW p \in Seq(T)
    PROVE  /\ Len(p) \in Nat /\ DOMAIN p = 1 .. Len(p)
           /\ \A i \in DOMAIN p : p[i] \in T
  OBVIOUS

LEMMA RowsTyped ==
    ASSUME InputOK
    PROVE  /\ \A i \in DOMAIN printed["partitions"] :
                 printed["partitions"][i] \in [partition : STRING, availability : STRING]
           /\ \A i \in DOMAIN printed["licenses"] :
                 printed["licenses"][i] \in [license : STRING, remote : STRING]
           /\ \A i \in DOMAIN printed["fairshare"] :
                 printed["fairshare"][i] \in [account : STRING, user : STRING]
           /\ \A k \in ByRow : /\ Len(printed[k]) \in Nat
                               /\ DOMAIN printed[k] = 1 .. Len(printed[k])
  <1>1. printed \in Printable
    BY DEF InputOK
  <1>2. /\ printed["partitions"] \in Seq([partition : STRING, availability : STRING])
        /\ printed["licenses"] \in Seq([license : STRING, remote : STRING])
        /\ printed["fairshare"] \in Seq([account : STRING, user : STRING])
    BY <1>1 DEF Printable
  <1>3. ASSUME NEW k \in ByRow
        PROVE  Len(printed[k]) \in Nat /\ DOMAIN printed[k] = 1 .. Len(printed[k])
    <2>1. \E T : printed[k] \in Seq(T)
      BY <1>1 DEF Printable, ByRow
    <2>2. QED
      BY <2>1, Elements
  <1>4. QED
    BY <1>2, <1>3, Elements

LEMMA PartOwns ==
    ASSUME InputOK, NEW k, NEW i, << k, i >> \in Parts,
           NEW s \in SeriesOf(<< k, i >>)
    PROVE  Owner(s[1]) = k
  <1>1. /\ k \in ByRow \cup {"jobs", "assignments"} \cup Once
        /\ k \in ByRow => i \in DOMAIN printed[k]
        /\ k = "assignments" => i \in Assigned
    BY PartsAre DEF ByRow, Once
  <1>2. CASE k = "nodes"
    <2>1. s \in NodeSeries(printed.nodes[i])
      BY <1>2, SeriesAre
    <2>2. QED
      BY <1>2, <2>1, NodeFacts
  <1>3. CASE k = "partitions"
    <2>1. /\ s \in PartitionSeries(printed.partitions[i])
          /\ printed.partitions[i] \in [partition : STRING, availability : STRING]
      BY <1>1, <1>3, SeriesAre, RowsTyped DEF ByRow
    <2>2. QED
      BY <1>3, <2>1, PartitionFacts
  <1>4. CASE k = "reservations"
    <2>1. s \in ReservationSeries(printed.reservations[i])
      BY <1>4, SeriesAre
    <2>2. QED
      BY <1>4, <2>1, LabelledFacts
  <1>5. CASE k = "accounting"
    <2>1. s \in AccountingSeries(printed.accounting[i])
      BY <1>5, SeriesAre
    <2>2. QED
      BY <1>5, <2>1, LabelledFacts
  <1>6. CASE k = "account_limits"
    <2>1. s \in LimitSeries(printed.account_limits[i])
      BY <1>6, SeriesAre
    <2>2. QED
      BY <1>6, <2>1, LabelledFacts
  <1>7. CASE k = "fairshare"
    <2>1. s \in FairshareSeries(printed.fairshare[i])
      BY <1>7, SeriesAre
    <2>2. QED
      BY <1>7, <2>1, ShareFacts, SharesOwned
  <1>8. CASE k = "scheduler"
    <2>1. s \in DiagnosticSeries(printed.scheduler[i])
      BY <1>8, SeriesAre
    <2>2. QED
      BY <1>8, <2>1, DiagnosticFacts
  <1>9. CASE k = "licenses"
    <2>1. /\ s \in LicenseSeries(printed.licenses[i])
          /\ printed.licenses[i] \in [license : STRING, remote : STRING]
      BY <1>1, <1>9, SeriesAre, RowsTyped DEF ByRow
    <2>2. QED
      BY <1>9, <2>1, LicenseFacts
  <1>10. CASE k = "assignments"
    <2>1. s \in AssignmentSeries(lines[i])
      BY <1>10, SeriesAre
    <2>2. QED
      BY <1>10, <2>1, OthersOwned
  <1>11. CASE k \in Once
    BY <1>11, SeriesAre, OthersOwned DEF Once
  <1>12. CASE k = "jobs"
    <2>1. s \in JobSeries(jobSeries[i])
      BY <1>12, SeriesAre
    <2>2. QED
      BY <1>12, <2>1, OthersOwned
  <1>13. QED
    BY <1>1, <1>2, <1>3, <1>4, <1>5, <1>6, <1>7, <1>8, <1>9, <1>10, <1>11, <1>12
       DEF ByRow

\* The jobs of the second loop are in the queue, and their labels differ.
LEMMA JobsAreTold ==
    ASSUME InputOK, QueueInv
    PROVE  /\ DOMAIN jobSeries \subseteq DOMAIN squeue
           /\ \A i, j \in DOMAIN jobSeries :
                 jobSeries[i].labels = jobSeries[j].labels => i = j
  <1>1. /\ \A i \in DOMAIN jobSeries : i \in DOMAIN squeue /\ Runs(squeue[i])
        /\ \A i \in DOMAIN jobSeries : jobSeries[i] = SeriesOfJob(squeue[i])
    BY DEF QueueInv, JobsInv
  <1>2. \A i \in DOMAIN jobSeries : jobSeries[i].labels.job_id = squeue[i].job
    BY <1>1, QueueFacts, SeriesFacts DEF QueueInv
  <1>3. \A i \in DOMAIN jobSeries : squeue[i].state = "RUNNING"
    BY <1>1 DEF Runs
  <1>4. QED
    BY <1>1, <1>2, <1>3 DEF InputOK

\* A series that two distinct parts add to is a share or a diagnostic that
\* repeats: the labels of every other kind name the part.
LEMMA SharedRepeats ==
    ASSUME InputOK, QueueInv, NEW x \in Parts, NEW y \in Parts, x # y, NEW s,
           s \in SeriesOf(x), s \in SeriesOf(y)
    PROVE  SharesRepeat(s) \/ DiagnosticsRepeat(s)
  <1>1. PICK k, i, j : x = << k, i >> /\ y = << k, j >> /\ i # j
    <2>1. x = << x[1], x[2] >> /\ y = << y[1], y[2] >>
      BY PartsAre
    <2>2. x[1] = Owner(s[1]) /\ y[1] = Owner(s[1])
      BY <2>1, PartOwns
    <2>3. QED
      BY <2>1, <2>2
  <1>2. /\ k \in ByRow \cup {"jobs", "assignments"}
        /\ k \in ByRow => i \in DOMAIN printed[k] /\ j \in DOMAIN printed[k]
        /\ k = "jobs" => i \in DOMAIN jobSeries /\ j \in DOMAIN jobSeries
        /\ k = "assignments" => i \in Assigned /\ j \in Assigned
    <2>1. << k, i >> \in Parts /\ << k, j >> \in Parts
      BY <1>1
    <2>2. k \notin Once
      BY <1>1, <2>1, PartsAre DEF ByRow, Once
    <2>3. QED
      BY <2>1, <2>2, PartsAre DEF ByRow
  <1>3. ASSUME k \in ByRow \ {"fairshare", "scheduler"},
               printed[k][i] = printed[k][j]
        PROVE  FALSE
    <2>1. IsInjective(printed[k])
      BY <1>3 DEF InputOK
    <2>2. QED
      BY <1>1, <1>2, <1>3, <2>1 DEF IsInjective
  <1>4. CASE k = "nodes"
    <2>1. s \in NodeSeries(printed.nodes[i]) /\ s \in NodeSeries(printed.nodes[j])
      BY <1>1, <1>4, SeriesAre
    <2>2. /\ printed.nodes[i].node = printed.nodes[j].node
          /\ printed.nodes[i].partition = printed.nodes[j].partition
      BY <2>1, NodeFacts
    <2>3. i \in DOMAIN printed.nodes /\ j \in DOMAIN printed.nodes
      BY <1>2, <1>4 DEF ByRow
    <2>4. QED
      BY <1>1, <2>2, <2>3 DEF InputOK
  <1>5. CASE k = "partitions"
    <2>1. /\ s \in PartitionSeries(printed.partitions[i])
          /\ s \in PartitionSeries(printed.partitions[j])
      BY <1>1, <1>5, SeriesAre
    <2>2. /\ printed.partitions[i] \in [partition : STRING, availability : STRING]
          /\ printed.partitions[j] \in [partition : STRING, availability : STRING]
      BY <1>2, <1>5, RowsTyped DEF ByRow
    <2>3. printed.partitions[i] = printed.partitions[j]
      BY <2>1, <2>2, PartitionFacts
    <2>4. QED
      BY <1>3, <1>5, <2>3 DEF ByRow
  <1>6. CASE k = "reservations"
    <2>1. /\ s \in ReservationSeries(printed.reservations[i])
          /\ s \in ReservationSeries(printed.reservations[j])
      BY <1>1, <1>6, SeriesAre
    <2>2. printed.reservations[i] = printed.reservations[j]
      BY <2>1, LabelledFacts
    <2>3. QED
      BY <1>3, <1>6, <2>2 DEF ByRow
  <1>7. CASE k = "accounting"
    <2>1. /\ s \in AccountingSeries(printed.accounting[i])
          /\ s \in AccountingSeries(printed.accounting[j])
      BY <1>1, <1>7, SeriesAre
    <2>2. printed.accounting[i] = printed.accounting[j]
      BY <2>1, LabelledFacts
    <2>3. QED
      BY <1>3, <1>7, <2>2 DEF ByRow
  <1>8. CASE k = "account_limits"
    <2>1. /\ s \in LimitSeries(printed.account_limits[i])
          /\ s \in LimitSeries(printed.account_limits[j])
      BY <1>1, <1>8, SeriesAre
    <2>2. printed.account_limits[i] = printed.account_limits[j]
      BY <2>1, LabelledFacts
    <2>3. QED
      BY <1>3, <1>8, <2>2 DEF ByRow
  <1>9. CASE k = "licenses"
    <2>1. /\ s \in LicenseSeries(printed.licenses[i])
          /\ s \in LicenseSeries(printed.licenses[j])
      BY <1>1, <1>9, SeriesAre
    <2>2. /\ printed.licenses[i] \in [license : STRING, remote : STRING]
          /\ printed.licenses[j] \in [license : STRING, remote : STRING]
      BY <1>2, <1>9, RowsTyped DEF ByRow
    <2>3. printed.licenses[i] = printed.licenses[j]
      BY <2>1, <2>2, LicenseFacts
    <2>4. QED
      BY <1>3, <1>9, <2>3 DEF ByRow
  <1>10. CASE k = "fairshare"
    <2> DEFINE a == printed.fairshare[i]
               b == printed.fairshare[j]
    <2>1. s \in FairshareSeries(a) /\ s \in FairshareSeries(b)
      BY <1>1, <1>10, SeriesAre
    <2>2. /\ i \in DOMAIN printed.fairshare /\ j \in DOMAIN printed.fairshare
          /\ i # j
      BY <1>1, <1>2, <1>10 DEF ByRow
    <2> HIDE DEF a, b
    <2>3. /\ s[1] \in ShareNames
          /\ s[2] = ShareLabels(a) /\ s[2] = ShareLabels(b)
      BY <2>1, ShareFacts
    <2>4. /\ a.account = s[2].account /\ b.account = s[2].account
          /\ includeUsers => a.user = s[2].user /\ b.user = s[2].user
      BY <2>3 DEF ShareLabels
    <2>5. SharesRepeat(s)
      BY <2>2, <2>3, <2>4 DEF SharesRepeat, a, b
    <2>6. QED
      BY <2>5
  <1>11. CASE k = "scheduler"
    <2>1. /\ s \in DiagnosticSeries(printed.scheduler[i])
          /\ s \in DiagnosticSeries(printed.scheduler[j])
      BY <1>1, <1>11, SeriesAre
    <2>2. /\ i \in DOMAIN printed.scheduler /\ j \in DOMAIN printed.scheduler
      BY <1>2, <1>11 DEF ByRow
    <2>3. /\ printed.scheduler[i] \in DOMAIN Mapping
          /\ s[1] = Mapping[printed.scheduler[i]]
          /\ printed.scheduler[i] = printed.scheduler[j]
      BY <2>1, DiagnosticFacts
    <2>4. DiagnosticsRepeat(s)
      BY <1>1, <2>2, <2>3 DEF DiagnosticsRepeat
    <2>5. QED
      BY <2>4
  <1>12. CASE k = "assignments"
    <2>1. /\ s \in AssignmentSeries(lines[i]) /\ s \in AssignmentSeries(lines[j])
      BY <1>1, <1>12, SeriesAre
    <2>2. lines[i].node = lines[j].node
      BY <2>1, OthersOwned
    <2>3. QED
      BY <1>1, <1>2, <1>12, <2>2 DEF Assigned, InputOK, IsListing
  <1>13. CASE k = "jobs"
    <2>1. s \in JobSeries(jobSeries[i]) /\ s \in JobSeries(jobSeries[j])
      BY <1>1, <1>13, SeriesAre
    <2>2. jobSeries[i].labels = jobSeries[j].labels
      BY <2>1, OthersOwned
    <2>3. QED
      BY <1>1, <1>2, <1>13, <2>2, JobsAreTold
  <1>14. QED
    BY <1>2, <1>4, <1>5, <1>6, <1>7, <1>8, <1>9, <1>10, <1>11, <1>12, <1>13
       DEF ByRow

\* And what repeats has two parts, if it has one.
LEMMA RepeatsAreShared ==
    ASSUME InputOK, NEW x \in Parts, NEW s, s \in SeriesOf(x),
           SharesRepeat(s) \/ DiagnosticsRepeat(s)
    PROVE  \E y, z \in Parts : y # z /\ s \in SeriesOf(y) /\ s \in SeriesOf(z)
  <1>1. PICK k, n : x = << k, n >> /\ Owner(s[1]) = k
    BY PartsAre, PartOwns
  <1>2. CASE SharesRepeat(s)
    <2>1. s[1] \in ShareNames /\ k = "fairshare"
      BY <1>1, <1>2, SharesOwned DEF SharesRepeat
    <2>2. PICK i, j \in DOMAIN printed.fairshare :
              LET a == printed.fairshare[i]
                  b == printed.fairshare[j]
              IN  /\ i # j
                  /\ a.account = b.account /\ a.account = s[2].account
                  /\ includeUsers => a.user = b.user /\ a.user = s[2].user
      BY <1>2 DEF SharesRepeat
    <2>3. << "fairshare", i >> \in Parts /\ << "fairshare", j >> \in Parts
      BY <2>2, PartsAre DEF ByRow
    <2> DEFINE a == printed.fairshare[i]
               b == printed.fairshare[j]
               r == printed.fairshare[n]
    <2>4. /\ a \in [account : STRING, user : STRING]
          /\ b \in [account : STRING, user : STRING]
          /\ r \in [account : STRING, user : STRING]
      <3>1. n \in DOMAIN printed["fairshare"]
        BY <1>1, <2>1, PartsAre DEF ByRow, Once
      <3>2. QED
        BY <2>2, <3>1, RowsTyped
    <2>5. s \in FairshareSeries(r)
      BY <1>1, <2>1, SeriesAre
    <2>6. /\ a.account = s[2].account /\ b.account = s[2].account
          /\ includeUsers => a.user = s[2].user /\ b.user = s[2].user
      BY <2>2
    <2>7. /\ SeriesOf(<< "fairshare", i >>) = FairshareSeries(a)
          /\ SeriesOf(<< "fairshare", j >>) = FairshareSeries(b)
      BY SeriesAre
    <2> HIDE DEF a, b, r
    <2>8. s = << s[1], ShareLabels(r) >>
      BY <2>5, ShareFacts
    <2>9. r.account = s[2].account /\ (includeUsers => r.user = s[2].user)
      BY <2>8 DEF ShareLabels
    <2>10. ShareLabels(a) = ShareLabels(r) /\ ShareLabels(b) = ShareLabels(r)
      <3>1. CASE includeUsers
        <4>1. a = r /\ b = r
          BY <2>4, <2>6, <2>9, <3>1
        <4>2. QED
          BY <4>1
      <3>2. CASE ~includeUsers
        BY <2>6, <2>9, <3>2 DEF ShareLabels
      <3>3. QED
        BY <3>1, <3>2
    <2>11. s \in FairshareSeries(a) /\ s \in FairshareSeries(b)
      BY <2>1, <2>8, <2>10, ShareFacts
    <2>12. << "fairshare", i >> # << "fairshare", j >>
      BY <2>2
    <2>13. QED
      BY <2>3, <2>7, <2>11, <2>12
  <1>3. CASE DiagnosticsRepeat(s)
    <2>1. PICK i, j \in DOMAIN printed.scheduler :
              /\ i # j
              /\ printed.scheduler[i] = printed.scheduler[j]
              /\ printed.scheduler[i] \in DOMAIN Mapping
              /\ s[1] = Mapping[printed.scheduler[i]]
      BY <1>3 DEF DiagnosticsRepeat
    <2>2. << "scheduler", i >> \in Parts /\ << "scheduler", j >> \in Parts
      BY <2>1, PartsAre DEF ByRow
    <2>3. k = "scheduler"
      BY <1>1, <2>1, DiagnosticFacts
    <2>4. s \in DiagnosticSeries(printed.scheduler[n])
      BY <1>1, <2>3, SeriesAre
    <2>5. s = << s[1], NoLabels >>
      BY <2>4, DiagnosticFacts
    <2>6. /\ s \in DiagnosticSeries(printed.scheduler[i])
          /\ s \in DiagnosticSeries(printed.scheduler[j])
      BY <2>1, <2>5, DiagnosticFacts
    <2>7. << "scheduler", i >> # << "scheduler", j >>
      BY <2>1
    <2>8. QED
      BY <2>2, <2>6, <2>7, SeriesAre
  <1>4. QED
    BY <1>2, <1>3

LEMMA PartsAreFinite ==
    ASSUME InputOK, QueueInv
    PROVE  IsFiniteSet(Parts)
  <1>1. IsFiniteSet(ByRow)
    <2>1. IsFiniteSet({})
      BY FS_EmptySet
    <2>2. \A S, e : IsFiniteSet(S) => IsFiniteSet(S \cup {e})
      BY FS_AddElement
    <2>3. ByRow = ((((((({"nodes"} \cup {"partitions"}) \cup {"reservations"})
                     \cup {"accounting"}) \cup {"fairshare"}) \cup {"scheduler"})
                     \cup {"licenses"}) \cup {"account_limits"})
      BY DEF ByRow
    <2>4. IsFiniteSet({"nodes"})
      BY FS_Singleton
    <2>5. QED
      BY <2>2, <2>3, <2>4
  <1>2. \A k \in ByRow : IsFiniteSet({k} \X DOMAIN printed[k])
    <2> TAKE k \in ByRow
    <2>1. IsFiniteSet({k})
      BY FS_Singleton
    <2>2. IsFiniteSet(DOMAIN printed[k])
      BY RowsTyped, FS_Interval
    <2>3. QED
      BY <2>1, <2>2, FS_Product
  <1> DEFINE Q == {{k} \X DOMAIN printed[k] : k \in ByRow}
             f == [k \in ByRow |-> {k} \X DOMAIN printed[k]]
  <1>3. f \in Surjection(ByRow, Q)
    BY DEF Surjection
  <1>4. \A T \in Q : IsFiniteSet(T)
    BY <1>2
  <1>5. \A x : x \in UNION Q <=> \E k \in ByRow : x \in {k} \X DOMAIN printed[k]
    BY Zenon
  <1> HIDE DEF Q, f
  <1>6. IsFiniteSet(UNION Q)
    BY <1>1, <1>3, <1>4, FS_Surjection, FS_UNION
  <1>7. IsFiniteSet({"assignments"} \X Assigned)
    <2>1. Len(lines) \in Nat /\ DOMAIN lines = 1 .. Len(lines)
      BY DEF InputOK, IsListing
    <2>2. IsFiniteSet(Assigned)
      <3>1. IsFiniteSet(1 .. Len(lines)) /\ Assigned \subseteq 1 .. Len(lines)
        BY <2>1, FS_Interval DEF Assigned
      <3>2. QED
        BY <3>1, FS_Subset
    <2>3. QED
      BY <2>2, FS_Singleton, FS_Product
  <1>8. IsFiniteSet(Once \X {0})
    <2>1. Once = ({"queue"} \cup {"tres_profiles"}) \cup {"exporter"}
      BY DEF Once
    <2>2. IsFiniteSet(Once)
      BY <2>1, FS_Singleton, FS_AddElement
    <2>3. QED
      BY <2>2, FS_Singleton, FS_Product
  <1>9. IsFiniteSet({"jobs"} \X DOMAIN jobSeries)
    <2>1. IsFiniteSet(DOMAIN squeue)
      BY QueueFacts DEF QueueInv
    <2>2. IsFiniteSet(DOMAIN jobSeries)
      BY <2>1, JobsAreTold, FS_Subset
    <2>3. QED
      BY <2>2, FS_Singleton, FS_Product
  <1> DEFINE All == (((UNION Q) \cup ({"jobs"} \X DOMAIN jobSeries))
                        \cup ({"assignments"} \X Assigned)) \cup (Once \X {0})
  <1>10. IsFiniteSet(All)
    BY <1>6, <1>7, <1>8, <1>9, FS_Union
  <1>11. \A x \in Parts : x \in All
    <2> TAKE x \in Parts
    <2>1. PICK k, i : x = << k, i >>
      BY PartsAre
    <2>2. \/ k \in ByRow /\ i \in DOMAIN printed[k]
          \/ k = "jobs" /\ i \in DOMAIN jobSeries
          \/ k = "assignments" /\ i \in Assigned
          \/ k \in Once /\ i = 0
      BY <2>1, PartsAre
    <2>3. QED
      BY <1>5, <2>1, <2>2
  <1>12. QED
    BY <1>10, <1>11, FS_Subset

LEMMA ManyParts ==
    ASSUME NEW S, IsFiniteSet(S), S # {}
    PROVE  /\ Cardinality(S) \in Nat \ {0}
           /\ Cardinality(S) > 1 <=> \E x, y \in S : x # y
  <1>1. Cardinality(S) \in Nat /\ (Cardinality(S) = 0 <=> S = {})
    BY FS_CardinalityType, FS_EmptySet
  <1>2. Cardinality(S) = 1 <=> \E x : S = {x}
    BY FS_Singleton
  <1>3. QED
    BY <1>1, <1>2

\* A page made of a bag that counts parts, as the samples do, and of the lines
\* behind them.
LEMMA PageRepeats ==
    ASSUME InputOK, QueueInv, NEW b,
           \A s : s \in DOMAIN b <=> \E x \in Parts : s \in SeriesOf(x),
           \A s \in DOMAIN b : b[s] = Cardinality({x \in Parts : s \in SeriesOf(x)})
    PROVE  LET page == b (+) SetToBag(Footer)
           IN  \A s \in BagToSet(page) :
                   page[s] > 1 <=> SharesRepeat(s) \/ DiagnosticsRepeat(s)
  <1> DEFINE page == b (+) SetToBag(Footer)
             Adding(s) == {x \in Parts : s \in SeriesOf(x)}
  <1>1. /\ BagToSet(page) = DOMAIN b \cup Footer
        /\ \A s \in BagToSet(page) :
              page[s] = (IF s \in DOMAIN b THEN b[s] ELSE 0)
                        + (IF s \in Footer THEN 1 ELSE 0)
    BY DEF BagToSet, (+), SetToBag
  <1> HIDE DEF page
  <1>2. ASSUME NEW s \in DOMAIN b
        PROVE  /\ s \notin Footer
               /\ b[s] \in Nat
               /\ b[s] > 1 <=> SharesRepeat(s) \/ DiagnosticsRepeat(s)
    <2>1. PICK x \in Parts : s \in SeriesOf(x)
      OBVIOUS
    <2>2. s \notin Footer
      <3>1. Owner(s[1]) # "page"
        <4>1. PICK k, i : x = << k, i >>
          BY PartsAre
        <4>2. Owner(s[1]) = k
          BY <2>1, <4>1, PartOwns
        <4>3. k # "page"
          BY <4>1, PartsAre DEF ByRow, Once
        <4>4. QED
          BY <4>2, <4>3
      <3>2. QED
        BY <3>1, OthersOwned
    <2>3. IsFiniteSet(Adding(s))
      BY PartsAreFinite, FS_Subset
    <2>4. /\ Cardinality(Adding(s)) \in Nat
          /\ Cardinality(Adding(s)) > 1 <=> \E y, z \in Adding(s) : y # z
      BY <2>1, <2>3, ManyParts
    <2>5. (\E y, z \in Adding(s) : y # z) <=> SharesRepeat(s) \/ DiagnosticsRepeat(s)
      BY <2>1, SharedRepeats, RepeatsAreShared
    <2>6. QED
      BY <2>2, <2>4, <2>5
  <1>3. ASSUME NEW s \in Footer
        PROVE  ~ SharesRepeat(s) /\ ~ DiagnosticsRepeat(s)
    <2>1. Owner(s[1]) = "page"
      BY OthersOwned
    <2>2. QED
      BY <2>1, SharesOwned, DiagnosticFacts DEF SharesRepeat, DiagnosticsRepeat
  <1>4. SUFFICES ASSUME NEW s \in BagToSet(page)
                 PROVE  page[s] > 1 <=> SharesRepeat(s) \/ DiagnosticsRepeat(s)
    BY DEF page
  <1>5. CASE s \in DOMAIN b
    BY <1>1, <1>2, <1>5
  <1>6. CASE s \notin DOMAIN b
    BY <1>1, <1>3, <1>6
  <1>7. QED
    BY <1>5, <1>6

\* What Collect returns: each series as often as there are parts that add to it.
LEMMA CollectMakes ==
    ASSUME Collect
    PROVE  /\ \A s : s \in DOMAIN samples' <=> \E x \in Parts : s \in SeriesOf(x)
           /\ \A s \in DOMAIN samples' :
                 samples'[s] = Cardinality({x \in Parts : s \in SeriesOf(x)})
  <1> DEFINE made == [x \in Parts |-> SeriesOf(x)]
  <1>1. samples' = [s \in UNION Range(made) |->
                       Cardinality({x \in Parts : s \in made[x]})]
    BY Zenon DEF Collect
  <1>2. \A s : s \in UNION Range(made) <=> \E x \in Parts : s \in SeriesOf(x)
    BY DEF Range
  <1>3. \A s : {x \in Parts : s \in made[x]} = {x \in Parts : s \in SeriesOf(x)}
    OBVIOUS
  <1> HIDE DEF made
  <1>4. QED
    BY <1>1, <1>2, <1>3

-----------------------------------------------------------------------------

PageInv == InputOK /\ OnlySharesAndDiagnosticsRepeat

LEMMA PageBegins == PageInit => PageInv
  <1> SUFFICES ASSUME PageInit PROVE PageInv
    OBVIOUS
  <1>1. PICK x \in Inputs : lines = x.lines /\ includeUsers = x.users
                            /\ printed = x.printed /\ squeue = x.squeue
    BY DEF PageInit, QueueInit
  <1>2. /\ x.lines \in Listings /\ x.users \in BOOLEAN
        /\ x.printed \in Printable
        /\ \A k \in ByRow \ {"fairshare", "scheduler"} : IsInjective(x.printed[k])
        /\ \A i, j \in DOMAIN x.printed.nodes :
              LET a == x.printed.nodes[i]
                  b == x.printed.nodes[j]
              IN  a.node = b.node /\ a.partition = b.partition => i = j
        /\ \A i, j \in DOMAIN x.squeue :
              LET a == x.squeue[i]
                  b == x.squeue[j]
              IN  a.state = "RUNNING" /\ b.state = "RUNNING" /\ a.job = b.job
                      => i = j
    BY InputsAssumption
  <1>3. InputOK
    BY <1>1, <1>2, ListingsAssumption DEF InputOK
  <1>4. OnlySharesAndDiagnosticsRepeat
    BY DEF PageInit, OnlySharesAndDiagnosticsRepeat
  <1>5. QED
    BY <1>3, <1>4 DEF PageInv

\* Only Collect makes samples, and it returns once.
LEMMA PageStep ==
    TypeOK' /\ QueueInv /\ PageInv /\ [PageNext]_pageVars => PageInv'
  <1> SUFFICES ASSUME TypeOK', QueueInv, PageInv, [PageNext]_pageVars
               PROVE  PageInv'
    OBVIOUS
  <1>1. UNCHANGED << printed, includeUsers, squeue >>
    BY DEF PageNext, InQueue, InTresProfiles, Collect, pageVars, queueVars,
           QueueNext, NextRow, PassOverRow, AddRow, EndRows, PassOverJob, EmitJob,
           QueueReturns
  <1>2. InputOK'
    BY <1>1 DEF PageInv, InputOK, TypeOK
  <1>3. OnlySharesAndDiagnosticsRepeat'
    <2>1. CASE Collect
      <3>1. \A s \in BagToSet(Page') :
                Page'[s] > 1 <=> SharesRepeat(s) \/ DiagnosticsRepeat(s)
        BY <2>1, CollectMakes, PageRepeats DEF PageInv, Page
      <3>2. QED
        BY <1>1, <3>1 DEF OnlySharesAndDiagnosticsRepeat, SharesRepeat,
                          DiagnosticsRepeat
    <2>2. CASE UNCHANGED << samples, collected >>
      BY <1>1, <2>2 DEF PageInv, OnlySharesAndDiagnosticsRepeat, Page,
                        SharesRepeat, DiagnosticsRepeat
    <2>3. QED
      BY <2>1, <2>2 DEF PageNext, InQueue, InTresProfiles, pageVars
  <1>4. QED
    BY <1>2, <1>3 DEF PageInv

\* No series is on the page twice but the shares of an account with several
\* users, while labels.users is off, and a key of sdiag printed twice: whatever
\* the commands print, with any number of rows, and whatever a separator in a
\* job's name does to the labels of its series.
THEOREM OnlyTheseRepeat == PageSpec => []OnlySharesAndDiagnosticsRepeat
  <1>1. PageInv => OnlySharesAndDiagnosticsRepeat
    BY DEF PageInv
  <1>2. QED
    BY <1>1, PageBegins, PageStep, TresTypes, QueueInvHolds, PTL DEF PageSpec
=============================================================================
