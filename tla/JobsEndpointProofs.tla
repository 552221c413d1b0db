------------------------- MODULE JobsEndpointProofs -------------------------
(***************************************************************************)
(* Theorems about Accounting and JobsEndpoint: for any output of sacct and *)
(* any request.                                                            *)
(***************************************************************************)
EXTENDS JobsEndpoint, SumTheorems

(***************************************************************************)
(* Places in a set of numbers.                                             *)
(***************************************************************************)

LEMMA PlaceInRange ==
    ASSUME NEW S \in SUBSET Nat, IsFiniteSet(S), NEW n \in S
    PROVE  /\ IsFiniteSet({m \in S : m <= n})
           /\ Place(n, S) \in 1 .. Cardinality(S)
  <1> DEFINE P == {m \in S : m <= n}
  <1>1. P \subseteq S /\ n \in P
    OBVIOUS
  <1> HIDE DEF P
  <1>2. IsFiniteSet(P) /\ Cardinality(P) <= Cardinality(S)
    BY <1>1, FS_Subset
  <1>3. Cardinality(P) \in Nat /\ Cardinality(S) \in Nat
    BY <1>2, FS_CardinalityType
  <1>4. Cardinality(P) # 0
    BY <1>1, <1>2, FS_EmptySet
  <1>5. QED
    BY <1>2, <1>3, <1>4 DEF Place, P

LEMMA PlaceGrows ==
    ASSUME NEW S \in SUBSET Nat, IsFiniteSet(S), NEW n \in S, NEW m \in S, n < m
    PROVE  Place(n, S) < Place(m, S)
  <1> DEFINE P == {k \in S : k <= n}
             Q == {k \in S : k <= m}
  <1>1. n \in Nat /\ m \in Nat /\ \A k \in S : k \in Nat
    OBVIOUS
  <1>2. /\ \A k \in S : k <= n => k <= m
        /\ m <= m /\ ~ (m <= n)
    BY <1>1
  <1>3. P \subseteq Q /\ m \in Q /\ m \notin P
    BY <1>2
  <1>4. IsFiniteSet(P) /\ IsFiniteSet(Q)
    BY PlaceInRange
  <1>5. Place(n, S) = Cardinality(P) /\ Place(m, S) = Cardinality(Q)
    BY DEF Place
  <1> HIDE DEF P, Q
  <1>6. Cardinality(P \cup {m}) = Cardinality(P) + 1
    BY <1>3, <1>4, FS_AddElement
  <1>7. Cardinality(P \cup {m}) <= Cardinality(Q)
    <2>1. P \cup {m} \subseteq Q
      BY <1>3
    <2>2. QED
      BY <1>4, <2>1, FS_Subset
  <1>8. Cardinality(P) \in Nat /\ Cardinality(Q) \in Nat
    BY <1>4, FS_CardinalityType
  <1>9. QED
    BY <1>5, <1>6, <1>7, <1>8

\* A number larger than all is last, and moves none.
LEMMA PlaceOfNew ==
    ASSUME NEW S \in SUBSET Nat, IsFiniteSet(S), NEW m \in Nat, \A n \in S : n < m
    PROVE  /\ Cardinality(S \cup {m}) = Cardinality(S) + 1
           /\ Place(m, S \cup {m}) = Cardinality(S) + 1
           /\ \A n \in S : Place(n, S \cup {m}) = Place(n, S)
  <1>1. \A k \in S : k \in Nat
    OBVIOUS
  <1>2. m \notin S
    BY <1>1
  <1>3. Cardinality(S \cup {m}) = Cardinality(S) + 1
    BY <1>2, FS_AddElement
  <1>4. \A k \in S \cup {m} : k <= m
    BY <1>1
  <1>5. \A n \in S : ~ (m <= n)
    BY <1>1
  <1>6. {k \in S \cup {m} : k <= m} = S \cup {m}
    BY <1>4
  <1>7. \A n \in S : {k \in S \cup {m} : k <= n} = {k \in S : k <= n}
    BY <1>5
  <1>8. QED
    BY <1>3, <1>6, <1>7 DEF Place

\* The place of n is one behind what is in front of it.
LEMMA PlaceCounts ==
    ASSUME NEW S \in SUBSET Nat, IsFiniteSet(S), NEW n \in S
    PROVE  /\ IsFiniteSet({m \in S : m < n})
           /\ Place(n, S) = Cardinality({m \in S : m < n}) + 1
  <1> DEFINE P == {m \in S : m < n}
  <1>1. n \in Nat /\ \A k \in S : k \in Nat
    OBVIOUS
  <1>2. \A k \in S : (k <= n <=> k < n \/ k = n) /\ ~ (n < n)
    BY <1>1
  <1>3. {m \in S : m <= n} = P \cup {n} /\ n \notin P /\ P \subseteq S
    BY <1>2
  <1>4. IsFiniteSet(P)
    BY <1>3, FS_Subset
  <1> HIDE DEF P
  <1>5. Cardinality(P \cup {n}) = Cardinality(P) + 1
    BY <1>3, <1>4, FS_AddElement
  <1>6. QED
    BY <1>3, <1>4, <1>5 DEF Place, P

(***************************************************************************)
(* Records of jobs.                                                        *)
(***************************************************************************)

BaseStates == {baseState(s) : s \in RawStates}
Ratios == Nat \X (Nat \ {0})

JobRecords ==
    [job : JobIds, account : Accounts, state : BaseStates,
     cpus : Numbers, elapsed : Numbers, used : Numbers,
     requested : Nat, peak : Nat, cpuRatio : Ratios, memRatio : Ratios]

LEMMA NumbersAreNat == Numbers \subseteq Nat
  BY AccountingAssumption DEF Numbers

LEMMA ProductsAreNat == \A a, b \in Nat : a * b \in Nat
  OBVIOUS

LEMMA RatioType ==
    ASSUME NEW n \in Nat, NEW d \in Nat
    PROVE  Ratio(n, d) \in Ratios
  BY DEF Ratio, Ratios

LEMMA RequestedType ==
    ASSUME NEW r \in Rows
    PROVE  RequestedBytes(r) \in Nat
  <1>1. /\ r.mem \in Nat /\ r.cpus \in Nat /\ r.nodes \in Nat
        /\ r.per \in {"job", "cpu", "node"}
    BY NumbersAreNat DEF Rows
  <1>2. NodesOf(r) \in Nat
    BY <1>1 DEF NodesOf
  <1>3. QED
    BY <1>1, <1>2, ProductsAreNat DEF RequestedBytes, memoryAllocation

LEMMA RecordFacts ==
    ASSUME NEW r \in Rows, maxRSS \in [JobIds -> Numbers]
    PROVE  /\ JobRecord(r) \in JobRecords
           /\ JobRecord(r).job = r.job /\ JobRecord(r).account = r.account
           /\ KeyOf(JobRecord(r)) = GroupOf(r)
           /\ JobRecord(r).cpuRatio =
                 Ratio(JobRecord(r).used, JobRecord(r).cpus * JobRecord(r).elapsed)
           /\ JobRecord(r).memRatio =
                 Ratio(JobRecord(r).peak, JobRecord(r).requested)
           /\ r.fields = "all" => JobRecord(r).peak = Peak(r)
  <1> DEFINE all == r.fields = "all"
             requested == IF all THEN RequestedBytes(r) ELSE 0
             peak == IF all THEN Peak(r) ELSE 0
             c == Ratio(r.used, r.cpus * r.elapsed)
             m == Ratio(peak, requested)
  <1>1. /\ r.job \in JobIds /\ r.account \in Accounts /\ baseState(r.state) \in BaseStates
        /\ r.cpus \in Numbers /\ r.elapsed \in Numbers /\ r.used \in Numbers
        /\ r.rss \in Numbers
    BY DEF Rows, BaseStates
  <1>2. requested \in Nat /\ peak \in Nat
    BY <1>1, RequestedType, NumbersAreNat DEF Peak
  <1>3. c \in Ratios
    <2>1. r.used \in Nat /\ r.cpus * r.elapsed \in Nat
      BY <1>1, NumbersAreNat, ProductsAreNat
    <2>2. QED
      BY <2>1, RatioType
  <1> HIDE DEF requested, peak
  <1>4. m \in Ratios
    BY <1>2, RatioType
  <1> HIDE DEF c, m
  <1>5. JobRecord(r) = [job |-> r.job, account |-> r.account,
                        state |-> baseState(r.state), cpus |-> r.cpus,
                        elapsed |-> r.elapsed, used |-> r.used,
                        requested |-> requested, peak |-> peak,
                        cpuRatio |-> c, memRatio |-> m]
    BY DEF JobRecord, requested, peak, c, m
  <1>6. JobRecord(r) \in JobRecords
    BY <1>1, <1>2, <1>3, <1>4, <1>5 DEF JobRecords
  <1>7. /\ JobRecord(r).job = r.job /\ JobRecord(r).account = r.account
        /\ JobRecord(r).state = baseState(r.state)
        /\ JobRecord(r).cpuRatio =
              Ratio(JobRecord(r).used, JobRecord(r).cpus * JobRecord(r).elapsed)
        /\ JobRecord(r).memRatio = Ratio(JobRecord(r).peak, JobRecord(r).requested)
        /\ JobRecord(r).peak = peak
    BY <1>5 DEF c, m
  <1>8. QED
    BY <1>6, <1>7 DEF KeyOf, GroupOf, peak

Figures == {"jobs", "capacity", "cpu", "memUsed", "memReq"}

LEMMA FiguresAre ==
    /\ DOMAIN NoSums = Figures /\ \A f \in Figures : NoSums[f] = 0
    /\ NoSums \in [Figures -> Nat]
  BY DEF NoSums, Figures

LEMMA ShareFacts ==
    ASSUME NEW j \in JobRecords
    PROVE  /\ \A f \in Figures : Share(j)[f] \in Nat
           /\ Share(j).capacity = j.cpus * j.elapsed /\ Share(j).cpu = j.used
           /\ Share(j).memUsed = j.peak /\ Share(j).memReq = j.requested
  <1>1. /\ j.cpus \in Nat /\ j.elapsed \in Nat /\ j.used \in Nat
        /\ j.peak \in Nat /\ j.requested \in Nat
    BY NumbersAreNat DEF JobRecords
  <1>2. j.cpus * j.elapsed \in Nat
    BY <1>1, ProductsAreNat
  <1>3. /\ Share(j).jobs = 1 /\ Share(j).capacity = j.cpus * j.elapsed
        /\ Share(j).cpu = j.used /\ Share(j).memUsed = j.peak
        /\ Share(j).memReq = j.requested
    BY DEF Share
  <1>4. QED
    BY <1>1, <1>2, <1>3 DEF Figures

\* Counting a job adds what its record counts for.
LEMMA PlusFacts ==
    ASSUME NEW r \in Rows, NEW a \in [Figures -> Nat],
           maxRSS \in [JobIds -> Numbers]
    PROVE  /\ Plus(a, r, JobRecord(r)) \in [Figures -> Nat]
           /\ \A f \in Figures :
                 Plus(a, r, JobRecord(r))[f] = a[f] + Share(JobRecord(r))[f]
  <1> DEFINE j == JobRecord(r)
             b == Plus(a, r, j)
  <1>1. j.cpus = r.cpus /\ j.elapsed = r.elapsed /\ j.used = r.used
    BY DEF JobRecord
  <1>2. j \in JobRecords
    BY RecordFacts
  <1> HIDE DEF j
  <1>3. /\ b.jobs = a.jobs + 1
        /\ b.capacity = a.capacity + r.cpus * r.elapsed
        /\ b.cpu = a.cpu + r.used
        /\ b.memUsed = a.memUsed + j.peak /\ b.memReq = a.memReq + j.requested
        /\ b = [f \in Figures |-> b[f]]
    BY DEF Plus, CPUTimeRaw, Figures
  <1>4. Share(j).jobs = 1
    BY DEF Share
  <1> HIDE DEF b
  <1>5. \A f \in Figures : b[f] = a[f] + Share(j)[f]
    BY <1>1, <1>2, <1>3, <1>4, ShareFacts DEF Figures
  <1>6. \A f \in Figures : b[f] \in Nat
    BY <1>2, <1>5, ShareFacts
  <1>7. QED
    BY <1>3, <1>5, <1>6 DEF b, j

(***************************************************************************)
(* accounting: the loops.                                                  *)
(***************************************************************************)

\* The steps of a job that the first loop has seen.
StepRows(id) == {i \in DOMAIN rows : /\ pass = "steps" => i < next
                                     /\ rows[i].job = id
                                     /\ rows[i].step /\ rows[i].fields = "all"}

PeaksInv ==
    \A id \in JobIds :
        /\ \A i \in StepRows(id) : rows[i].rss <= maxRSS[id]
        /\ maxRSS[id] = 0 \/ \E i \in StepRows(id) : rows[i].rss = maxRSS[id]

RecordsInv ==
    /\ jobs \in Seq(JobRecords)
    /\ Len(jobs) = Cardinality(Roots)
    /\ \A n \in Roots : RecordOf(n) = JobRecord(rows[n])
    /\ \A k \in DOMAIN jobs : \E n \in Roots : jobs[k] = JobRecord(rows[n])

ShareOf(f) == [n \in DOMAIN jobs |-> Share(jobs[n])[f]]

GroupsInv ==
    /\ DOMAIN groups = {KeyOf(jobs[n]) : n \in DOMAIN jobs}
    /\ \A g \in DOMAIN groups, f \in Figures :
          groups[g][f] = SumFunctionOnSet(ShareOf(f), Members(g))

SamplesInv ==
    /\ DOMAIN samples # {} => pass \in {"emit", "returned"}
    /\ DOMAIN samples \subseteq DOMAIN groups
    /\ \A g \in DOMAIN samples : samples[g] = Sample(groups[g])

LEMMA RowsFacts ==
    ASSUME rows \in Seq(Rows), next \in 1 .. Len(rows) + 1
    PROVE  /\ Len(rows) \in Nat /\ DOMAIN rows = 1 .. Len(rows)
           /\ \A i \in DOMAIN rows : rows[i] \in Rows /\ i \in Nat
           /\ next \in Nat /\ next + 1 \in 1 .. Len(rows) + 2
           /\ next <= Len(rows) => /\ next \in DOMAIN rows
                                   /\ next + 1 \in 1 .. Len(rows) + 1
           /\ ~ (next <= Len(rows)) => \A i \in DOMAIN rows : i < next
           /\ \A i \in DOMAIN rows : i < next + 1 <=> i < next \/ i = next
           /\ 1 \in 1 .. Len(rows) + 1
           /\ IsFiniteSet(Roots) /\ Roots \in SUBSET Nat
  <1>1. Len(rows) \in Nat /\ DOMAIN rows = 1 .. Len(rows)
        /\ \A i \in DOMAIN rows : rows[i] \in Rows
    OBVIOUS
  <1>2. Roots \subseteq 1 .. Len(rows)
    BY <1>1 DEF Roots
  <1>3. IsFiniteSet(1 .. Len(rows))
    BY <1>1, FS_Interval
  <1>4. IsFiniteSet(Roots)
    BY <1>2, <1>3, FS_Subset
  <1>5. QED
    BY <1>1, <1>2, <1>4

\* TypeOK, its facts about records in the stronger form of RecordsInv.
Types ==
    /\ rows \in Seq(Rows)
    /\ pass \in {"steps", "jobs", "emit", "returned"}
    /\ next \in 1 .. Len(rows) + 1
    /\ maxRSS \in [JobIds -> Numbers]
    /\ \A g \in DOMAIN groups : groups[g] \in [Figures -> Nat]

LEMMA SumsOfType ==
    ASSUME Types, NEW g
    PROVE  SumsOf(g) \in [Figures -> Nat]
  BY FiguresAre DEF Types, SumsOf

LEMMA TypesStep ==
    ASSUME Types, [Next]_vars
    PROVE  Types'
  <1>0. /\ rows \in Seq(Rows) /\ pass \in {"steps", "jobs", "emit", "returned"}
        /\ next \in 1 .. Len(rows) + 1 /\ maxRSS \in [JobIds -> Numbers]
        /\ \A g \in DOMAIN groups : groups[g] \in [Figures -> Nat]
    BY DEF Types
  <1>1. CASE ScanRow
    <2> DEFINE r == rows[next]
    <2>1. r \in Rows /\ next + 1 \in 1 .. Len(rows) + 1
      BY <1>0, <1>1, RowsFacts DEF ScanRow
    <2>2. r.rss \in Numbers /\ r.job \in JobIds
      BY <2>1 DEF Rows
    <2>3. maxRSS' \in [JobIds -> Numbers]
      BY <1>0, <1>1, <2>2 DEF ScanRow
    <2>4. next' = next + 1 /\ UNCHANGED << rows, pass, groups >>
      BY <1>1 DEF ScanRow
    <2>5. QED
      BY <1>0, <2>1, <2>3, <2>4 DEF Types
  <1>2. CASE CountJob
    <2> DEFINE r == rows[next]
               j == JobRecord(r)
               g == GroupOf(r)
               a == Plus(SumsOf(g), r, j)
    <2>1. r \in Rows /\ next + 1 \in 1 .. Len(rows) + 1
      BY <1>0, <1>2, RowsFacts DEF CountJob
    <2>2. a \in [Figures -> Nat]
      BY <1>0, <2>1, SumsOfType, PlusFacts
    <2>3. /\ DOMAIN groups' = DOMAIN groups \cup {g} /\ groups'[g] = a
          /\ \A h \in DOMAIN groups : h # g => groups'[h] = groups[h]
      BY <1>2 DEF CountJob
    <2> HIDE DEF a, g
    <2>4. \A h \in DOMAIN groups' : groups'[h] \in [Figures -> Nat]
      BY <1>0, <2>2, <2>3
    <2>5. next' = next + 1 /\ UNCHANGED << rows, pass, maxRSS >>
      BY <1>2 DEF CountJob
    <2>6. QED
      BY <1>0, <2>1, <2>4, <2>5 DEF Types
  <1>3. CASE SkipRow
    <2>1. next + 1 \in 1 .. Len(rows) + 1
      BY <1>0, <1>3, RowsFacts DEF SkipRow
    <2>2. QED
      BY <1>0, <1>3, <2>1 DEF SkipRow, Types
  <1>4. CASE NextPass
    <2>1. 1 \in 1 .. Len(rows) + 1
      BY <1>0, RowsFacts
    <2>2. QED
      BY <1>0, <1>4, <2>1 DEF NextPass, Types
  <1>5. ASSUME NEW g \in DOMAIN groups, Emit(g) PROVE Types'
    BY <1>0, <1>5 DEF Emit, Types
  <1>6. CASE Return
    BY <1>0, <1>6 DEF Return, Types
  <1>7. CASE UNCHANGED vars
    BY <1>0, <1>7 DEF vars, Types
  <1>8. QED
    BY <1>1, <1>2, <1>3, <1>4, <1>5, <1>6, <1>7 DEF Next

LEMMA PeaksStep ==
    ASSUME Types, PeaksInv, [Next]_vars
    PROVE  PeaksInv'
  <1>0. \A id \in JobIds :
          /\ \A i \in StepRows(id) : rows[i].rss <= maxRSS[id]
          /\ maxRSS[id] = 0 \/ \E i \in StepRows(id) : rows[i].rss = maxRSS[id]
    BY DEF PeaksInv
  <1>1. CASE ScanRow
    <2> DEFINE r == rows[next]
               Later(id) == {i \in DOMAIN rows : /\ i < next + 1 /\ rows[i].job = id
                                                 /\ rows[i].step
                                                 /\ rows[i].fields = "all"}
    <2>1. /\ pass = "steps" /\ next \in DOMAIN rows /\ r \in Rows
          /\ next' = next + 1 /\ UNCHANGED << rows, pass >>
          /\ maxRSS' = IF r.step /\ r.fields = "all" /\ Exceeds(r)
                       THEN [maxRSS EXCEPT ![r.job] = r.rss] ELSE maxRSS
      BY <1>1, RowsFacts DEF ScanRow, Types
    <2>2. /\ r.rss \in Nat /\ r.job \in JobIds
          /\ \A id \in JobIds : maxRSS[id] \in Nat
          /\ DOMAIN maxRSS = JobIds
          /\ \A i \in DOMAIN rows : rows[i].rss \in Nat
      BY <2>1, RowsFacts, NumbersAreNat DEF Types, Rows
    <2>3. ASSUME NEW id \in JobIds
          PROVE  Later(id) = IF r.step /\ r.fields = "all" /\ r.job = id
                             THEN StepRows(id) \cup {next} ELSE StepRows(id)
      BY <2>1, RowsFacts DEF StepRows, Types
    <2>4. ASSUME NEW id \in JobIds
          PROVE  maxRSS'[id] = IF r.step /\ r.fields = "all" /\ r.job = id
                                  /\ r.rss > maxRSS[id]
                               THEN r.rss ELSE maxRSS[id]
      BY <2>1, <2>2 DEF Exceeds
    <2>5. ASSUME NEW id \in JobIds
          PROVE  /\ \A i \in Later(id) : rows[i].rss <= maxRSS'[id]
                 /\ maxRSS'[id] = 0 \/ \E i \in Later(id) : rows[i].rss = maxRSS'[id]
      <3> HIDE DEF Later
      <3>0. StepRows(id) \subseteq DOMAIN rows
        BY DEF StepRows
      <3>1. CASE r.step /\ r.fields = "all" /\ r.job = id
        <4>1. Later(id) = StepRows(id) \cup {next}
          BY <2>3, <3>1
        <4>2. maxRSS'[id] = IF r.rss > maxRSS[id] THEN r.rss ELSE maxRSS[id]
          BY <2>4, <3>1
        <4>3. CASE r.rss > maxRSS[id]
          BY <1>0, <2>2, <3>0, <4>1, <4>2, <4>3
        <4>4. CASE ~ (r.rss > maxRSS[id])
          BY <1>0, <2>2, <3>0, <4>1, <4>2, <4>4
        <4>5. QED
          BY <4>3, <4>4
      <3>2. CASE ~ (r.step /\ r.fields = "all" /\ r.job = id)
        BY <1>0, <2>3, <2>4, <3>2
      <3>3. QED
        BY <3>1, <3>2
    <2>6. QED
      BY <2>1, <2>5 DEF PeaksInv, StepRows
  <1>2. CASE UNCHANGED << rows, maxRSS >> /\ (pass = "steps" <=> pass' = "steps")
             /\ (pass = "steps" => next' = next)
    BY <1>0, <1>2 DEF PeaksInv, StepRows
  <1>3. CASE CountJob \/ SkipRow \/ Return \/ (\E g \in DOMAIN groups : Emit(g))
             \/ UNCHANGED vars
    BY <1>2, <1>3 DEF CountJob, SkipRow, Return, Emit, vars
  <1>4. CASE NextPass
    <2>1. CASE pass = "steps"
      <3>1. \A i \in DOMAIN rows : i < next
        BY <1>4, RowsFacts DEF NextPass, Types
      <3>2. UNCHANGED << rows, maxRSS >> /\ pass' = "jobs"
        BY <1>4, <2>1 DEF NextPass
      <3>3. QED
        BY <1>0, <3>1, <3>2 DEF PeaksInv, StepRows
    <2>2. CASE pass # "steps"
      BY <1>2, <1>4, <2>2 DEF NextPass
    <2>3. QED
      BY <2>1, <2>2
  <1>5. QED
    BY <1>1, <1>3, <1>4 DEF Next

\* What CountJob does to the rows and the records.
LEMMA CountJobFacts ==
    ASSUME Types, RecordsInv, CountJob
    PROVE  /\ next \in DOMAIN rows /\ rows[next] \in Rows
           /\ Roots' = Roots \cup {next} /\ next \in Nat /\ \A n \in Roots : n < next
           /\ JobRecord(rows[next]) \in JobRecords
           /\ jobs' \in Seq(JobRecords)
           /\ Len(jobs) \in Nat /\ Len(jobs') = Len(jobs) + 1
           /\ DOMAIN jobs = 1 .. Len(jobs) /\ DOMAIN jobs' = 1 .. Len(jobs) + 1
           /\ jobs'[Len(jobs) + 1] = JobRecord(rows[next])
           /\ \A k \in DOMAIN jobs : jobs'[k] = jobs[k]
           /\ UNCHANGED << rows, maxRSS, pass >>
  <1> DEFINE r == rows[next]
             j == JobRecord(r)
  <1>1. /\ pass = "jobs" /\ next <= Len(rows) /\ r.fields # "few" /\ ~r.step
        /\ next' = next + 1 /\ UNCHANGED << rows, maxRSS, pass >>
        /\ jobs' = Append(jobs, j)
    BY DEF CountJob, IsJob
  <1>2. next \in DOMAIN rows /\ r \in Rows /\ next \in Nat
        /\ \A i \in DOMAIN rows : (i < next + 1 <=> i < next \/ i = next)
    BY <1>1, RowsFacts DEF Types
  <1>3. Roots' = Roots \cup {next} /\ \A n \in Roots : n < next
    BY <1>1, <1>2 DEF Roots
  <1>4. j \in JobRecords
    BY <1>2, RecordFacts DEF Types
  <1> HIDE DEF j
  <1>5. jobs \in Seq(JobRecords)
    BY DEF RecordsInv
  <1>6. /\ jobs' \in Seq(JobRecords)
        /\ Len(jobs) \in Nat /\ Len(jobs') = Len(jobs) + 1
        /\ DOMAIN jobs = 1 .. Len(jobs) /\ DOMAIN jobs' = 1 .. Len(jobs) + 1
        /\ jobs'[Len(jobs) + 1] = j
        /\ \A k \in DOMAIN jobs : jobs'[k] = jobs[k]
    BY <1>1, <1>4, <1>5
  <1>7. QED
    BY <1>1, <1>2, <1>3, <1>4, <1>6 DEF j

\* The steps that leave the rows the second loop has been over.
LEMMA RootsStay ==
    ASSUME Types, ScanRow \/ SkipRow \/ NextPass \/ Return
                  \/ (\E g \in DOMAIN groups : Emit(g)) \/ UNCHANGED vars
    PROVE  Roots' = Roots /\ UNCHANGED << rows, jobs, groups >>
           /\ (ScanRow \/ maxRSS' = maxRSS)
  <1>1. CASE ScanRow
    BY <1>1 DEF ScanRow, Roots
  <1>2. CASE SkipRow
    <2>1. /\ pass = "jobs" /\ ~ IsJob(rows[next]) /\ next' = next + 1
          /\ UNCHANGED << rows, pass, maxRSS, groups, jobs >>
      BY <1>2 DEF SkipRow
    <2>2. \A i \in DOMAIN rows : i < next + 1 <=> i < next \/ i = next
      BY RowsFacts DEF Types
    <2>3. QED
      BY <2>1, <2>2 DEF Roots, IsJob
  <1>3. CASE NextPass
    <2>1. \A i \in DOMAIN rows : i < next /\ ~ (i < 1)
      BY <1>3, RowsFacts DEF NextPass, Types
    <2>2. QED
      BY <1>3, <2>1 DEF NextPass, Roots
  <1>4. CASE Return \/ (\E g \in DOMAIN groups : Emit(g)) \/ UNCHANGED vars
    BY <1>4 DEF Return, Emit, vars, Roots
  <1>5. QED
    BY <1>1, <1>2, <1>3, <1>4

LEMMA RecordsStep ==
    ASSUME Types, RecordsInv, [Next]_vars
    PROVE  RecordsInv'
  <1>0. /\ jobs \in Seq(JobRecords)
        /\ Len(jobs) = Cardinality(Roots)
        /\ \A n \in Roots : RecordOf(n) = JobRecord(rows[n])
        /\ \A k \in DOMAIN jobs : \E n \in Roots : jobs[k] = JobRecord(rows[n])
    BY DEF RecordsInv
  <1>1. CASE ScanRow
    <2>1. Roots = {}
      BY <1>1 DEF ScanRow, Roots
    <2>2. Roots' = {} /\ jobs' = jobs
      BY <1>1, <2>1, RootsStay
    <2>3. DOMAIN jobs = {}
      BY <1>0, <2>1
    <2>4. QED
      BY <1>0, <2>1, <2>2, <2>3 DEF RecordsInv
  <1>2. CASE SkipRow \/ NextPass \/ Return
             \/ (\E g \in DOMAIN groups : Emit(g)) \/ UNCHANGED vars
    <2>1. CASE ScanRow
      BY <1>1, <2>1
    <2>2. CASE ~ ScanRow
      <3>1. Roots' = Roots /\ UNCHANGED << rows, jobs, maxRSS >>
        BY <1>2, <2>2, RootsStay
      <3>2. \A r : JobRecord(r)' = JobRecord(r)
        BY <3>1 DEF JobRecord, Peak
      <3>3. QED
        BY <1>0, <3>1, <3>2 DEF RecordsInv, RecordOf
    <2>3. QED
      BY <2>1, <2>2
  <1>3. CASE CountJob
    <2> DEFINE c == Cardinality(Roots)
               j == JobRecord(rows[next])
    <2>1. /\ Roots' = Roots \cup {next} /\ next \in Nat /\ \A n \in Roots : n < next
          /\ jobs' \in Seq(JobRecords)
          /\ Len(jobs) \in Nat /\ Len(jobs') = Len(jobs) + 1
          /\ DOMAIN jobs = 1 .. Len(jobs) /\ DOMAIN jobs' = 1 .. Len(jobs) + 1
          /\ jobs'[Len(jobs) + 1] = j
          /\ \A k \in DOMAIN jobs : jobs'[k] = jobs[k]
          /\ UNCHANGED << rows, maxRSS, pass >>
      BY <1>3, CountJobFacts
    <2>2. /\ IsFiniteSet(Roots) /\ Roots \in SUBSET Nat
      BY RowsFacts DEF Types
    <2>3. /\ Cardinality(Roots \cup {next}) = c + 1
          /\ Place(next, Roots \cup {next}) = c + 1
          /\ \A n \in Roots : Place(n, Roots \cup {next}) = Place(n, Roots)
      BY <2>1, <2>2, PlaceOfNew
    <2>4. \A n \in Roots : Place(n, Roots) \in DOMAIN jobs
      BY <1>0, <2>1, <2>2, PlaceInRange
    <2>5. \A r : JobRecord(r)' = JobRecord(r)
      BY <2>1 DEF JobRecord, Peak
    <2> HIDE DEF j
    <2>6. ASSUME NEW n \in Roots \cup {next}
          PROVE  jobs'[Place(n, Roots \cup {next})] = JobRecord(rows[n])
      <3>1. CASE n = next
        BY <1>0, <2>1, <2>3, <3>1 DEF j
      <3>2. CASE n # next
        BY <1>0, <2>1, <2>3, <2>4, <3>2 DEF RecordOf
      <3>3. QED
        BY <3>1, <3>2
    <2>7. ASSUME NEW k \in DOMAIN jobs'
          PROVE  \E n \in Roots \cup {next} : jobs'[k] = JobRecord(rows[n])
      <3>1. CASE k = Len(jobs) + 1
        BY <2>1, <3>1 DEF j
      <3>2. CASE k # Len(jobs) + 1
        <4>1. k \in DOMAIN jobs
          BY <2>1, <3>2
        <4>2. QED
          BY <1>0, <2>1, <4>1
      <3>3. QED
        BY <3>1, <3>2
    <2>8. \A n : RecordOf(n)' = jobs'[Place(n, Roots \cup {next})]
      BY <2>1 DEF RecordOf, Place
    <2>9. QED
      BY <1>0, <2>1, <2>3, <2>5, <2>6, <2>7, <2>8 DEF RecordsInv
  <1>4. QED
    BY <1>1, <1>2, <1>3 DEF Next

LEMMA MembersFacts ==
    ASSUME jobs \in Seq(JobRecords), NEW g
    PROVE  /\ IsFiniteSet(Members(g)) /\ Members(g) \subseteq DOMAIN jobs
           /\ \A n \in DOMAIN jobs, f \in Figures :
                 /\ ShareOf(f)[n] = Share(jobs[n])[f]
                 /\ ShareOf(f)[n] \in Nat
  <1>1. Len(jobs) \in Nat /\ DOMAIN jobs = 1 .. Len(jobs)
        /\ \A n \in DOMAIN jobs : jobs[n] \in JobRecords
    OBVIOUS
  <1>2. IsFiniteSet(DOMAIN jobs)
    BY <1>1, FS_Interval
  <1>3. Members(g) \subseteq DOMAIN jobs
    BY DEF Members
  <1>4. IsFiniteSet(Members(g))
    BY <1>2, <1>3, FS_Subset
  <1>5. QED
    BY <1>1, <1>3, <1>4, ShareFacts DEF ShareOf

LEMMA GroupsStep ==
    ASSUME Types, RecordsInv, GroupsInv, [Next]_vars
    PROVE  GroupsInv'
  <1>0. /\ DOMAIN groups = {KeyOf(jobs[n]) : n \in DOMAIN jobs}
        /\ \A g \in DOMAIN groups, f \in Figures :
              groups[g][f] = SumFunctionOnSet(ShareOf(f), Members(g))
    BY DEF GroupsInv
  <1>1. CASE UNCHANGED << groups, jobs >>
    BY <1>0, <1>1 DEF GroupsInv, ShareOf, Members
  <1>2. CASE ScanRow \/ SkipRow \/ NextPass \/ Return
             \/ (\E g \in DOMAIN groups : Emit(g)) \/ UNCHANGED vars
    BY <1>1, <1>2, RootsStay
  <1>3. CASE CountJob
    <2> DEFINE r == rows[next]
               j == JobRecord(r)
               key == GroupOf(r)
               a == Plus(SumsOf(key), r, j)
               last == Len(jobs) + 1
    <2>1. /\ r \in Rows /\ j \in JobRecords /\ jobs' \in Seq(JobRecords)
          /\ Len(jobs) \in Nat
          /\ DOMAIN jobs = 1 .. Len(jobs) /\ DOMAIN jobs' = 1 .. last
          /\ jobs'[last] = j
          /\ \A k \in DOMAIN jobs : jobs'[k] = jobs[k]
      BY <1>3, CountJobFacts
    <2>2. /\ DOMAIN groups' = DOMAIN groups \cup {key} /\ groups'[key] = a
          /\ \A h \in DOMAIN groups : h # key => groups'[h] = groups[h]
      BY <1>3 DEF CountJob
    <2>3. \A f \in Figures : a[f] = SumsOf(key)[f] + Share(j)[f]
      BY <2>1, SumsOfType, PlusFacts DEF Types
    <2>4. KeyOf(j) = key
      BY <2>1, RecordFacts DEF Types
    <2> HIDE DEF j, key, a
    <2>5. /\ DOMAIN jobs' = DOMAIN jobs \cup {last} /\ last \notin DOMAIN jobs
      BY <2>1
    <2> HIDE DEF last
    <2>6. DOMAIN groups' = {KeyOf(jobs'[n]) : n \in DOMAIN jobs'}
      BY <1>0, <2>1, <2>2, <2>4, <2>5
    <2> DEFINE Later(g) == {n \in DOMAIN jobs' : KeyOf(jobs'[n]) = g}
               Shares(f) == [n \in DOMAIN jobs' |-> Share(jobs'[n])[f]]
    <2>7. Later(key) = Members(key) \cup {last} /\ last \notin Members(key)
      BY <2>1, <2>4, <2>5 DEF Members
    <2>8. \A g : g # key => Later(g) = Members(g)
      BY <2>1, <2>4, <2>5 DEF Members
    <2>9. ASSUME NEW f \in Figures, NEW g
          PROVE  SumFunctionOnSet(Shares(f), Members(g)) =
                    SumFunctionOnSet(ShareOf(f), Members(g))
      <3>1. IsFiniteSet(Members(g)) /\ Members(g) \subseteq DOMAIN jobs
        BY MembersFacts DEF RecordsInv
      <3>2. \A n \in Members(g) : Shares(f)[n] = ShareOf(f)[n]
        BY <2>1, <2>5, <3>1 DEF ShareOf
      <3> HIDE DEF Shares
      <3>3. QED
        BY <3>1, <3>2, SumSame
    <2>10. \A f \in Figures : SumsOf(key)[f] = SumFunctionOnSet(ShareOf(f), Members(key))
      <3>1. CASE key \in DOMAIN groups
        BY <1>0, <3>1 DEF SumsOf
      <3>2. CASE key \notin DOMAIN groups
        <4>1. Members(key) = {}
          BY <1>0, <3>2 DEF Members
        <4>2. \A f \in Figures : SumsOf(key)[f] = 0
          BY <3>2, FiguresAre DEF SumsOf
        <4>3. QED
          BY <4>1, <4>2, SumEmpty
      <3>3. QED
        BY <3>1, <3>2
    <2>11. ASSUME NEW f \in Figures
           PROVE  groups'[key][f] = SumFunctionOnSet(Shares(f), Later(key))
      <3>1. /\ IsFiniteSet(Members(key)) /\ Members(key) \subseteq DOMAIN jobs
            /\ \A n \in DOMAIN jobs : ShareOf(f)[n] \in Nat
        BY MembersFacts DEF RecordsInv
      <3>2. /\ Shares(f)[last] = Share(j)[f] /\ Share(j)[f] \in Int
            /\ \A n \in Members(key) : Shares(f)[n] \in Int
        <4>1. \A n \in Members(key) : Shares(f)[n] = ShareOf(f)[n]
          BY <2>1, <2>5, <3>1 DEF ShareOf
        <4>2. Shares(f)[last] = Share(j)[f]
          BY <2>1, <2>5
        <4>3. Share(j)[f] \in Int
          BY <2>1, ShareFacts
        <4> HIDE DEF Shares
        <4>4. QED
          BY <3>1, <4>1, <4>2, <4>3
      <3> HIDE DEF Shares, Later
      <3>3. SumFunctionOnSet(Shares(f), Members(key) \cup {last}) =
               SumFunctionOnSet(Shares(f), Members(key)) + Shares(f)[last]
        BY <2>7, <3>1, <3>2, SumAdd
      <3>4. QED
        BY <2>2, <2>3, <2>7, <2>9, <2>10, <3>2, <3>3
    <2>12. ASSUME NEW g \in DOMAIN groups', NEW f \in Figures
           PROVE  groups'[g][f] = SumFunctionOnSet(Shares(f), Later(g))
      <3> HIDE DEF Shares, Later
      <3>1. CASE g = key
        BY <2>11, <3>1
      <3>2. CASE g # key
        BY <1>0, <2>2, <2>8, <2>9, <3>2
      <3>3. QED
        BY <3>1, <3>2
    <2>13. QED
      BY <2>6, <2>12 DEF GroupsInv, ShareOf, Members
  <1>4. QED
    BY <1>2, <1>3 DEF Next

LEMMA SamplesStep ==
    ASSUME Types, SamplesInv, [Next]_vars
    PROVE  SamplesInv'
  <1>1. CASE UNCHANGED << groups, samples >>
             /\ (pass \in {"emit", "returned"} => pass' \in {"emit", "returned"})
    BY <1>1 DEF SamplesInv
  <1>2. CASE ScanRow \/ SkipRow \/ NextPass \/ Return \/ UNCHANGED vars
    BY <1>1, <1>2 DEF ScanRow, SkipRow, NextPass, Return, vars
  <1>3. CASE CountJob
    <2>1. DOMAIN samples = {} /\ samples' = samples
      BY <1>3 DEF CountJob, SamplesInv
    <2>2. QED
      BY <2>1 DEF SamplesInv
  <1>4. ASSUME NEW g \in DOMAIN groups, Emit(g) PROVE SamplesInv'
    <2> DEFINE a == Sample(groups[g])
    <2>1. /\ pass = "emit" /\ UNCHANGED << pass, groups >>
          /\ DOMAIN samples' = DOMAIN samples \cup {g} /\ samples'[g] = a
          /\ \A h \in DOMAIN samples : h # g => samples'[h] = samples[h]
      BY <1>4 DEF Emit
    <2> HIDE DEF a
    <2>2. \A h \in DOMAIN samples' : samples'[h] = Sample(groups[h])
      BY <2>1 DEF SamplesInv, a
    <2>3. QED
      BY <2>1, <2>2 DEF SamplesInv
  <1>5. QED
    BY <1>2, <1>3, <1>4 DEF Next

(***************************************************************************)
(* accounting: the properties.                                             *)
(***************************************************************************)

LEMMA TypesImplied ==
    ASSUME Types, RecordsInv, SamplesInv
    PROVE  TypeOK
  <1>1. ASSUME NEW n \in DOMAIN jobs
        PROVE  /\ jobs[n].job \in JobIds /\ jobs[n].account \in Accounts
               /\ {jobs[n].requested, jobs[n].peak} \subseteq Nat
               /\ jobs[n].cpuRatio[2] > 0 /\ jobs[n].memRatio[2] > 0
    <2>1. jobs[n] \in JobRecords
      BY DEF RecordsInv
    <2>2. \A x \in Ratios : x[2] > 0
      BY DEF Ratios
    <2>3. QED
      BY <2>1, <2>2 DEF JobRecords
  <1>2. QED
    BY <1>1, FiguresAre DEF TypeOK, Types, SamplesInv

LEMMA RecordsAreOnce ==
    ASSUME Types, RecordsInv
    PROVE  EachJobOnce
  <1>1. ASSUME NEW n \in Roots
        PROVE  RecordOf(n).job = rows[n].job /\ RecordOf(n).account = rows[n].account
    <2>1. rows[n] \in Rows
      BY RowsFacts DEF Types, Roots
    <2>2. QED
      BY <2>1, RecordFacts DEF Types, RecordsInv
  <1>2. QED
    BY <1>1 DEF EachJobOnce, RecordsInv

LEMMA MaxIs ==
    ASSUME NEW S \in SUBSET Nat, NEW m \in S, \A x \in S : x <= m
    PROVE  Max(S) = m
  <1>1. \A x \in S : x \in Nat
    OBVIOUS
  <1>2. \A y \in S : m >= y
    BY <1>1
  <1>3. Max(S) \in S /\ \A y \in S : Max(S) >= y
    BY <1>2 DEF Max
  <1>4. Max(S) >= m /\ Max(S) <= m /\ Max(S) \in Nat /\ m \in Nat
    BY <1>1, <1>3
  <1>5. QED
    BY <1>4

LEMMA PeaksAreMaxima ==
    ASSUME Types, PeaksInv, RecordsInv
    PROVE  PeakIsOverAllSteps
  <1> SUFFICES ASSUME NEW n \in Roots, rows[n].fields = "all"
               PROVE  RecordOf(n).peak = IF StepSizes(rows[n].job) \subseteq {0}
                                         THEN rows[n].rss
                                         ELSE Max(StepSizes(rows[n].job))
    BY DEF PeakIsOverAllSteps
  <1> DEFINE id == rows[n].job
  <1>1. rows[n] \in Rows /\ pass # "steps"
    BY RowsFacts DEF Types, Roots
  <1>2. RecordOf(n).peak = IF maxRSS[id] # 0 THEN maxRSS[id] ELSE rows[n].rss
    BY <1>1, RecordFacts DEF Types, RecordsInv, Peak
  <1>3. id \in JobIds /\ maxRSS[id] \in Nat
    BY <1>1, NumbersAreNat DEF Types, Rows
  <1> DEFINE S == StepSizes(id)
  <1>4. S = {rows[i].rss : i \in StepRows(id)}
    BY <1>1 DEF StepSizes, StepRows
  <1>5. \A i \in StepRows(id) : rows[i].rss \in Nat
    BY RowsFacts, NumbersAreNat DEF Types, StepRows, Rows
  <1> HIDE DEF S, id
  <1>6. /\ S \in SUBSET Nat /\ \A x \in S : x <= maxRSS[id]
        /\ maxRSS[id] # 0 => maxRSS[id] \in S
    BY <1>3, <1>4, <1>5 DEF PeaksInv
  <1>7. CASE maxRSS[id] = 0
    <2>1. \A x \in S : x \in Nat /\ x <= 0
      BY <1>6, <1>7
    <2>2. S \subseteq {0}
      BY <2>1
    <2>3. QED
      BY <1>2, <1>7, <2>2 DEF S, id
  <1>8. CASE maxRSS[id] # 0
    <2>1. ~ (S \subseteq {0}) /\ Max(S) = maxRSS[id]
      BY <1>6, <1>8, MaxIs
    <2>2. QED
      BY <1>2, <1>8, <2>1 DEF S, id
  <1>9. QED
    BY <1>7, <1>8

LEMMA SumsAddUp ==
    ASSUME RecordsInv, GroupsInv
    PROVE  GroupsAddUp
  <1>1. ASSUME NEW g \in DOMAIN groups, NEW f \in Figures
        PROVE  groups[g][f] = SumFunction([n \in Members(g) |-> Share(jobs[n])[f]])
    <2> DEFINE c == [n \in Members(g) |-> Share(jobs[n])[f]]
    <2>1. IsFiniteSet(Members(g)) /\ \A n \in Members(g) : ShareOf(f)[n] = c[n]
      BY MembersFacts DEF RecordsInv
    <2>2. DOMAIN c = Members(g)
      OBVIOUS
    <2> HIDE DEF c
    <2>3. SumFunctionOnSet(ShareOf(f), Members(g)) = SumFunctionOnSet(c, Members(g))
      BY <2>1, SumSame
    <2>4. groups[g][f] = SumFunction(c)
      BY <2>2, <2>3 DEF GroupsInv, SumFunction
    <2>5. QED
      BY <2>4 DEF c
  <1>2. QED
    BY <1>1, FiguresAre DEF GroupsAddUp, GroupsInv

\* An aggregate ratio against the ratios of the members of its group: those
\* without a denominator add nothing to the aggregate's.
LEMMA RatioIsExplained ==
    ASSUME NEW M, IsFiniteSet(M), NEW num, NEW den,
           \A n \in M : num[n] \in Nat /\ den[n] \in Nat,
           NEW N, N = SumFunctionOnSet(num, M),
           NEW D, D = SumFunctionOnSet(den, M),
           NEW own, \A n \in M : own[n] = Ratio(num[n], den[n]),
           NEW part, \A n \in M : part[n] = num[n]
    PROVE  Explained(Ratio(N, D), M, {n \in M : den[n] > 0}, own, part)
  <1> DEFINE K == {n \in M : den[n] > 0}
             NK == SumFunctionOnSet(num, K)
             DK == SumFunctionOnSet(den, K)
             rest == Surplus(M, K, part)
  <1>1. IsFiniteSet(K) /\ IsFiniteSet(M \ K) /\ K \in SUBSET M
    BY FS_Subset
  <1>2. SumFunctionOnSet(den, M \ K) = 0
    <2>1. \A n \in M \ K : den[n] = 0
      OBVIOUS
    <2> HIDE DEF K
    <2>2. QED
      BY <1>1, <2>1, SumZero
  <1>3. NK \in Nat /\ DK \in Nat
    <2>1. \A n \in K : num[n] \in Nat /\ den[n] \in Nat
      OBVIOUS
    <2> HIDE DEF K
    <2>2. QED
      BY <1>1, <2>1, SumType
  <1>4. D = DK
    <2>1. \A n \in M : den[n] \in Int
      OBVIOUS
    <2> HIDE DEF K
    <2>2. D = DK + SumFunctionOnSet(den, M \ K)
      BY <1>1, <2>1, SumSplit
    <2>3. QED
      BY <1>2, <1>3, <2>2
  <1>5. N - rest = NK
    <2>1. \A n \in M : num[n] \in Int
      OBVIOUS
    <2> DEFINE c == [n \in M \ K |-> part[n]]
    <2>2. DOMAIN c = M \ K /\ \A n \in M \ K : c[n] = num[n]
      OBVIOUS
    <2>3. rest = SumFunction(c)
      BY DEF Surplus
    <2> HIDE DEF K, c, rest
    <2>4. rest = SumFunctionOnSet(num, M \ K)
      BY <1>1, <2>2, <2>3, SumSame DEF SumFunction
    <2>5. N = NK + SumFunctionOnSet(num, M \ K)
      BY <1>1, <2>1, SumSplit
    <2>6. SumFunctionOnSet(num, M \ K) \in Int
      BY <1>1, <2>1, SumType
    <2>7. QED
      BY <1>3, <2>4, <2>5, <2>6
  <1>6. CASE K = {}
    <2>1. DK = 0
      BY <1>6, SumEmpty
    <2>2. Ratio(N, D) = << 0, 1 >>
      BY <1>4, <2>1 DEF Ratio
    <2>3. QED
      BY <1>6, <2>2 DEF Explained
  <1>7. CASE K # {}
    <2>1. \A n \in K : num[n] \in Nat /\ den[n] \in Nat /\ den[n] > 0
      OBVIOUS
    <2>2. \A n \in K : own[n] = << num[n], den[n] >>
      BY DEF Ratio
    <2> HIDE DEF K, NK, DK, rest
    <2>3. D > 0
      <3>1. PICK k \in K : TRUE
        BY <1>7
      <3>2. DK = den[k] + SumFunctionOnSet(den, K \ {k})
        BY <1>1, <2>1, SumRemove DEF DK
      <3>3. SumFunctionOnSet(den, K \ {k}) \in Nat
        <4>1. IsFiniteSet(K \ {k}) /\ \A n \in K \ {k} : den[n] \in Nat
          BY <1>1, <2>1, FS_Subset
        <4>2. QED
          BY <4>1, SumType
      <3>4. QED
        BY <1>4, <2>1, <3>2, <3>3
    <2>4. Ratio(N, D) = << N, D >>
      BY <2>3 DEF Ratio
    <2> DEFINE average == << Ratio(N, D)[1] - Surplus(M, K, part), Ratio(N, D)[2] >>
    <2>5. average = << NK, DK >>
      BY <1>4, <1>5, <2>4 DEF rest
    <2>6. PICK n \in K : NK * den[n] >= num[n] * DK
      BY <1>1, <1>7, <2>1, SomeRatioIsAtMost DEF NK, DK
    <2>7. PICK m \in K : num[m] * DK >= NK * den[m]
      BY <1>1, <1>7, <2>1, SomeRatioIsAtLeast DEF NK, DK
    <2>8. /\ AtLeast(<< NK, DK >>, own[n])
          /\ AtLeast(own[m], << NK, DK >>)
      BY <2>2, <2>6, <2>7 DEF AtLeast
    <2>9. /\ \E k \in K : AtLeast(average, own[k])
          /\ \E k \in K : AtLeast(own[k], average)
      BY <2>5, <2>8
    <2>10. Explained(Ratio(N, D), M, K, own, part)
      BY <1>7, <2>9 DEF Explained
    <2>11. QED
      BY <2>10 DEF K
  <1>8. QED
    BY <1>6, <1>7

LEMMA RatiosOfRecords ==
    ASSUME Types, RecordsInv, NEW n \in DOMAIN jobs
    PROVE  /\ jobs[n] \in JobRecords
           /\ jobs[n].cpuRatio = Ratio(jobs[n].used, jobs[n].cpus * jobs[n].elapsed)
           /\ jobs[n].memRatio = Ratio(jobs[n].peak, jobs[n].requested)
  <1>1. PICK i \in Roots : jobs[n] = JobRecord(rows[i])
    BY DEF RecordsInv
  <1>2. rows[i] \in Rows
    BY RowsFacts DEF Types, Roots
  <1>3. QED
    BY <1>1, <1>2, RecordFacts DEF Types

LEMMA AggregatesAreExplained ==
    ASSUME Types, RecordsInv, GroupsInv, SamplesInv
    PROVE  AggregateIsAverageAndSurplus
  <1> SUFFICES ASSUME NEW g \in DOMAIN samples
               PROVE  /\ Explained(samples[g].cpuRatio, Members(g), Ran(g),
                                   [n \in Members(g) |-> jobs[n].cpuRatio],
                                   [n \in Members(g) |-> jobs[n].used])
                      /\ Explained(samples[g].memRatio, Members(g), Requested(g),
                                   [n \in Members(g) |-> jobs[n].memRatio],
                                   [n \in Members(g) |-> jobs[n].peak])
    BY DEF AggregateIsAverageAndSurplus
  <1>1. g \in DOMAIN groups /\ samples[g] = Sample(groups[g])
    BY DEF SamplesInv
  <1>2. /\ IsFiniteSet(Members(g)) /\ Members(g) \subseteq DOMAIN jobs
        /\ \A n \in DOMAIN jobs, f \in Figures :
              ShareOf(f)[n] = Share(jobs[n])[f] /\ ShareOf(f)[n] \in Nat
    BY MembersFacts DEF RecordsInv
  <1>4. \A f \in Figures : groups[g][f] = SumFunctionOnSet(ShareOf(f), Members(g))
    BY <1>1 DEF GroupsInv
  <1>5. \A n \in Members(g) :
           /\ jobs[n].cpuRatio = Ratio(ShareOf("cpu")[n], ShareOf("capacity")[n])
           /\ jobs[n].memRatio = Ratio(ShareOf("memUsed")[n], ShareOf("memReq")[n])
           /\ ShareOf("capacity")[n] = jobs[n].cpus * jobs[n].elapsed
           /\ ShareOf("memReq")[n] = jobs[n].requested
           /\ ShareOf("cpu")[n] = jobs[n].used
           /\ ShareOf("memUsed")[n] = jobs[n].peak
    BY <1>2, RatiosOfRecords, ShareFacts DEF Figures
  <1>6. {"cpu", "capacity", "memUsed", "memReq"} \subseteq Figures
    BY DEF Figures
  <1>7. /\ samples[g].cpuRatio = Ratio(groups[g].cpu, groups[g].capacity)
        /\ samples[g].memRatio = Ratio(groups[g].memUsed, groups[g].memReq)
    BY <1>1 DEF Sample
  <1>8. /\ Ran(g) = {n \in Members(g) : ShareOf("capacity")[n] > 0}
        /\ Requested(g) = {n \in Members(g) : ShareOf("memReq")[n] > 0}
    BY <1>5 DEF Ran, Requested
  <1>9. Explained(samples[g].cpuRatio, Members(g), Ran(g),
                [n \in Members(g) |-> jobs[n].cpuRatio],
                [n \in Members(g) |-> jobs[n].used])
    <2> DEFINE own == [n \in Members(g) |-> jobs[n].cpuRatio]
               part == [n \in Members(g) |-> jobs[n].used]
               num == ShareOf("cpu")
               den == ShareOf("capacity")
    <2>1. /\ \A n \in Members(g) : num[n] \in Nat /\ den[n] \in Nat
          /\ \A n \in Members(g) : own[n] = Ratio(num[n], den[n])
          /\ \A n \in Members(g) : part[n] = num[n]
      BY <1>2, <1>5, <1>6
    <2>2. /\ groups[g].cpu = SumFunctionOnSet(num, Members(g))
          /\ groups[g].capacity = SumFunctionOnSet(den, Members(g))
      BY <1>4, <1>6
    <2> HIDE DEF own, part, num, den
    <2>3. Explained(Ratio(groups[g].cpu, groups[g].capacity), Members(g),
                    {n \in Members(g) : den[n] > 0}, own, part)
      BY <1>2, <2>1, <2>2, RatioIsExplained
    <2>4. QED
      BY <1>7, <1>8, <2>3 DEF own, part, den
  <1>10. Explained(samples[g].memRatio, Members(g), Requested(g),
                 [n \in Members(g) |-> jobs[n].memRatio],
                [n \in Members(g) |-> jobs[n].peak])
    <2> DEFINE own == [n \in Members(g) |-> jobs[n].memRatio]
               part == [n \in Members(g) |-> jobs[n].peak]
               num == ShareOf("memUsed")
               den == ShareOf("memReq")
    <2>1. /\ \A n \in Members(g) : num[n] \in Nat /\ den[n] \in Nat
          /\ \A n \in Members(g) : own[n] = Ratio(num[n], den[n])
          /\ \A n \in Members(g) : part[n] = num[n]
      BY <1>2, <1>5, <1>6
    <2>2. /\ groups[g].memUsed = SumFunctionOnSet(num, Members(g))
          /\ groups[g].memReq = SumFunctionOnSet(den, Members(g))
      BY <1>4, <1>6
    <2> HIDE DEF own, part, num, den
    <2>3. Explained(Ratio(groups[g].memUsed, groups[g].memReq), Members(g),
                    {n \in Members(g) : den[n] > 0}, own, part)
      BY <1>2, <2>1, <2>2, RatioIsExplained
    <2>4. QED
      BY <1>7, <1>8, <2>3 DEF own, part, den
  <1>11. QED
    BY <1>9, <1>10

(***************************************************************************)
(* accounting: the invariant.                                              *)
(***************************************************************************)

AccountingInv == Types /\ PeaksInv /\ RecordsInv /\ GroupsInv /\ SamplesInv

LEMMA AccountingInit ==
    ASSUME Init
    PROVE  AccountingInv
  <1>1. /\ rows \in Seq(Rows) /\ pass = "steps" /\ next = 1
        /\ maxRSS = [j \in JobIds |-> 0] /\ jobs = << >>
        /\ DOMAIN groups = {} /\ DOMAIN samples = {}
    BY AccountingAssumption DEF Init
  <1>2. 0 \in Numbers
    BY AccountingAssumption DEF Numbers
  <1>3. Len(rows) \in Nat
    BY <1>1
  <1>4. Types
    BY <1>1, <1>2, <1>3 DEF Types
  <1>5. \A id \in JobIds : StepRows(id) = {}
    <2>1. \A i \in DOMAIN rows : ~ (i < 1)
      BY <1>1
    <2>2. QED
      BY <1>1, <2>1 DEF StepRows
  <1>6. PeaksInv
    BY <1>1, <1>5 DEF PeaksInv
  <1>7. RecordsInv
    <2>1. Roots = {}
      BY <1>1 DEF Roots
    <2>2. jobs \in Seq(JobRecords) /\ Len(jobs) = 0 /\ DOMAIN jobs = {}
      BY <1>1
    <2>3. QED
      BY <2>1, <2>2, FS_EmptySet DEF RecordsInv
  <1>8. GroupsInv /\ SamplesInv
    <2>1. DOMAIN jobs = {}
      BY <1>1
    <2>2. QED
      BY <1>1, <2>1 DEF GroupsInv, SamplesInv
  <1>9. QED
    BY <1>4, <1>6, <1>7, <1>8 DEF AccountingInv

LEMMA AccountingStep ==
    ASSUME AccountingInv, [Next]_vars
    PROVE  AccountingInv'
  BY TypesStep, PeaksStep, RecordsStep, GroupsStep, SamplesStep DEF AccountingInv

LEMMA AccountingInvHolds == EndpointSpec => []AccountingInv
  <1>1. EndpointInit => AccountingInv
    BY AccountingInit DEF EndpointInit
  <1>2. AccountingInv /\ [EndpointNext]_allVars => AccountingInv'
    <2>1. [EndpointNext]_allVars => [Next]_vars
      BY DEF EndpointNext, allVars, endpointVars, Ask, PassOver, Take, Respond
    <2>2. QED
      BY <2>1, AccountingStep
  <1>3. QED
    BY <1>1, <1>2, PTL DEF EndpointSpec

\* Whatever sacct prints, the loops keep to their types, and no record is
\* without a denominator for its ratios.
THEOREM AccountingTypes == EndpointSpec => []TypeOK
  <1>1. AccountingInv => TypeOK
    BY TypesImplied DEF AccountingInv
  <1>2. QED
    BY <1>1, AccountingInvHolds, PTL

\* Steps are not counted as jobs and no job is lost: the records are those of
\* the job rows, in their order.
THEOREM JobsAreCountedOnce == EndpointSpec => []EachJobOnce
  <1>1. AccountingInv => EachJobOnce
    BY RecordsAreOnce DEF AccountingInv
  <1>2. QED
    BY <1>1, AccountingInvHolds, PTL

\* The peak of a job is over all of its steps, in front of or behind its row.
THEOREM PeaksAreOverAllSteps == EndpointSpec => []PeakIsOverAllSteps
  <1>1. AccountingInv => PeakIsOverAllSteps
    BY PeaksAreMaxima DEF AccountingInv
  <1>2. QED
    BY <1>1, AccountingInvHolds, PTL

\* What is exported of a group is the sum over the jobs the API lists for it.
THEOREM GroupSumsAddUp == EndpointSpec => []GroupsAddUp
  <1>1. AccountingInv => GroupsAddUp
    BY SumsAddUp DEF AccountingInv
  <1>2. QED
    BY <1>1, AccountingInvHolds, PTL

\* The efficiency of a group is an average of those of its jobs that have one,
\* and what the other jobs used on top of it.
THEOREM EfficiencyIsAverageAndSurplus ==
    EndpointSpec => []AggregateIsAverageAndSurplus
  <1>1. AccountingInv => AggregateIsAverageAndSurplus
    BY AggregatesAreExplained DEF AccountingInv
  <1>2. QED
    BY <1>1, AccountingInvHolds, PTL

(***************************************************************************)
(* GET /api/v1/jobs.                                                       *)
(***************************************************************************)

\* In front of the end everything wanted has been taken and there is room for
\* more; from there on the answer is complete.
Collected(q, k, a) ==
    /\ q \in Queries
    /\ pass = "returned"
    /\ k \in 1 .. Len(jobs) + 1
    /\ a \in Seq(JobRecords)
    /\ Len(a) <= Limit(q)
    /\ Len(a) <= Cardinality(Wanted(q))
    /\ \A n \in Wanted(q) :
          Place(n, Wanted(q)) <= Len(a) => a[Place(n, Wanted(q))] = jobs[n]
    /\ k <= Len(jobs) => /\ Len(a) = Cardinality({n \in Wanted(q) : n < k})
                         /\ Len(a) < Limit(q)
    /\ k > Len(jobs) => Len(a) \in {Cardinality(Wanted(q)), Limit(q)}

AnswerInv == query # NoFilter => Collected(query, at, answer)

LEMMA AnswerLater ==
    ASSUME UNCHANGED << jobs, pass >>,
           query' # NoFilter => Collected(query', at', answer')
    PROVE  AnswerInv'
  BY DEF AnswerInv, Collected, Wanted, Matches, Place, Limit

LEMMA LimitIsBounded ==
    ASSUME NEW q \in Queries
    PROVE  Limit(q) \in Nat /\ Limit(q) > 0 /\ Limit(q) <= MaxLimit
  <1>1. q.limit \in Nat
    BY EndpointAssumption DEF Queries
  <1>2. QED
    BY <1>1, EndpointAssumption DEF Limit

LEMMA WantedFacts ==
    ASSUME jobs \in Seq(JobRecords), NEW q
    PROVE  /\ Len(jobs) \in Nat /\ DOMAIN jobs = 1 .. Len(jobs)
           /\ Wanted(q) \subseteq DOMAIN jobs
           /\ IsFiniteSet(Wanted(q)) /\ Wanted(q) \in SUBSET Nat
           /\ Cardinality(Wanted(q)) \in Nat
  <1>1. Len(jobs) \in Nat /\ DOMAIN jobs = 1 .. Len(jobs)
    OBVIOUS
  <1>2. Wanted(q) \subseteq DOMAIN jobs
    BY DEF Wanted
  <1>3. IsFiniteSet(1 .. Len(jobs))
    BY <1>1, FS_Interval
  <1>4. IsFiniteSet(Wanted(q))
    BY <1>1, <1>2, <1>3, FS_Subset
  <1>5. QED
    BY <1>1, <1>2, <1>4, FS_CardinalityType

LEMMA AskKeepsAnswer ==
    ASSUME AccountingInv, NEW q \in Queries, Ask(q)
    PROVE  AnswerInv'
  <1>1. jobs \in Seq(JobRecords)
    BY DEF AccountingInv, RecordsInv
  <1>2. /\ pass = "returned" /\ query' = q /\ at' = 1 /\ answer' = << >>
        /\ UNCHANGED << jobs, pass >>
    BY DEF Ask, vars
  <1> DEFINE W == Wanted(q)
  <1>3. /\ Len(jobs) \in Nat /\ DOMAIN jobs = 1 .. Len(jobs)
        /\ W \subseteq DOMAIN jobs /\ IsFiniteSet(W) /\ W \in SUBSET Nat
        /\ Cardinality(W) \in Nat
    BY <1>1, WantedFacts
  <1> HIDE DEF W
  <1>4. {n \in W : n < 1} = {} /\ (Len(jobs) = 0 => W = {})
    BY <1>3
  <1>5. \A n \in W : Place(n, W) \in 1 .. Cardinality(W)
    BY <1>3, PlaceInRange
  <1>6. Limit(q) \in Nat /\ Limit(q) > 0 /\ Cardinality({}) = 0
    BY LimitIsBounded, FS_EmptySet
  <1> DEFINE e == << >>
  <1>7. /\ Len(e) = 0 /\ e \in Seq(JobRecords)
        /\ 1 \in 1 .. Len(jobs) + 1
    BY <1>3
  <1> HIDE DEF e
  <1>8. \A n \in W : ~ (Place(n, W) <= 0)
    BY <1>3, <1>5
  <1>9. 1 > Len(jobs) => W = {}
    BY <1>3, <1>4
  <1>10. /\ Len(e) <= Limit(q) /\ Len(e) < Limit(q) /\ Len(e) <= Cardinality(W)
         /\ \A n \in W : Place(n, W) <= Len(e) => e[Place(n, W)] = jobs[n]
         /\ Len(e) = Cardinality({n \in W : n < 1})
         /\ 1 > Len(jobs) => Len(e) = Cardinality(W)
    <2>1. Len(e) <= Limit(q) /\ Len(e) < Limit(q) /\ Len(e) <= Cardinality(W)
      BY <1>3, <1>6, <1>7
    <2>2. \A n \in W : Place(n, W) <= Len(e) => e[Place(n, W)] = jobs[n]
      BY <1>7, <1>8
    <2>3. Len(e) = Cardinality({n \in W : n < 1})
      BY <1>4, <1>6, <1>7, Zenon
    <2>4. 1 > Len(jobs) => Len(e) = Cardinality(W)
      BY <1>6, <1>7, <1>9, Zenon
    <2>5. QED
      BY <2>1, <2>2, <2>3, <2>4
  <1>11. Collected(q, 1, e)
    BY <1>2, <1>7, <1>10 DEF Collected, W
  <1>12. QED
    BY <1>2, <1>11, AnswerLater DEF e

\* What the loop over the jobs has in front of a turn.
LEMMA LookingFacts ==
    ASSUME AccountingInv, AnswerInv, Looking
    PROVE  /\ Collected(query, at, answer)
           /\ Len(jobs) \in Nat /\ at \in Nat /\ at <= Len(jobs)
           /\ at + 1 \in 1 .. Len(jobs) + 1
           /\ jobs[at] \in JobRecords
           /\ Wanted(query) \subseteq DOMAIN jobs
           /\ IsFiniteSet(Wanted(query)) /\ Wanted(query) \in SUBSET Nat
           /\ Cardinality(Wanted(query)) \in Nat
           /\ Len(answer) \in Nat
           /\ Len(answer) = Cardinality({n \in Wanted(query) : n < at})
           /\ Limit(query) \in Nat /\ Len(answer) < Limit(query)
  <1>1. jobs \in Seq(JobRecords)
    BY DEF AccountingInv, RecordsInv
  <1>2. Collected(query, at, answer) /\ at \in DOMAIN jobs
    BY DEF AnswerInv, Looking
  <1>3. /\ at \in Nat /\ at <= Len(jobs) /\ jobs[at] \in JobRecords
        /\ at + 1 \in 1 .. Len(jobs) + 1
    BY <1>1, <1>2
  <1>4. query \in Queries /\ answer \in Seq(JobRecords)
    BY <1>2 DEF Collected
  <1>5. Len(answer) \in Nat /\ Limit(query) \in Nat
    BY <1>4, LimitIsBounded
  <1>6. /\ Len(answer) = Cardinality({n \in Wanted(query) : n < at})
        /\ Len(answer) < Limit(query)
    BY <1>2, <1>3 DEF Collected
  <1>7. QED
    BY <1>1, <1>2, <1>3, <1>5, <1>6, WantedFacts

LEMMA PassOverKeepsAnswer ==
    ASSUME AccountingInv, AnswerInv, PassOver
    PROVE  AnswerInv'
  <1> DEFINE W == Wanted(query)
  <1>1. /\ Looking /\ ~ Matches(jobs[at], query) /\ at' = at + 1
        /\ UNCHANGED << jobs, pass, query, answer >>
    BY DEF PassOver, vars
  <1>2. /\ Collected(query, at, answer)
        /\ Len(jobs) \in Nat /\ at \in Nat /\ at <= Len(jobs)
        /\ at + 1 \in 1 .. Len(jobs) + 1
        /\ W \subseteq DOMAIN jobs /\ W \in SUBSET Nat
        /\ Len(answer) = Cardinality({n \in W : n < at})
        /\ Len(answer) < Limit(query)
        /\ jobs \in Seq(JobRecords)
    BY <1>1, LookingFacts DEF AccountingInv, RecordsInv
  <1>3. at \notin W
    BY <1>1 DEF Wanted
  <1>4. \A n \in W : n < at + 1 <=> n < at
    <2>1. \A n \in W : n \in Nat /\ n # at
      BY <1>2, <1>3
    <2>2. QED
      BY <1>2, <2>1
  <1>5. {n \in W : n < at + 1} = {n \in W : n < at}
    BY <1>4
  <1>6. at + 1 > Len(jobs) => {n \in W : n < at} = W
    <2>1. \A n \in W : n \in Nat /\ n <= Len(jobs)
      BY <1>2
    <2>2. QED
      BY <1>2, <1>4, <2>1
  <1> HIDE DEF W
  <1>7. at + 1 > Len(jobs) => Len(answer) = Cardinality(W)
    BY <1>2, <1>6
  <1>8. Collected(query, at + 1, answer)
    BY <1>2, <1>5, <1>7, Zenon DEF Collected, W
  <1>9. QED
    BY <1>1, <1>8, AnswerLater

LEMMA AppendFacts ==
    ASSUME NEW T, NEW s \in Seq(T), NEW x \in T
    PROVE  /\ Append(s, x) \in Seq(T) /\ Len(Append(s, x)) = Len(s) + 1
           /\ Append(s, x)[Len(s) + 1] = x
           /\ \A k \in 1 .. Len(s) : Append(s, x)[k] = s[k]
  OBVIOUS

LEMMA TakeKeepsAnswer ==
    ASSUME AccountingInv, AnswerInv, Take
    PROVE  AnswerInv'
  <1> DEFINE W == Wanted(query)
             l == Len(answer)
             longer == Append(answer, jobs[at])
             then == IF Enough(Len(longer)) THEN Len(jobs) + 1 ELSE at + 1
  <1>1. /\ Looking /\ Matches(jobs[at], query)
        /\ answer' = longer /\ at' = then
        /\ UNCHANGED << jobs, pass, query >>
    BY DEF Take, vars
  <1>2. /\ Collected(query, at, answer)
        /\ Len(jobs) \in Nat /\ at \in Nat /\ at <= Len(jobs)
        /\ at + 1 \in 1 .. Len(jobs) + 1
        /\ jobs[at] \in JobRecords
        /\ W \subseteq DOMAIN jobs /\ W \in SUBSET Nat /\ IsFiniteSet(W)
        /\ Cardinality(W) \in Nat
        /\ l \in Nat /\ l = Cardinality({n \in W : n < at})
        /\ Limit(query) \in Nat /\ l < Limit(query)
    BY <1>1, LookingFacts
  <1>3. /\ jobs \in Seq(JobRecords)
        /\ query \in Queries /\ pass = "returned" /\ answer \in Seq(JobRecords)
        /\ \A n \in W : Place(n, W) <= l => answer[Place(n, W)] = jobs[n]
    BY <1>2 DEF AccountingInv, RecordsInv, Collected
  <1>4. /\ longer \in Seq(JobRecords) /\ Len(longer) = l + 1
        /\ longer[l + 1] = jobs[at]
        /\ \A k \in 1 .. l : longer[k] = answer[k]
    <2>1. answer \in Seq(JobRecords) /\ jobs[at] \in JobRecords
      BY <1>2, <1>3
    <2>2. QED
      BY <2>1, AppendFacts
  <1>5. at \in W
    BY <1>1 DEF Wanted, Looking
  <1>6. Place(at, W) = l + 1 /\ Place(at, W) <= Cardinality(W)
    <2>1. Place(at, W) = Cardinality({n \in W : n < at}) + 1
      BY <1>2, <1>5, PlaceCounts
    <2>2. Place(at, W) \in 1 .. Cardinality(W)
      BY <1>2, <1>5, PlaceInRange
    <2> HIDE DEF W
    <2>3. QED
      BY <1>2, <2>1, <2>2
  <1>7. then = IF l + 1 >= Limit(query) THEN Len(jobs) + 1 ELSE at + 1
    BY <1>4 DEF Enough
  <1>8. \A n \in W : n \in Nat /\ n <= Len(jobs)
    BY <1>2, <1>3
  <1>9. {n \in W : n < at + 1} = {n \in W : n < at} \cup {at}
    <2>1. \A n \in W : n < at + 1 <=> n < at \/ n = at
      BY <1>2, <1>8
    <2> HIDE DEF W
    <2>2. QED
      BY <1>5, <2>1
  <1> HIDE DEF W, longer, then, l
  <1>10. ASSUME NEW n \in W, Place(n, W) <= l + 1
         PROVE  longer[Place(n, W)] = jobs[n]
    <2>1. n \in Nat /\ Place(n, W) \in 1 .. Cardinality(W)
      BY <1>2, <1>8, PlaceInRange
    <2>2. CASE n = at
      BY <1>4, <1>6, <2>2
    <2>3. CASE n < at
      <3>1. Place(n, W) < Place(at, W)
        BY <1>2, <1>5, <2>3, PlaceGrows
      <3>2. Place(n, W) \in 1 .. l
        BY <1>2, <1>6, <2>1, <3>1
      <3>3. QED
        BY <1>3, <1>4, <3>2
    <2>4. CASE at < n
      <3>1. Place(at, W) < Place(n, W)
        BY <1>2, <1>5, <2>4, PlaceGrows
      <3>2. QED
        BY <1>2, <1>6, <1>10, <2>1, <3>1
    <2>5. QED
      BY <1>2, <2>1, <2>2, <2>3, <2>4
  <1>11. Cardinality({n \in W : n < at + 1}) = l + 1
    <2> DEFINE P == {n \in W : n < at}
    <2>1. IsFiniteSet(P) /\ at \notin P
      BY <1>2, <1>5, PlaceCounts
    <2> HIDE DEF P
    <2>2. Cardinality(P \cup {at}) = Cardinality(P) + 1
      BY <2>1, FS_AddElement
    <2>3. QED
      BY <1>2, <1>9, <2>2 DEF P, l
  <1>12. at + 1 > Len(jobs) => {n \in W : n < at + 1} = W
    BY <1>2, <1>8
  <1>13. then \in 1 .. Len(jobs) + 1
    BY <1>2, <1>7
  <1>14. then <= Len(jobs) => /\ Cardinality({n \in W : n < then}) = l + 1
                              /\ l + 1 < Limit(query)
    <2>1. then <= Len(jobs) => then = at + 1 /\ l + 1 < Limit(query)
      BY <1>2, <1>7
    <2>2. QED
      BY <1>11, <2>1
  <1>15. then > Len(jobs) => l + 1 \in {Cardinality(W), Limit(query)}
    <2>1. l + 1 >= Limit(query) => l + 1 = Limit(query)
      BY <1>2
    <2>2. at + 1 > Len(jobs) => l + 1 = Cardinality(W)
      BY <1>11, <1>12
    <2>3. QED
      BY <1>7, <2>1, <2>2
  <1>16. l + 1 <= Limit(query) /\ l + 1 <= Cardinality(W)
    BY <1>2, <1>6
  <1>17. Collected(query, then, longer)
    <2>1. \A n \in W : Place(n, W) <= Len(longer) => longer[Place(n, W)] = jobs[n]
      BY <1>4, <1>10
    <2>2. QED
      BY <1>3, <1>4, <1>13, <1>14, <1>15, <1>16, <2>1 DEF Collected, W
  <1>18. QED
    BY <1>1, <1>17, AnswerLater

LEMMA AnswerStep ==
    ASSUME AccountingInv, AnswerInv, [EndpointNext]_allVars
    PROVE  AnswerInv'
  <1>1. ASSUME NEW q \in Queries, Ask(q) PROVE AnswerInv'
    BY <1>1, AskKeepsAnswer
  <1>2. CASE PassOver
    BY <1>2, PassOverKeepsAnswer
  <1>3. CASE Take
    BY <1>3, TakeKeepsAnswer
  <1>4. CASE Respond
    BY <1>4 DEF Respond, AnswerInv
  <1>5. CASE UNCHANGED allVars
    BY <1>5, AnswerLater DEF allVars, vars, endpointVars, AnswerInv
  <1>6. CASE Next /\ UNCHANGED endpointVars
    <2>1. pass # "returned"
      BY <1>6, RowsFacts DEF Next, ScanRow, CountJob, SkipRow, NextPass, Emit, Return
    <2>2. query = NoFilter
      BY <2>1 DEF AnswerInv, Collected
    <2>3. QED
      BY <1>6, <2>2 DEF endpointVars, AnswerInv
  <1>7. QED
    BY <1>1, <1>2, <1>3, <1>4, <1>5, <1>6 DEF EndpointNext

\* Whatever is asked, the answer is the beginning of the list of matching jobs,
\* complete unless the limit cuts it, and never longer than the maximum.
THEOREM AnswersAreBounded == EndpointSpec => []AnswerIsBounded
  <1>1. EndpointInit => AnswerInv
    BY DEF EndpointInit, AnswerInv
  <1>2. AccountingInv /\ AnswerInv /\ [EndpointNext]_allVars => AnswerInv'
    BY AnswerStep
  <1>3. AnswerInv => AnswerIsBounded
    <2> SUFFICES ASSUME Collected(query, at, answer) PROVE AnswerIsBounded
      BY DEF AnswerInv, AnswerIsBounded
    <2>1. Limit(query) <= MaxLimit
      BY LimitIsBounded DEF Collected
    <2>2. QED
      BY <2>1 DEF Collected, AnswerIsBounded
  <1>4. QED
    BY <1>1, <1>2, <1>3, AccountingInvHolds, PTL DEF EndpointSpec
=============================================================================
