---------------------------- MODULE JobsEndpoint ----------------------------
(***************************************************************************)
(* GET /api/v1/jobs of cmd/slurm-insights-exporter/main.go, over the jobs  *)
(* that Accounting has put in the snapshot: a filter by state and account  *)
(* that stops when it has collected as many as the limit allows.           *)
(***************************************************************************)
EXTENDS Accounting

CONSTANTS
    NoFilter,     \* a query parameter that is absent or empty
    Spellings,    \* states as clients write them
    Limits,       \* values of the limit parameter; 0 stands for whatever is
                  \* absent, no number or not positive
    DefaultLimit, \* 1000
    MaxLimit      \* 10000

ASSUME EndpointAssumption ==
    /\ Limits \subseteq Nat
    /\ {DefaultLimit, MaxLimit} \subseteq Nat \ {0}

VARIABLES
    query,  \* the request that is being answered
    at,     \* the job its loop comes to
    answer  \* the jobs collected for it

endpointVars == << query, at, answer >>
allVars == << vars, endpointVars >>

Queries == [state : Spellings \cup {NoFilter},
            account : Accounts \cup {NoFilter}, limit : Limits]

\* strings.ToUpper.
ToUpper(s) == CASE s = "completed" -> "COMPLETED"
                [] s = "cancelled" -> "CANCELLED"
                [] OTHER -> s

Limit(q) ==
    LET n == IF q.limit > 0 THEN q.limit ELSE DefaultLimit
    IN  IF n > MaxLimit THEN MaxLimit ELSE n

Matches(j, q) ==
    /\ q.state # NoFilter => j.state = ToUpper(q.state)
    /\ q.account # NoFilter => j.account = q.account

EndpointInit ==
    /\ Init
    /\ query = NoFilter
    /\ at = 0
    /\ answer = << >>

Ask(q) ==
    /\ pass = "returned"
    /\ query = NoFilter
    /\ query' = q
    /\ at' = 1
    /\ answer' = << >>
    /\ UNCHANGED vars

Looking == query # NoFilter /\ at \in DOMAIN jobs

PassOver ==
    /\ Looking
    /\ ~Matches(jobs[at], query)
    /\ at' = at + 1
    /\ UNCHANGED << vars, query, answer >>

\* Mutant: one job too many.
OverLimit(n) == n > Limit(query)

Enough(n) == n >= Limit(query)

\* append, and break when the limit is reached.
Take ==
    /\ Looking
    /\ Matches(jobs[at], query)
    /\ answer' = Append(answer, jobs[at])
    /\ at' = IF Enough(Len(answer')) THEN Len(jobs) + 1 ELSE at + 1
    /\ UNCHANGED << vars, query >>

Respond ==
    /\ query # NoFilter
    /\ at > Len(jobs)
    /\ query' = NoFilter
    /\ at' = 0
    /\ answer' = << >>
    /\ UNCHANGED vars

EndpointNext ==
    \/ Next /\ UNCHANGED endpointVars
    \/ \E q \in Queries : Ask(q)
    \/ PassOver
    \/ Take
    \/ Respond

EndpointSpec == EndpointInit /\ [][EndpointNext]_allVars

-----------------------------------------------------------------------------
(* Properties.                                                             *)

Wanted(q) == {n \in DOMAIN jobs : Matches(jobs[n], q)}

\* "a bounded, filterable job list": what is sent is the beginning of the
\* list of matching jobs, all of it unless the limit cuts it, and in no case
\* more than the maximum.
AnswerIsBounded ==
    query # NoFilter =>
        LET wanted == Wanted(query)
        IN  /\ Len(answer) <= Limit(query) /\ Limit(query) <= MaxLimit
            /\ Len(answer) <= Cardinality(wanted)
            /\ \A n \in wanted :
                  Place(n, wanted) <= Len(answer) => answer[Place(n, wanted)] = jobs[n]
            /\ at > Len(jobs) => Len(answer) \in {Cardinality(wanted), Limit(query)}
=============================================================================
