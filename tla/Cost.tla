-------------------------------- MODULE Cost --------------------------------
(***************************************************************************)
(* The cost API: the summary with its 30 second cache, the per-owner       *)
(* aggregate and the CSV export.  Sessions finish and labels change roles  *)
(* while a request waits for the database.                                 *)
(***************************************************************************)
EXTENDS Integers, FiniteSets, FiniteSetsExt, Functions

CONSTANTS
    Payers,         \* labels that own sessions and call the API
    CostReqs,       \* concurrent requests
    CostTTL,        \* lifetime of a cached summary
    RowCap,         \* limit of the per-owner aggregate
    MaxCost,        \* bound on a label's total
    MaxPromotions   \* bound on role changes

ASSUME CostAssumption ==
    /\ IsFiniteSet(Payers)
    /\ CostTTL \in Nat \ {0} /\ RowCap \in Nat \ {0} /\ MaxCost \in Nat /\ MaxPromotions \in Nat

VARIABLES
    spent,      \* SUM(cost_usd) of each owner, over the sessions table
    admins,     \* the labels with the admin role
    promotions, \* role changes so far
    summaries,  \* _SUMMARY_CACHE: (label, is_admin) to a summary and its age
    ask         \* the requests

costVars == <<spent, admins, promotions, summaries, ask>>

NoTotal == -1
NoSummary == [own |-> NoTotal, team |-> NoTotal, age |-> 0]
NoAsk == [ph |-> "idle", do |-> "none", who |-> "none", admin |-> FALSE, own |-> NoTotal,
          team |-> NoTotal, rows |-> {}]

\* Spendings, cached summaries and requests have their shapes.
CostTypeOK ==
    /\ spent \in [Payers -> 0..MaxCost] /\ admins \subseteq Payers
    /\ promotions \in 0..MaxPromotions
    /\ \A k \in Payers \X BOOLEAN : summaries[k].age \in 0..CostTTL
    /\ \A r \in CostReqs : ask[r].ph \in {"idle", "own", "team", "rows", "done"}
                           /\ ask[r].rows \subseteq Payers

CostInit ==
    /\ spent = [p \in Payers |-> 0]
    /\ admins \in SUBSET Payers
    /\ promotions = 0
    /\ summaries = [k \in Payers \X BOOLEAN |-> NoSummary]
    /\ ask = [r \in CostReqs |-> NoAsk]

-----------------------------------------------------------------------------
(* The database and the clock                                              *)

\* A session's cost is written when it ends; rows are never deleted.
SessionCosts(p) ==
    /\ spent[p] < MaxCost
    /\ spent' = [spent EXCEPT ![p] = @ + 1]
    /\ UNCHANGED <<admins, promotions, summaries, ask>>

ChangeRole(p) ==
    /\ promotions < MaxPromotions /\ promotions' = promotions + 1
    /\ admins' = IF p \in admins THEN admins \ {p} ELSE admins \cup {p}
    /\ UNCHANGED <<spent, summaries, ask>>

SummariesAge ==
    /\ \E k \in Payers \X BOOLEAN : summaries[k] # NoSummary
    /\ summaries' = [k \in Payers \X BOOLEAN |->
          IF summaries[k] = NoSummary \/ summaries[k].age + 1 > CostTTL THEN NoSummary
          ELSE [summaries[k] EXCEPT !.age = @ + 1]]
    /\ UNCHANGED <<spent, admins, promotions, ask>>

-----------------------------------------------------------------------------
(* Requests                                                                *)

CacheKey(who, admin) == <<who, admin>>

\* The role is read once, when the request comes in.
CostSummary(r, who) ==
    LET admin == who \in admins
        hit == summaries[CacheKey(who, admin)]
    IN  /\ ask[r].ph = "idle"
        /\ ask' = [ask EXCEPT ![r] =
              [NoAsk EXCEPT !.do = "summary", !.who = who, !.admin = admin, !.own = hit.own,
                            !.team = hit.team,
                            !.ph = IF hit = NoSummary THEN "own" ELSE "done"]]
        /\ UNCHANGED <<spent, admins, promotions, summaries>>

Answer(r, own, team) ==
    /\ ask' = [ask EXCEPT ![r].own = own, ![r].team = team, ![r].ph = "done"]
    /\ summaries' = [summaries EXCEPT ![CacheKey(ask[r].who, ask[r].admin)] =
                        [own |-> own, team |-> team, age |-> 0]]

SummaryForUser(r) ==
    LET q == ask[r] IN
    /\ q.ph = "own"
    /\ IF q.admin THEN ask' = [ask EXCEPT ![r].own = spent[q.who], ![r].ph = "team"]
                       /\ UNCHANGED summaries
                  ELSE Answer(r, spent[q.who], NoTotal)
    /\ UNCHANGED <<spent, admins, promotions>>

(* Mutant: the caller is left out of the team.                             *)
TeamOfOthers(r) ==
    /\ ask[r].ph = "team"
    /\ Answer(r, ask[r].own, SumFunctionOnSet(spent, Payers \ {ask[r].who}))
    /\ UNCHANGED <<spent, admins, promotions>>

TeamTotal(r) ==
    /\ ask[r].ph = "team"
    /\ Answer(r, ask[r].own, SumFunctionOnSet(spent, Payers))
    /\ UNCHANGED <<spent, admins, promotions>>

\* aggregate_cost_by_owner: the RowCap biggest spenders, ties in any order; the
\* owner filter is applied to what is left.  The export has no filter.
Aggregates == {S \in SUBSET Payers : /\ Cardinality(S) = Min({RowCap, Cardinality(Payers)})
                                     /\ \A p \in S, q \in Payers \ S : spent[p] >= spent[q]}

\* The endpoint forces a caller who is no admin to their own label.
PerOwner(r, who, owner) ==
    /\ ask[r].ph = "idle"
    /\ LET admin == who \in admins IN
       ask' = [ask EXCEPT ![r] = [NoAsk EXCEPT !.do = "per_owner", !.who = who, !.admin = admin,
                 !.rows = IF admin THEN owner ELSE {who},
                 !.ph = IF admin \/ owner \in {Payers, {who}} THEN "rows" ELSE "done",
                 !.own = IF admin \/ owner \in {Payers, {who}} THEN @ ELSE 403]]
    /\ UNCHANGED <<spent, admins, promotions, summaries>>

AggregateByOwner(r) ==
    /\ ask[r].ph = "rows"
    /\ \E S \in Aggregates :
          ask' = [ask EXCEPT ![r].rows = @ \cap S, ![r].ph = "done"]
    /\ UNCHANGED <<spent, admins, promotions, summaries>>

CostDone(r) ==
    /\ ask[r].ph = "done"
    /\ ask' = [ask EXCEPT ![r] = NoAsk]
    /\ UNCHANGED <<spent, admins, promotions, summaries>>

CostNext ==
    \/ \E p \in Payers : SessionCosts(p) \/ ChangeRole(p)
    \/ SummariesAge
    \/ \E r \in CostReqs :
          \/ \E p \in Payers : CostSummary(r, p)
          \/ \E p \in Payers, o \in {Payers} \cup {{q} : q \in Payers} : PerOwner(r, p, o)
          \/ SummaryForUser(r) \/ TeamTotal(r) \/ AggregateByOwner(r) \/ CostDone(r)

CostSpec == CostInit /\ [][CostNext]_costVars

-----------------------------------------------------------------------------
(* What holds                                                              *)

\* An answer fits the role its caller had when the request came in, cached or
\* not and through role changes: the team's total for admins, and nobody
\* else's rows for the rest.
AnswerFitsRole ==
    \A r \in CostReqs : LET q == ask[r] IN q.ph = "done" =>
        IF q.do = "summary" THEN (q.team # NoTotal) = q.admin
        ELSE q.admin \/ q.rows \subseteq {q.who}

\* The team's total is never less than the caller's own part of it, although
\* the two come from two statements with sessions ending in between.
TeamCoversOwn ==
    \A r \in CostReqs : LET q == ask[r] IN
        (q.ph = "done" /\ q.do = "summary" /\ q.admin) => q.team >= q.own

\* Cost answers fit the caller and agree with each other.
CostInv == CostTypeOK /\ AnswerFitsRole /\ TeamCoversOwn

=============================================================================
