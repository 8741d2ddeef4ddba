----------------------------- MODULE Retention ------------------------------
(***************************************************************************)
(* gg-relay maintenance: run_retention walks the tables and deletes what   *)
(* is older than each one's cutoff, a batch at a time, each batch a SELECT *)
(* of keys and a DELETE of those keys in a transaction of its own.  The    *)
(* relay goes on inserting and resolving, and a second maintenance run     *)
(* may be under way.                                                       *)
(***************************************************************************)
EXTENDS Integers, FiniteSets, Sequences, FiniteSetsExt, Functions

CONSTANTS
    Order,          \* the tables in the order they are pruned
    KeepDays,       \* how long each is kept
    Jobs,           \* maintenance runs
    BatchSize,
    KeysRecycled,   \* the tables whose keys the database may hand out again
    MaxKey,         \* bound on keys
    MaxDay          \* bound on the clock

ASSUME RetentionAssumption ==
    /\ Len(Order) \in Nat \ {0} /\ \A n \in 1..Len(Order) : KeepDays[Order[n]] \in Nat
    /\ IsFiniteSet(Jobs) /\ BatchSize \in Nat \ {0} /\ MaxKey \in Nat /\ MaxDay \in Nat

VARIABLES
    day,        \* now
    shelf,      \* the rows: table and key to their ts (hitl_requests: resolved_at)
    lastKey,    \* the largest key each table ever used
    job,        \* the maintenance runs
    removed     \* history: rows deleted

retentionVars == <<day, shelf, lastKey, job, removed>>

Shelves == {Order[n] : n \in 1..Len(Order)}
Keys == 1..MaxKey
Gone == -2          \* no such row
Unresolved == -1    \* resolved_at IS NULL
NoJob == [ph |-> "idle", at |-> 1, now |-> 0, dry |-> FALSE, ids |-> {}, total |-> 0]

\* Rows, clocks and sweeps have their shapes.
RetentionTypeOK ==
    /\ day \in 0..MaxDay
    /\ shelf \in [Shelves -> [Keys -> {Gone, Unresolved} \cup 0..MaxDay]]
    /\ lastKey \in [Shelves -> 0..MaxKey]
    /\ \A j \in Jobs : /\ job[j].ph \in {"idle", "select", "delete", "done"}
                       /\ job[j].at \in 1..(Len(Order) + 1) /\ job[j].ids \subseteq Keys
    /\ removed \in Nat

RetentionInit ==
    /\ day = 0
    /\ shelf = [t \in Shelves |-> [k \in Keys |-> Gone]]
    /\ lastKey = [t \in Shelves |-> 0]
    /\ job = [j \in Jobs |-> NoJob]
    /\ removed = 0

-----------------------------------------------------------------------------
(* The relay                                                               *)

(* Mutant: keys are handed out again in every table.                       *)
RecycledKey(t) == Max({0} \cup {k \in Keys : shelf[t][k] # Gone}) + 1

\* event_id and the ids of hitl_requests are unique for good; audit_log.id is
\* drawn from a sequence by PostgreSQL, and is the largest rowid plus one in
\* SQLite.
NextKey(t) == IF t \in KeysRecycled THEN Max({0} \cup {k \in Keys : shelf[t][k] # Gone}) + 1
                                    ELSE lastKey[t] + 1

Insert(t) ==
    /\ NextKey(t) \in Keys
    /\ shelf' = [shelf EXCEPT ![t][NextKey(t)] = IF t = "hitl_requests" THEN Unresolved ELSE day]
    /\ lastKey' = [lastKey EXCEPT ![t] = Max({@, NextKey(t)})]
    /\ UNCHANGED <<day, job, removed>>

ResolveRow(k) ==
    /\ "hitl_requests" \in Shelves /\ shelf["hitl_requests"][k] = Unresolved
    /\ shelf' = [shelf EXCEPT !["hitl_requests"][k] = day]
    /\ UNCHANGED <<day, lastKey, job, removed>>

NextDay ==
    /\ day < MaxDay
    /\ day' = day + 1
    /\ UNCHANGED <<shelf, lastKey, job, removed>>

-----------------------------------------------------------------------------
(* run_retention                                                           *)

\* One now for all tables.
StartJob(j, dry) ==
    /\ job[j].ph = "idle"
    /\ job' = [job EXCEPT ![j] = [NoJob EXCEPT !.ph = "select", !.now = day, !.dry = dry]]
    /\ UNCHANGED <<day, shelf, lastKey, removed>>

\* where_col < cutoff, which a NULL resolved_at never satisfies.
Old(t, k, now) == shelf[t][k] >= 0 /\ shelf[t][k] < now - KeepDays[t]

Onward(q) == [q EXCEPT !.at = @ + 1, !.ids = {},
                       !.ph = IF q.at = Len(Order) THEN "done" ELSE "select"]

Select(j) ==
    LET q == job[j]
        old == {k \in Keys : Old(Order[q.at], k, q.now)}
    IN  /\ q.ph = "select"
        /\ \E ids \in SUBSET old :
              /\ Cardinality(ids) = Min({BatchSize, Cardinality(old)})
              /\ job' = [job EXCEPT ![j] =
                    IF ids = {} THEN Onward(q)
                    ELSE IF q.dry THEN Onward([q EXCEPT !.total = @ + Cardinality(ids)])
                    ELSE [q EXCEPT !.ids = ids, !.ph = "delete"]]
        /\ UNCHANGED <<day, shelf, lastKey, removed>>

(* Mutant: a full batch is taken for the last one.                         *)
AnyBatchIsLast(ids) == Cardinality(ids) <= BatchSize

LastBatch(ids) == Cardinality(ids) < BatchSize

\* del_result.rowcount
Affected(t, ids) == Cardinality({k \in ids : shelf[t][k] # Gone})

Delete(j) ==
    LET q == job[j]
        t == Order[q.at]
        counted == [q EXCEPT !.total = @ + Affected(t, q.ids)]
    IN  /\ q.ph = "delete"
        /\ shelf' = [shelf EXCEPT ![t] = [k \in Keys |-> IF k \in q.ids THEN Gone ELSE @[k]]]
        /\ removed' = removed + Cardinality({k \in q.ids : shelf[t][k] # Gone})
        /\ job' = [job EXCEPT ![j] = IF LastBatch(q.ids) THEN Onward(counted)
                                     ELSE [counted EXCEPT !.ids = {}, !.ph = "select"]]
        /\ UNCHANGED <<day, lastKey>>

RetentionNext ==
    \/ \E t \in Shelves : Insert(t)
    \/ \E k \in Keys : ResolveRow(k)
    \/ NextDay
    \/ \E j \in Jobs : Select(j) \/ Delete(j) \/ \E dry \in BOOLEAN : StartJob(j, dry)

RetentionSpec == RetentionInit /\ [][RetentionNext]_retentionVars

-----------------------------------------------------------------------------
(* What holds                                                              *)

\* Only rows that are past their table's cutoff go, and of hitl_requests only
\* resolved ones: the keys a batch selected still name the same rows when the
\* DELETE runs, another maintenance run and new rows notwithstanding.
YoungRowsSurvive ==
    [][\A t \in Shelves, k \in Keys :
         (shelf[t][k] # Gone /\ shelf'[t][k] = Gone) => Old(t, k, day)]_retentionVars

\* A run that has ended has left nothing that was past the cutoff when it
\* began, however many batches that took and whoever else deleted meanwhile.
SweptClean ==
    \A j \in Jobs : (job[j].ph = "done" /\ ~job[j].dry) =>
        \A t \in Shelves, k \in Keys : ~Old(t, k, job[j].now)

\* What each run reports as deleted.
Reported == [j \in Jobs |-> IF job[j].dry THEN 0 ELSE job[j].total]

\* The totals the runs report add up to the rows that went, also when two runs
\* delete the same batch.
TotalsAreExact == SumFunctionOnSet(Reported, Jobs) = removed

\* Maintenance runs, also two at once, take all that is due and count it once.
RetentionInv == RetentionTypeOK /\ SweptClean /\ TotalsAreExact

-----------------------------------------------------------------------------
(* The inductive invariant behind YoungRowsSurvive and SweptClean, for     *)
(* tables whose keys are not handed out again                              *)

\* Keys beyond the last one have no row yet.
KeysAreFresh == \A t \in Shelves, k \in Keys : k > lastKey[t] => shelf[t][k] = Gone

\* A run that is under way has a table before it, and one that has ended none.
JobShape(q) ==
    /\ q.ph \in {"select", "delete"} => q.at <= Len(Order)
    /\ q.ph = "done" => q.at = Len(Order) + 1
    /\ q.now <= day

\* What a batch selected is still due or gone, and its keys were in use.
SelectionInv(q) ==
    q.ph = "delete" => \A k \in q.ids : LET t == Order[q.at] IN
        k <= lastKey[t] /\ (shelf[t][k] = Gone \/ Old(t, k, q.now))

\* The tables behind a run are swept, and its last batch of a table holds all
\* that is still due there.
SweepInv(q) ==
    (q.ph # "idle" /\ ~q.dry) =>
        /\ \A n \in 1..Len(Order), k \in Keys : n < q.at => ~Old(Order[n], k, q.now)
        /\ (q.ph = "delete" /\ LastBatch(q.ids)) =>
             \A k \in Keys : Old(Order[q.at], k, q.now) => k \in q.ids

SweepsInv == KeysAreFresh /\ \A j \in Jobs : JobShape(job[j]) /\ SelectionInv(job[j]) /\ SweepInv(job[j])

=============================================================================
