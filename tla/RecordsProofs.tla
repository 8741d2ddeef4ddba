--------------------------- MODULE RecordsProofs ----------------------------
(***************************************************************************)
(* Proofs about the tables behind the API: Credentials, Retention, Collab, *)
(* Listing and Cost, for any number of labels, requests, sessions,         *)
(* templates, rows, payers and maintenance runs, and any bounds.           *)
(***************************************************************************)
EXTENDS Credentials, Collab, Retention, Listing, Cost, DataLemmas

LEMMA RestOf ==
    ASSUME NEW S, NEW q \in Seq(S), q # << >>
    PROVE  /\ Tail(q) \in Seq(S) /\ Head(q) \in S /\ Head(q) = q[1]
           /\ Len(q) \in Nat /\ Len(q) >= 1 /\ Len(Tail(q)) = Len(q) - 1
           /\ \A i \in 1..Len(Tail(q)) : Tail(q)[i] = q[i + 1]
  OBVIOUS

LEMMA OneMore ==
    ASSUME NEW S, NEW q \in Seq(S), NEW x \in S
    PROVE  /\ Append(q, x) \in Seq(S) /\ Len(q) \in Nat /\ Len(Append(q, x)) = Len(q) + 1
           /\ Append(q, x)[Len(q) + 1] = x
           /\ \A i \in 1..Len(q) : Append(q, x)[i] = q[i]
  OBVIOUS

----------------------------------------------------------------------------
(* Credentials: types *)

Does == {"none", "submit", "cancel", "retry", "put", "del", "show"}
CallPhase == {"idle", "next", "lookup", "create", "put", "del", "show", "log", "note", "done"}
Someone == Labels \cup {"none"}
ItemType == [id : Sids \cup {0}, outcome : Outcomes, new : Sids \cup {0}]
CallType == [do : Does, who : Someone, owner : Someone, body : SUBSET EnvNames, spec : Specs,
             todo : Seq(Sids), items : Seq(ItemType), ph : CallPhase, env : Envs,
             parent : Sids \cup {0}]
SessionType == [st : {"none", "row", "cancelled"}, owner : Someone, actor : Someone,
                parent : Sids \cup {0}, env : Envs, row : Specs, runs : Specs]
CredType == [fp : FernetKeys \cup {Off}, by : Labels \cup {"none"}, n : 0..MaxStored]

\* A request that is under way is somebody's, about somebody's rows.
WellFormed(q) == /\ q \in CallType
                 /\ q.ph # "idle" => q.who \in Labels /\ q.owner \in Labels
                 /\ q.ph \in {"put", "del", "show"} => q.spec \in EnvNames

VaultType ==
    /\ key \in FernetKeys \cup {Off}
    /\ cred \in [Labels \X EnvNames -> CredType]
    /\ sreq \in [SReqs -> CallType] /\ \A r \in SReqs : WellFormed(sreq[r])
    /\ session \in [Sids -> SessionType]
    /\ revealed \in Nat /\ logged \in Nat /\ faults \in 0..MaxFaults

LEMMA VaultConstants ==
    /\ MaxStored \in Nat /\ MaxFaults \in Nat /\ Cardinality(Sids) \in Nat
    /\ Sids = 1..Cardinality(Sids) /\ 0 \notin Sids /\ Sids \subseteq Nat
    /\ NoEnv \in Envs /\ NoCred \in CredType
    /\ Resting \in CallType /\ NoSession \in SessionType
<1>1. MaxStored \in Nat /\ MaxFaults \in Nat /\ IsFiniteSet(Sids) /\ Sids = 1..Cardinality(Sids)
  BY CredentialsAssumption
<1>2. Cardinality(Sids) \in Nat
  BY <1>1, FS_CardinalityType
<1>3. 0 \notin Sids /\ Sids \subseteq Nat
  BY <1>1, <1>2
<1>4. NoEnv \in Envs /\ NoCred \in CredType
  <2>1. 0 \in 0..MaxStored
    BY <1>1
  <2>2. NoCred \in CredType
    BY <2>1 DEF NoCred, CredType
  <2>3. Absent \in [of : Labels \cup {"none", "body"}, n : 0..MaxStored]
    BY <2>1 DEF Absent
  <2>4. NoEnv \in Envs
    BY <2>3 DEF NoEnv, Envs
  <2>5. QED
    BY <2>2, <2>4
<1>5. Resting \in CallType
  <2>1. << >> \in Seq(Sids) /\ << >> \in Seq(ItemType) /\ {} \in SUBSET EnvNames
    OBVIOUS
  <2>2. "none" \in Does /\ "none" \in Someone /\ "none" \in Specs /\ "idle" \in CallPhase
    BY DEF Does, Someone, CallPhase, Specs
  <2>3. QED
    BY <1>4, <2>1, <2>2 DEF Resting, CallType
<1>6. NoSession \in SessionType
  BY <1>4 DEF NoSession, SessionType, Someone, Specs
<1>7. QED
  BY <1>1, <1>2, <1>3, <1>4, <1>5, <1>6

\* The fields of a request under way.
LEMMA CallShape ==
    ASSUME NEW q \in CallType
    PROVE  /\ q.do \in Does /\ q.who \in Someone /\ q.owner \in Someone
           /\ q.body \in SUBSET EnvNames /\ q.spec \in Specs
           /\ q.todo \in Seq(Sids) /\ q.items \in Seq(ItemType)
           /\ q.ph \in CallPhase /\ q.env \in Envs /\ q.parent \in Sids \cup {0}
  BY DEF CallType

LEMMA SettledIs ==
    ASSUME NEW q \in CallType, NEW item \in ItemType, InBatch(q) => q.todo # << >>
    PROVE  LET n == Settled(q, item) IN
           /\ n \in CallType /\ n.do = q.do /\ n.who = q.who /\ n.owner = q.owner
           /\ n.spec = q.spec /\ n.items = Append(q.items, item)
           /\ InBatch(q) => n.ph = "next" /\ n.todo = Tail(q.todo) /\ n.parent = 0
           /\ ~InBatch(q) => n.ph = "done" /\ n.todo = q.todo /\ n.parent = q.parent
<1>1. PICK a \in Seq(ItemType), t \in Seq(Sids) : a = q.items /\ t = q.todo
  BY CallShape
<1>2. Append(a, item) \in Seq(ItemType)
  BY OneMore
<1>3. PICK b \in Seq(ItemType) : b = Append(q.items, item)
  BY <1>1, <1>2
<1>4. CASE InBatch(q)
  <2>1. Tail(t) \in Seq(Sids)
    BY <1>1, <1>4
  <2>2. PICK d \in Seq(Sids) : d = Tail(q.todo)
    BY <1>1, <2>1
  <2>3. PICK n : n = [q EXCEPT !.items = b, !.todo = d, !.ph = "next", !.env = NoEnv, !.parent = 0]
    OBVIOUS
  <2>4. Settled(q, item) = n
    BY <1>3, <1>4, <2>2, <2>3 DEF Settled
  <2>5. n \in CallType
    BY <2>3, VaultConstants DEF CallType, CallPhase
  <2>6. /\ n.do = q.do /\ n.who = q.who /\ n.owner = q.owner
        /\ n.spec = q.spec /\ n.items = b /\ n.ph = "next" /\ n.todo = d /\ n.parent = 0
    BY <2>3 DEF CallType
  <2>7. QED
    BY <1>3, <1>4, <2>2, <2>4, <2>5, <2>6
<1>5. CASE ~InBatch(q)
  <2>1. PICK n : n = [q EXCEPT !.items = b, !.ph = "done"]
    OBVIOUS
  <2>2. Settled(q, item) = n
    BY <1>3, <1>5, <2>1 DEF Settled
  <2>3. n \in CallType
    BY <2>1, VaultConstants DEF CallType, CallPhase
  <2>4. /\ n.do = q.do /\ n.who = q.who /\ n.owner = q.owner /\ n.parent = q.parent
        /\ n.spec = q.spec /\ n.items = b /\ n.ph = "done" /\ n.todo = q.todo
    BY <2>1 DEF CallType
  <2>5. QED
    BY <1>3, <1>5, <2>2, <2>3, <2>4
<1>6. QED
  BY <1>4, <1>5

LEMMA PhaseIs ==
    ASSUME NEW q \in CallType, NEW p \in CallPhase
    PROVE  LET n == [q EXCEPT !.ph = p] IN
           /\ n \in CallType /\ n.ph = p /\ n.do = q.do /\ n.who = q.who /\ n.owner = q.owner
           /\ n.spec = q.spec /\ n.items = q.items /\ n.todo = q.todo /\ n.parent = q.parent
           /\ n.env = q.env
  BY DEF CallType

LEMMA RetryIs ==
    ASSUME VaultType, NEW q \in CallType, NEW s \in Sids
    PROVE  LET n == Retry(q, s) IN
           /\ n \in CallType /\ n.ph = "lookup" /\ n.do = q.do /\ n.who = q.who
           /\ n.owner = q.who /\ n.items = q.items /\ n.todo = q.todo /\ n.parent = s
<1>1. PICK spec \in Specs : spec = session[s].row
  BY DEF VaultType, SessionType
<1>2. PICK w \in Someone : w = q.who
  BY CallShape
<1>3. PICK n : n = [q EXCEPT !.ph = "lookup", !.parent = s, !.owner = w, !.body = {}, !.spec = spec]
  OBVIOUS
<1>4. Retry(q, s) = n
  BY <1>1, <1>2, <1>3 DEF Retry
<1>5. n \in CallType
  BY <1>3 DEF CallType, CallPhase
<1>6. /\ n.ph = "lookup" /\ n.do = q.do /\ n.who = q.who
      /\ n.owner = w /\ n.items = q.items /\ n.todo = q.todo /\ n.parent = s
  BY <1>3 DEF CallType
<1>7. QED
  BY <1>2, <1>4, <1>5, <1>6

----------------------------------------------------------------------------
(* Credentials: one request moves *)

CallGood(q) == WellFormed(q) /\ BundleInv(q) /\ BatchInv(q)

\* One more id of a batch is answered.
LEMMA BatchMovesOn ==
    ASSUME NEW q \in CallType, NEW op \in SOps, Progress(q, op), q.todo # << >>,
           NEW n \in CallType, NEW item \in ItemType, n.do = q.do, n.who = q.who,
           n.items = Append(q.items, item), n.todo = Tail(q.todo), item.id = Head(q.todo)
    PROVE  Progress(n, op)
<1>1. PICK a \in Seq(ItemType), t \in Seq(Sids) : a = q.items /\ t = q.todo
  BY CallShape
<1>2. PICK b \in Seq(ItemType) : b = Append(a, item)
  BY OneMore
<1>3. PICK u \in Seq(Sids) : u = Tail(t)
  BY <1>1, RestOf
<1>4. /\ Len(a) \in Nat /\ Len(b) = Len(a) + 1 /\ b[Len(a) + 1] = item
      /\ \A i \in 1..Len(a) : b[i] = a[i]
  BY <1>2, OneMore
<1>5. /\ Len(t) \in Nat /\ Len(t) >= 1 /\ Len(u) = Len(t) - 1 /\ Head(t) = t[1]
      /\ \A i \in 1..Len(u) : u[i] = t[i + 1]
  BY <1>1, <1>3, RestOf
<1>6. n.items = b /\ n.todo = u
  BY <1>1, <1>2, <1>3
<1>7. /\ op.do = q.do /\ op.who = q.who /\ Len(op.ids) = Len(a) + Len(t)
      /\ \A i \in 1..Len(a) : a[i].id = op.ids[i]
      /\ \A i \in 1..Len(t) : t[i] = op.ids[Len(a) + i]
  BY <1>1 DEF Progress
<1>8. Len(op.ids) = Len(b) + Len(u)
  BY <1>4, <1>5, <1>7
<1>9. ASSUME NEW i \in 1..Len(b) PROVE b[i].id = op.ids[i]
  <2>1. CASE i \in 1..Len(a)
    BY <1>4, <1>7, <2>1
  <2>2. CASE i = Len(a) + 1
    <3>1. 1 \in 1..Len(t)
      BY <1>5
    <3>2. t[1] = op.ids[Len(a) + 1]
      BY <1>7, <3>1
    <3>3. QED
      BY <1>1, <1>4, <1>5, <2>2, <3>2
  <2>3. QED
    BY <1>4, <2>1, <2>2
<1>10. ASSUME NEW i \in 1..Len(u) PROVE u[i] = op.ids[Len(b) + i]
  <2>1. i + 1 \in 1..Len(t) /\ Len(a) + (i + 1) = Len(b) + i
    BY <1>4, <1>5
  <2>2. t[i + 1] = op.ids[Len(a) + (i + 1)]
    BY <1>7, <2>1
  <2>3. QED
    BY <1>5, <2>1, <2>2
<1>11. QED
  BY <1>6, <1>7, <1>8, <1>9, <1>10 DEF Progress

\* The end of a submit, or of one id of a batch.
LEMMA SettledGood ==
    ASSUME NEW q, CallGood(q), q.ph \in {"next", "lookup", "create"},
           q.ph = "next" => q.todo # << >>,
           NEW item \in ItemType, InBatch(q) => item.id = Head(q.todo)
    PROVE  /\ CallGood(Settled(q, item)) /\ Settled(q, item).who = q.who
           /\ Settled(q, item).items = Append(q.items, item)
<1>1. q \in CallType /\ q.who \in Labels /\ q.owner \in Labels /\ BatchInv(q)
  BY DEF CallGood, WellFormed
<1>2. InBatch(q) => q.todo # << >>
  BY <1>1 DEF BatchInv
<1>3. PICK n : n = Settled(q, item)
  OBVIOUS
<1>4. /\ n \in CallType /\ n.do = q.do /\ n.who = q.who /\ n.owner = q.owner
      /\ n.items = Append(q.items, item)
      /\ InBatch(q) => n.ph = "next" /\ n.todo = Tail(q.todo) /\ n.parent = 0
      /\ ~InBatch(q) => n.ph = "done" /\ n.parent = q.parent
  BY <1>1, <1>2, <1>3, SettledIs
<1>5. WellFormed(n) /\ BundleInv(n)
  BY <1>1, <1>4 DEF WellFormed, BundleInv
<1>6. BatchInv(n)
  <2>1. CASE InBatch(q)
    <3>1. PICK op \in SOps : Progress(q, op)
      BY <1>1, <2>1 DEF BatchInv
    <3>2. Progress(n, op)
      BY <1>1, <1>2, <1>4, <2>1, <3>1, BatchMovesOn
    <3>3. InBatch(n) /\ n.ph = "next"
      BY <1>4, <2>1 DEF InBatch
    <3>4. QED
      BY <3>2, <3>3 DEF BatchInv
  <2>2. CASE ~InBatch(q)
    <3>1. ~InBatch(n) /\ n.ph = "done" /\ n.parent = q.parent
      BY <1>4, <2>2 DEF InBatch
    <3>2. q.parent = 0
      BY <1>1, <2>2 DEF BatchInv
    <3>3. QED
      BY <3>1, <3>2 DEF BatchInv
  <2>3. QED
    BY <2>1, <2>2
<1>7. QED
  BY <1>3, <1>4, <1>5, <1>6 DEF CallGood

\* A request is done with what it asked of one row, or of the last of its ids.
LEMMA PhaseGood ==
    ASSUME NEW q, CallGood(q), q.ph \notin {"idle", "lookup", "create"},
           q.ph = "next" => q.todo = << >>,
           NEW p \in {"note", "log", "done"}, q.ph \in {"next", "done"} => p = "done"
    PROVE  /\ CallGood([q EXCEPT !.ph = p])
           /\ [q EXCEPT !.ph = p].who = q.who /\ [q EXCEPT !.ph = p].items = q.items
<1>1. q \in CallType /\ q.who \in Labels /\ q.owner \in Labels /\ BatchInv(q)
  BY DEF CallGood, WellFormed
<1>2. p \in CallPhase
  BY DEF CallPhase
<1>3. PICK n : n = [q EXCEPT !.ph = p]
  OBVIOUS
<1>4. /\ n \in CallType /\ n.ph = p /\ n.do = q.do /\ n.who = q.who /\ n.owner = q.owner
      /\ n.items = q.items /\ n.todo = q.todo /\ n.parent = q.parent
  BY <1>1, <1>2, <1>3, PhaseIs
<1>5. WellFormed(n) /\ BundleInv(n)
  BY <1>1, <1>4 DEF WellFormed, BundleInv
<1>6. BatchInv(n)
  <2>1. CASE InBatch(q)
    <3>1. PICK op \in SOps : Progress(q, op)
      BY <1>1, <2>1 DEF BatchInv
    <3>2. Progress(n, op) /\ InBatch(n)
      BY <1>4, <2>1, <3>1 DEF Progress, InBatch
    <3>3. q.todo = << >> /\ p = "done"
      BY <1>1, <2>1 DEF BatchInv
    <3>4. QED
      BY <1>4, <3>2, <3>3 DEF BatchInv
  <2>2. CASE ~InBatch(q)
    BY <1>1, <1>4, <2>2 DEF BatchInv, InBatch
  <2>3. QED
    BY <2>1, <2>2
<1>7. QED
  BY <1>3, <1>4, <1>5, <1>6 DEF CallGood

LEMMA RestingGood == CallGood(Resting) /\ Resting.items = << >>
  BY VaultConstants DEF CallGood, WellFormed, Resting, BundleInv, BatchInv, InBatch

LEMMA RetryGood ==
    ASSUME VaultType, NEW q, CallGood(q), InBatch(q), q.ph = "next", q.todo # << >>
    PROVE  LET n == Retry(q, Head(q.todo)) IN
           CallGood(n) /\ n.who = q.who /\ n.items = q.items
<1>1. q \in CallType /\ q.who \in Labels /\ q.owner \in Labels /\ BatchInv(q)
  BY DEF CallGood, WellFormed
<1>2. PICK s \in Sids : s = Head(q.todo)
  BY <1>1, CallShape, RestOf
<1>3. PICK n : n = Retry(q, s)
  OBVIOUS
<1>4. /\ n \in CallType /\ n.ph = "lookup" /\ n.do = q.do /\ n.who = q.who
      /\ n.owner = q.who /\ n.items = q.items /\ n.todo = q.todo /\ n.parent = s
  BY <1>1, <1>3, RetryIs
<1>5. PICK op \in SOps : Progress(q, op)
  BY <1>1 DEF BatchInv
<1>6. Progress(n, op) /\ InBatch(n)
  BY <1>4, <1>5 DEF Progress, InBatch
<1>7. BatchInv(n)
  BY <1>2, <1>4, <1>6 DEF BatchInv
<1>8. WellFormed(n) /\ BundleInv(n)
  BY <1>1, <1>4 DEF WellFormed, BundleInv
<1>9. QED
  BY <1>2, <1>3, <1>4, <1>7, <1>8 DEF CallGood

\* What submit merges is the caller's own.
LEMMA MergedIs ==
    ASSUME VaultType, NEW q \in CallType, q.who \in Labels,
           NEW db \in {NoEnv, GetForUser(q)}
    PROVE  /\ Merged(db, q.body) \in Envs
           /\ \A e \in EnvNames : Merged(db, q.body)[e].of \in {"none", "body", q.who}
<1> DEFINE Value == [of : Labels \cup {"none", "body"}, n : 0..MaxStored]
<1>1. 0 \in 0..MaxStored
  BY VaultConstants
<1>2. ASSUME NEW e \in EnvNames
      PROVE  db[e] \in Value /\ db[e].of \in {"none", q.who}
  <2>1. CASE db = NoEnv
    BY <1>1, <1>2, <2>1 DEF NoEnv, Absent
  <2>2. CASE db = GetForUser(q)
    <3>1. PICK c \in CredType : c = cred[<<q.who, e>>]
      BY <1>2 DEF VaultType
    <3>2. db[e] = IF key # Off /\ c.fp = key THEN [of |-> q.who, n |-> c.n] ELSE Absent
      BY <1>2, <2>2, <3>1 DEF GetForUser
    <3>3. c.n \in 0..MaxStored
      BY DEF CredType
    <3>4. CASE db[e] = [of |-> q.who, n |-> c.n]
      BY <3>3, <3>4
    <3>5. CASE db[e] = Absent
      BY <1>1, <3>5 DEF Absent
    <3>6. QED
      BY <3>2, <3>4, <3>5
  <2>3. QED
    BY <2>1, <2>2
<1>3. ASSUME NEW e \in EnvNames
      PROVE  /\ Merged(db, q.body)[e] \in Value
             /\ Merged(db, q.body)[e].of \in {"none", "body", q.who}
  <2>1. Merged(db, q.body)[e] = IF e \in q.body THEN InBody ELSE db[e]
    BY <1>3 DEF Merged
  <2>2. InBody \in Value /\ InBody.of = "body"
    BY <1>1 DEF InBody
  <2>3. QED
    BY <1>2, <1>3, <2>1, <2>2
<1>4. Merged(db, q.body) \in [EnvNames -> Value]
  BY <1>3 DEF Merged
<1>5. QED
  BY <1>3, <1>4 DEF Envs

\* submit goes on with a bundle that is enough.
LEMMA BundleGood ==
    ASSUME VaultType, NEW q, CallGood(q), q.ph = "lookup", NEW env \in Envs,
           \A e \in EnvNames : env[e].of \in {"none", "body", q.who},
           Strict /\ RoleOf[q.who] # "admin" => BundleIsComplete(env)
    PROVE  LET n == [q EXCEPT !.env = env, !.ph = "create"] IN
           CallGood(n) /\ n.who = q.who /\ n.items = q.items
<1>1. q \in CallType /\ q.who \in Labels /\ q.owner \in Labels /\ BatchInv(q)
  BY DEF CallGood, WellFormed
<1>2. PICK n : n = [q EXCEPT !.env = env, !.ph = "create"]
  OBVIOUS
<1>3. n \in CallType
  BY <1>1, <1>2 DEF CallType, CallPhase
<1>4. /\ n.env = env /\ n.ph = "create" /\ n.do = q.do /\ n.who = q.who /\ n.owner = q.owner
      /\ n.items = q.items /\ n.todo = q.todo /\ n.parent = q.parent
  BY <1>1, <1>2 DEF CallType
<1>5. WellFormed(n) /\ BundleInv(n)
  BY <1>1, <1>3, <1>4 DEF WellFormed, BundleInv
<1>6. BatchInv(n)
  <2>1. CASE InBatch(q)
    <3>1. PICK op \in SOps : Progress(q, op)
      BY <1>1, <2>1 DEF BatchInv
    <3>2. Progress(n, op) /\ InBatch(n)
      BY <1>4, <2>1, <3>1 DEF Progress, InBatch
    <3>3. q.todo # << >> /\ q.parent = Head(q.todo)
      BY <1>1, <2>1 DEF BatchInv
    <3>4. QED
      BY <1>4, <3>2, <3>3 DEF BatchInv
  <2>2. CASE ~InBatch(q)
    BY <1>1, <1>4, <2>2 DEF BatchInv, InBatch
  <2>3. QED
    BY <2>1, <2>2
<1>7. QED
  BY <1>2, <1>4, <1>5, <1>6 DEF CallGood

\* A request begins.
LEMMA BeginGood ==
    ASSUME NEW r \in SReqs, NEW op \in SOps, VaultType, BeginCall(r, op)
    PROVE  \E n : /\ CallGood(n) /\ n.items = << >> /\ sreq' = [sreq EXCEPT ![r] = n]
<1>1. /\ op.do \in {"submit", "cancel", "retry", "put", "del", "show"} /\ op.who \in Labels
      /\ op.owner \in Labels /\ op.body \in SUBSET EnvNames /\ op.spec \in Specs
      /\ op.ids \in Seq(Sids) /\ (op.do \in {"put", "del", "show"} => op.spec \in EnvNames)
  BY CallsAssumption
<1>2. PICK ph : ph = CASE op.do = "submit" -> "lookup"
                        [] op.do \in {"cancel", "retry"} -> "next"
                        [] OTHER -> op.do
  OBVIOUS
<1>3. /\ op.do = "submit" => ph = "lookup"
      /\ op.do \in {"cancel", "retry"} => ph = "next"
      /\ op.do \in {"put", "del", "show"} => ph = op.do
  BY <1>1, <1>2
<1>4. /\ ph \in CallPhase /\ op.do \in Does /\ op.who \in Someone /\ op.owner \in Someone
      /\ Resting \in CallType
  BY <1>1, <1>3, VaultConstants DEF CallPhase, Does, Someone
<1>5. PICK do \in Does, who \in Someone, owner \in Someone, body \in SUBSET EnvNames, spec \in Specs,
           ids \in Seq(Sids) :
        do = op.do /\ who = op.who /\ owner = op.owner /\ body = op.body /\ spec = op.spec /\ ids = op.ids
  BY <1>1, <1>4
<1>6. PICK n : n = [Resting EXCEPT !.do = do, !.who = who, !.owner = owner, !.body = body,
                                   !.spec = spec, !.todo = ids, !.ph = ph]
  OBVIOUS
<1>7. n \in CallType /\ sreq' = [sreq EXCEPT ![r] = n]
  <2>1. n \in CallType
    BY <1>4, <1>6 DEF CallType
  <2>2. sreq' = [sreq EXCEPT ![r] = n]
    BY <1>2, <1>5, <1>6 DEF BeginCall
  <2>3. QED
    BY <2>1, <2>2
<1>8. /\ n.do = op.do /\ n.who = op.who /\ n.owner = op.owner /\ n.spec = op.spec
       /\ n.todo = op.ids /\ n.ph = ph /\ n.items = Resting.items /\ n.parent = Resting.parent
  BY <1>4, <1>5, <1>6 DEF CallType
<1>9. n.items = << >> /\ n.parent = 0
  BY <1>8 DEF Resting
<1>10. WellFormed(n) /\ BundleInv(n)
  BY <1>1, <1>3, <1>7, <1>8 DEF WellFormed, BundleInv
<1>11. BatchInv(n)
  <2>1. CASE op.do \in {"cancel", "retry"}
    <3>1. InBatch(n) /\ n.ph = "next"
      BY <1>3, <1>8, <2>1 DEF InBatch
    <3>2. Progress(n, op)
      BY <1>1, <1>8, <1>9 DEF Progress
    <3>3. QED
      BY <3>1, <3>2 DEF BatchInv
  <2>2. CASE op.do \notin {"cancel", "retry"}
    <3>1. ~InBatch(n) /\ n.ph # "next" /\ n.parent = 0
      BY <1>1, <1>3, <1>8, <1>9, <2>2 DEF InBatch
    <3>2. QED
      BY <3>1 DEF BatchInv
  <2>3. QED
    BY <2>1, <2>2
<1>12. QED
  BY <1>7, <1>10, <1>11, <1>9 DEF CallGood

----------------------------------------------------------------------------
(* Credentials: the inductive invariant *)

\* What a session runs with is its actor's, and enough; its row holds no secret.
SessionOK(x) ==
    /\ x.row # "secret"
    /\ x.st # "none" =>
         /\ \A e \in EnvNames : x.env[e].of \in {"none", "body", x.actor}
         /\ Strict /\ RoleOf[x.actor] # "admin" => BundleIsComplete(x.env)

TablesInv ==
    /\ key \in FernetKeys \cup {Off}
    /\ cred \in [Labels \X EnvNames -> CredType]
    /\ session \in [Sids -> SessionType] /\ SidsInOrder
    /\ \A s \in Sids : SessionOK(session[s])
    /\ revealed \in Nat /\ logged \in Nat /\ revealed <= logged /\ faults \in 0..MaxFaults

RequestsInv == /\ sreq \in [SReqs -> CallType]
               /\ \A r \in SReqs : CallGood(sreq[r]) /\ ItemsInv(sreq[r])

VaultInductive == TablesInv /\ RequestsInv

LEMMA VaultTypes ==
    ASSUME VaultInductive
    PROVE  VaultType
  BY DEF VaultInductive, TablesInv, RequestsInv, VaultType, CallGood

\* A session that is there stays, its parent's and its actor's.
RowsStay ==
    \A s \in Sids : session[s].st # "none" =>
        /\ session'[s].st # "none"
        /\ session'[s].parent = session[s].parent /\ session'[s].actor = session[s].actor

LEMMA SameItems ==
    ASSUME NEW q, NEW n, ItemsInv(q), n.who = q.who, n.items = q.items, RowsStay
    PROVE  ItemsInv(n)'
  BY DEF ItemsInv, RowsStay

LEMMA NoItems ==
    ASSUME NEW n, n.items = << >>
    PROVE  ItemsInv(n)'
<1>1. 1..Len(n.items) = {}
  OBVIOUS
<1>2. QED
  BY <1>1 DEF ItemsInv

LEMMA OneMoreItem ==
    ASSUME NEW q \in CallType, NEW n, NEW item \in ItemType, ItemsInv(q), RowsStay,
           n.who = q.who, n.items = Append(q.items, item),
           item.new # 0 => /\ item.new \in Sids /\ session'[item.new].st # "none"
                           /\ session'[item.new].parent = item.id
                           /\ session'[item.new].actor = q.who
    PROVE  ItemsInv(n)'
<1>1. PICK a \in Seq(ItemType) : a = q.items
  BY CallShape
<1>2. PICK b \in Seq(ItemType) : b = Append(a, item)
  BY OneMore
<1>3. /\ Len(a) \in Nat /\ Len(b) = Len(a) + 1 /\ b[Len(a) + 1] = item
      /\ \A i \in 1..Len(a) : b[i] = a[i]
  BY <1>2, OneMore
<1>4. n.items = b
  BY <1>1, <1>2
<1>5. ASSUME NEW i \in 1..Len(b), b[i].new # 0
      PROVE  /\ b[i].new \in Sids /\ session'[b[i].new].st # "none"
             /\ session'[b[i].new].parent = b[i].id /\ session'[b[i].new].actor = n.who
  <2>1. CASE i \in 1..Len(a)
    <3>1. b[i] = a[i]
      BY <1>3, <2>1
    <3>2. /\ a[i].new \in Sids /\ session[a[i].new].st # "none"
          /\ session[a[i].new].parent = a[i].id /\ session[a[i].new].actor = q.who
      BY <1>1, <1>5, <2>1, <3>1 DEF ItemsInv
    <3>3. QED
      BY <3>1, <3>2 DEF RowsStay
  <2>2. CASE i = Len(a) + 1
    BY <1>3, <1>5, <2>2
  <2>3. QED
    BY <1>3, <2>1, <2>2
<1>6. QED
  BY <1>4, <1>5 DEF ItemsInv

\* One request moves and the others do not.
LEMMA OneMoves ==
    ASSUME VaultInductive, NEW r \in SReqs, NEW n, CallGood(n), ItemsInv(n)', RowsStay,
           sreq' = [sreq EXCEPT ![r] = n]
    PROVE  RequestsInv'
<1>1. n \in CallType
  BY DEF CallGood, WellFormed
<1>2. sreq \in [SReqs -> CallType] /\ sreq' \in [SReqs -> CallType]
  BY <1>1 DEF VaultInductive, RequestsInv
<1>3. ASSUME NEW p \in SReqs
      PROVE  (CallGood(sreq[p]) /\ ItemsInv(sreq[p]))'
  <2>1. PICK m : m = sreq'[p]
    OBVIOUS
  <2>2. CallGood(m) /\ ItemsInv(m)'
    <3>1. CASE p = r
      BY <1>2, <2>1, <3>1
    <3>2. CASE p # r
      <4>1. m = sreq[p]
        BY <1>2, <2>1, <3>2
      <4>2. CallGood(m) /\ ItemsInv(m)
        BY <1>3, <4>1 DEF VaultInductive, RequestsInv
      <4>3. QED
        BY <4>2, SameItems
    <3>3. QED
      BY <3>1, <3>2
  <2>3. CallGood(sreq[p])'
    BY <2>1, <2>2
  <2>4. ItemsInv(sreq[p])'
    <3>1. SUFFICES ASSUME NEW i \in 1..Len(sreq'[p].items), sreq'[p].items[i].new # 0
                   PROVE  /\ sreq'[p].items[i].new \in Sids
                          /\ session'[sreq'[p].items[i].new].st # "none"
                          /\ session'[sreq'[p].items[i].new].parent = sreq'[p].items[i].id
                          /\ session'[sreq'[p].items[i].new].actor = sreq'[p].who
      BY DEF ItemsInv
    <3>2. i \in 1..Len(m.items) /\ m.items[i].new # 0
      BY <2>1, <3>1
    <3>3. /\ m.items[i].new \in Sids /\ session'[m.items[i].new].st # "none"
          /\ session'[m.items[i].new].parent = m.items[i].id
          /\ session'[m.items[i].new].actor = m.who
      BY <2>2, <3>2 DEF ItemsInv
    <3>4. QED
      BY <2>1, <3>3
  <2>5. QED
    BY <2>3, <2>4
<1>4. QED
  BY <1>2, <1>3 DEF RequestsInv

LEMMA Stays ==
    ASSUME session' = session
    PROVE  RowsStay
  BY DEF RowsStay

\* A request is done with a row.
LEMMA PhaseStep ==
    ASSUME VaultInductive, NEW r \in SReqs, NEW p \in {"note", "log", "done"},
           sreq[r].ph \notin {"idle", "lookup", "create"},
           sreq[r].ph = "next" => sreq[r].todo = << >>,
           sreq[r].ph \in {"next", "done"} => p = "done",
           sreq' = [sreq EXCEPT ![r].ph = p], session' = session
    PROVE  RequestsInv'
<1>1. PICK q : q = sreq[r]
  OBVIOUS
<1>2. CallGood(q) /\ ItemsInv(q)
  BY <1>1 DEF VaultInductive, RequestsInv
<1>3. PICK n : n = [q EXCEPT !.ph = p]
  OBVIOUS
<1>4. CallGood(n) /\ n.who = q.who /\ n.items = q.items
  BY <1>1, <1>2, <1>3, PhaseGood
<1>5. ItemsInv(n)'
  BY <1>2, <1>4, SameItems, Stays
<1>6. sreq' = [sreq EXCEPT ![r] = n]
  BY <1>1, <1>3
<1>7. QED
  BY <1>4, <1>5, <1>6, OneMoves, Stays

\* A request ends, or one id of its batch does, with nothing created.
LEMMA SettledStep ==
    ASSUME VaultInductive, NEW r \in SReqs, sreq[r].ph \in {"next", "lookup", "create"},
           sreq[r].ph = "next" => sreq[r].todo # << >>,
           NEW item \in ItemType, InBatch(sreq[r]) => item.id = Head(sreq[r].todo), RowsStay,
           item.new # 0 => /\ item.new \in Sids /\ session'[item.new].st # "none"
                           /\ session'[item.new].parent = item.id
                           /\ session'[item.new].actor = sreq[r].who,
           sreq' = [sreq EXCEPT ![r] = Settled(sreq[r], item)]
    PROVE  RequestsInv'
<1>1. PICK q : q = sreq[r]
  OBVIOUS
<1>2. CallGood(q) /\ ItemsInv(q) /\ q \in CallType
  BY <1>1 DEF VaultInductive, RequestsInv
<1>3. PICK n : n = Settled(q, item)
  OBVIOUS
<1>4. CallGood(n) /\ n.who = q.who /\ n.items = Append(q.items, item)
  BY <1>1, <1>2, <1>3, SettledGood
<1>5. ItemsInv(n)'
  BY <1>1, <1>2, <1>4, OneMoreItem
<1>6. sreq' = [sreq EXCEPT ![r] = n]
  BY <1>1, <1>3
<1>7. QED
  BY <1>4, <1>5, <1>6, OneMoves

----------------------------------------------------------------------------
(* Credentials: each step *)

\* The tables, when no session row changes.
LEMMA TablesKept ==
    ASSUME TablesInv, session' = session, key' \in FernetKeys \cup {Off},
           cred' \in [Labels \X EnvNames -> CredType],
           revealed' \in Nat, logged' \in Nat, revealed' <= logged', faults' \in 0..MaxFaults
    PROVE  TablesInv'
<1>1. SidsInOrder'
  BY DEF TablesInv, SidsInOrder
<1>2. (\A s \in Sids : SessionOK(session[s]))'
  BY DEF TablesInv, SessionOK
<1>3. QED
  BY <1>1, <1>2 DEF TablesInv

LEMMA BeginKeeps ==
    ASSUME VaultInductive, NEW r \in SReqs, NEW op \in SOps, BeginCall(r, op)
    PROVE  VaultInductive'
<1>1. PICK n : CallGood(n) /\ n.items = << >> /\ sreq' = [sreq EXCEPT ![r] = n]
  BY BeginGood, VaultTypes
<1>2. RequestsInv'
  BY <1>1, NoItems, OneMoves, Stays DEF BeginCall
<1>3. TablesInv'
  BY TablesKept DEF VaultInductive, TablesInv, BeginCall
<1>4. QED
  BY <1>2, <1>3 DEF VaultInductive

LEMMA NextCallKeeps ==
    ASSUME VaultInductive, NEW r \in SReqs, NextCall(r)
    PROVE  VaultInductive'
<1>1. RequestsInv'
  BY RestingGood, NoItems, OneMoves, Stays DEF NextCall
<1>2. TablesInv'
  BY TablesKept DEF VaultInductive, TablesInv, NextCall
<1>3. QED
  BY <1>1, <1>2 DEF VaultInductive

LEMMA PutKeeps ==
    ASSUME VaultInductive, NEW r \in SReqs, Put(r)
    PROVE  VaultInductive'
<1>1. PICK q : q = sreq[r]
  OBVIOUS
<1>2. q.owner \in Labels /\ q.who \in Labels /\ q.spec \in EnvNames
  BY <1>1 DEF VaultInductive, RequestsInv, CallGood, WellFormed, Put
<1>3. PICK p \in {"note", "log", "done"} : p = IF key = Off THEN "done" ELSE "note"
  OBVIOUS
<1>4. RequestsInv'
  BY <1>3, PhaseStep DEF Put
<1>5. cred' \in [Labels \X EnvNames -> CredType]
  <2>1. PICK c \in CredType : c = cred[<<q.owner, q.spec>>]
    BY <1>2 DEF VaultInductive, TablesInv
  <2>2. c.n \in 0..MaxStored /\ c.n < MaxStored
    BY <1>1, <2>1 DEF CredType, Put
  <2>3. c.n + 1 \in 0..MaxStored
    BY <2>2, VaultConstants
  <2>4. PICK d \in CredType : d = [fp |-> key, by |-> q.who, n |-> c.n + 1]
    BY <1>2, <2>3 DEF VaultInductive, TablesInv, CredType
  <2>5. cred' = cred \/ cred' = [cred EXCEPT ![<<q.owner, q.spec>>] = d]
    BY <1>1, <2>1, <2>4 DEF Put
  <2>6. QED
    BY <1>2, <2>5 DEF VaultInductive, TablesInv
<1>6. TablesInv'
  BY <1>5, TablesKept DEF VaultInductive, TablesInv, Put
<1>7. QED
  BY <1>4, <1>6 DEF VaultInductive

LEMMA RemoveKeeps ==
    ASSUME VaultInductive, NEW r \in SReqs, RemoveCred(r)
    PROVE  VaultInductive'
<1>1. PICK q : q = sreq[r]
  OBVIOUS
<1>2. q.owner \in Labels /\ q.spec \in EnvNames
  BY <1>1 DEF VaultInductive, RequestsInv, CallGood, WellFormed, RemoveCred
<1>3. PICK p \in {"note", "log", "done"} : p = IF key = Off THEN "done" ELSE "note"
  OBVIOUS
<1>4. RequestsInv'
  BY <1>3, PhaseStep DEF RemoveCred
<1>5. cred' \in [Labels \X EnvNames -> CredType]
  <2>1. PICK c \in CredType : c = cred[<<q.owner, q.spec>>]
    BY <1>2 DEF VaultInductive, TablesInv
  <2>2. PICK d \in CredType : d = [c EXCEPT !.fp = Off]
    BY DEF CredType
  <2>3. cred' = cred \/ cred' = [cred EXCEPT ![<<q.owner, q.spec>>] = d]
    BY <1>1, <2>1, <2>2 DEF RemoveCred
  <2>4. QED
    BY <1>2, <2>3 DEF VaultInductive, TablesInv
<1>6. TablesInv'
  BY <1>5, TablesKept DEF VaultInductive, TablesInv, RemoveCred
<1>7. QED
  BY <1>4, <1>6 DEF VaultInductive

LEMMA ReadKeeps ==
    ASSUME VaultInductive, NEW r \in SReqs, ReadForReveal(r)
    PROVE  VaultInductive'
<1>1. PICK p \in {"note", "log", "done"} :
        p = IF key # Off /\ cred[<<sreq[r].owner, sreq[r].spec>>].fp = key THEN "log" ELSE "done"
  OBVIOUS
<1>2. RequestsInv'
  BY <1>1, PhaseStep DEF ReadForReveal
<1>3. TablesInv'
  BY TablesKept DEF VaultInductive, TablesInv, ReadForReveal
<1>4. QED
  BY <1>2, <1>3 DEF VaultInductive

LEMMA BatchEndsKeeps ==
    ASSUME VaultInductive, NEW r \in SReqs, BatchEnds(r)
    PROVE  VaultInductive'
<1>1. RequestsInv'
  BY PhaseStep DEF BatchEnds
<1>2. TablesInv'
  BY TablesKept DEF VaultInductive, TablesInv, BatchEnds
<1>3. QED
  BY <1>1, <1>2 DEF VaultInductive

LEMMA NoteKeeps ==
    ASSUME VaultInductive, NEW r \in SReqs, NEW fails \in BOOLEAN, NoteChange(r, fails),
           faults' \in 0..MaxFaults
    PROVE  VaultInductive'
<1>1. RequestsInv'
  BY PhaseStep DEF NoteChange
<1>2. TablesInv'
  BY TablesKept DEF VaultInductive, TablesInv, NoteChange
<1>3. QED
  BY <1>1, <1>2 DEF VaultInductive

LEMMA RevealKeeps ==
    ASSUME VaultInductive, NEW r \in SReqs, NEW fails \in BOOLEAN, LogAndReveal(r, fails),
           faults' \in 0..MaxFaults
    PROVE  VaultInductive'
<1>1. RequestsInv'
  BY PhaseStep DEF LogAndReveal
<1>2. revealed' \in Nat /\ logged' \in Nat /\ revealed' <= logged'
  BY DEF VaultInductive, TablesInv, LogAndReveal
<1>3. TablesInv'
  BY <1>2, TablesKept DEF VaultInductive, TablesInv, LogAndReveal
<1>4. QED
  BY <1>1, <1>3 DEF VaultInductive

LEMMA RestartKeeps ==
    ASSUME VaultInductive, NEW k \in FernetKeys \cup {Off}, Restart(k)
    PROVE  VaultInductive'
<1>1. sreq' \in [SReqs -> CallType] /\ \A r \in SReqs : sreq'[r] = Resting
  BY VaultConstants DEF Restart
<1>2. ItemsInv(Resting)'
  BY RestingGood, NoItems
<1>3. ASSUME NEW r \in SReqs
      PROVE  (CallGood(sreq[r]) /\ ItemsInv(sreq[r]))'
  <2>1. CallGood(sreq'[r])
    BY <1>1, RestingGood
  <2>2. ItemsInv(sreq[r])'
    BY <1>1, <1>2 DEF ItemsInv
  <2>3. QED
    BY <2>1, <2>2
<1>4. RequestsInv'
  BY <1>1, <1>3 DEF RequestsInv
<1>5. faults' \in 0..MaxFaults
  BY VaultConstants DEF VaultInductive, TablesInv, Restart
<1>6. TablesInv'
  BY <1>5, TablesKept DEF VaultInductive, TablesInv, Restart
<1>7. QED
  BY <1>4, <1>6 DEF VaultInductive

LEMMA ItemIs ==
    ASSUME NEW s \in Sids \cup {0}, NEW o \in Outcomes, NEW j \in Sids \cup {0}
    PROVE  Item(s, o, j) \in ItemType /\ Item(s, o, j).id = s /\ Item(s, o, j).new = j
  BY DEF Item, ItemType

LEMMA BatchNextKeeps ==
    ASSUME VaultInductive, NEW r \in SReqs, NEW fails \in BOOLEAN, BatchNext(r, fails),
           faults' \in 0..MaxFaults
    PROVE  VaultInductive'
<1>1. PICK q : q = sreq[r]
  OBVIOUS
<1>2. CallGood(q) /\ ItemsInv(q) /\ q \in CallType /\ q.ph = "next" /\ q.todo # << >>
  BY <1>1 DEF VaultInductive, RequestsInv, BatchNext
<1>3. InBatch(q)
  BY <1>2 DEF CallGood, BatchInv
<1>4. PICK s \in Sids : s = Head(q.todo)
  BY <1>2, CallShape, RestOf
<1>5. ASSUME NEW o \in Outcomes, sreq' = [sreq EXCEPT ![r] = Settled(q, Item(s, o, 0))], RowsStay
      PROVE  RequestsInv'
  <2>1. PICK item \in ItemType : item = Item(s, o, 0) /\ item.id = s /\ item.new = 0
    BY ItemIs
  <2>2. QED
    BY <1>1, <1>2, <1>4, <1>5, <2>1, SettledStep
<1>6. ASSUME session' = session
      PROVE  TablesInv'
  BY <1>6, TablesKept DEF VaultInductive, TablesInv, BatchNext
<1>7. \/ /\ \E o \in Outcomes : sreq' = [sreq EXCEPT ![r] = Settled(q, Item(s, o, 0))]
         /\ session' = session
      \/ /\ session[s].st # "none" /\ session' = [session EXCEPT ![s].st = "cancelled"]
         /\ sreq' = [sreq EXCEPT ![r] = Settled(q, Item(s, "ok", 0))]
      \/ sreq' = [sreq EXCEPT ![r] = Retry(q, s)] /\ session' = session
  BY <1>1, <1>4 DEF BatchNext, Outcomes
<1>8. CASE /\ \E o \in Outcomes : sreq' = [sreq EXCEPT ![r] = Settled(q, Item(s, o, 0))]
           /\ session' = session
  BY <1>5, <1>6, <1>8, Stays DEF VaultInductive
<1>9. CASE /\ session[s].st # "none" /\ session' = [session EXCEPT ![s].st = "cancelled"]
           /\ sreq' = [sreq EXCEPT ![r] = Settled(q, Item(s, "ok", 0))]
  <2>1. PICK x \in SessionType : x = session[s]
    BY DEF VaultInductive, TablesInv
  <2>2. PICK y : y = [x EXCEPT !.st = "cancelled"]
    OBVIOUS
  <2>3. /\ y \in SessionType /\ y.st = "cancelled" /\ y.parent = x.parent /\ y.actor = x.actor
        /\ y.env = x.env /\ y.row = x.row
    BY <2>1, <2>2 DEF SessionType
  <2>4. session \in [Sids -> SessionType] /\ session' = [session EXCEPT ![s] = y]
    BY <1>9, <2>1, <2>2 DEF VaultInductive, TablesInv
  <2>5. RowsStay
    BY <2>1, <2>3, <2>4 DEF RowsStay
  <2>6. RequestsInv'
    <3>1. "ok" \in Outcomes
      BY DEF Outcomes
    <3>2. QED
      BY <1>5, <1>9, <2>5, <3>1
  <2>7. session' \in [Sids -> SessionType]
    BY <2>3, <2>4
  <2>8. SidsInOrder'
    <3>1. \A v \in Sids : session'[v].st # "none" <=> session[v].st # "none"
      BY <1>9, <2>1, <2>3, <2>4
    <3>2. {v \in Sids : session'[v].st # "none"} = {v \in Sids : session[v].st # "none"}
      BY <3>1
    <3>3. QED
      BY <3>2 DEF VaultInductive, TablesInv, SidsInOrder
  <2>9. (\A v \in Sids : SessionOK(session[v]))'
    <3>1. SessionOK(x) /\ x.st # "none"
      BY <1>9, <2>1 DEF VaultInductive, TablesInv
    <3>2. SessionOK(y)
      BY <2>3, <3>1 DEF SessionOK
    <3>3. \A v \in Sids : session'[v] = y \/ session'[v] = session[v]
      BY <2>4
    <3>4. \A v \in Sids : SessionOK(session'[v])
      BY <3>2, <3>3 DEF VaultInductive, TablesInv
    <3>5. QED
      BY <3>4
  <2>10. TablesInv'
    BY <2>7, <2>8, <2>9 DEF VaultInductive, TablesInv, BatchNext
  <2>11. QED
    BY <2>6, <2>10 DEF VaultInductive
<1>10. CASE sreq' = [sreq EXCEPT ![r] = Retry(q, s)] /\ session' = session
  <2>1. PICK n : n = Retry(q, s)
    OBVIOUS
  <2>2. CallGood(n) /\ n.who = q.who /\ n.items = q.items
    BY <1>2, <1>3, <1>4, <2>1, RetryGood, VaultTypes
  <2>3. ItemsInv(n)'
    BY <1>2, <1>10, <2>2, SameItems, Stays
  <2>4. RequestsInv'
    BY <1>10, <2>1, <2>2, <2>3, OneMoves, Stays
  <2>5. QED
    BY <1>6, <1>10, <2>4 DEF VaultInductive
<1>11. QED
  BY <1>7, <1>8, <1>9, <1>10

LEMMA LookUpKeeps ==
    ASSUME VaultInductive, NEW r \in SReqs, NEW fails \in BOOLEAN, LookUp(r, fails),
           faults' \in 0..MaxFaults
    PROVE  VaultInductive'
<1>1. PICK q : q = sreq[r]
  OBVIOUS
<1>2. /\ CallGood(q) /\ ItemsInv(q) /\ q \in CallType /\ q.who \in Labels /\ q.ph = "lookup"
      /\ q.parent \in Sids \cup {0}
  BY <1>1 DEF VaultInductive, RequestsInv, CallGood, WellFormed, LookUp, CallType
<1>3. PICK db \in {NoEnv, GetForUser(q)} : db = IF fails THEN NoEnv ELSE GetForUser(q)
  OBVIOUS
<1>4. PICK env : env = Merged(db, q.body)
  OBVIOUS
<1>5. env \in Envs /\ \A e \in EnvNames : env[e].of \in {"none", "body", q.who}
  BY <1>2, <1>4, MergedIs, VaultTypes
<1>6. PICK s \in Sids \cup {0} : s = IF InBatch(q) THEN q.parent ELSE 0
  BY <1>2
<1>7. InBatch(q) => s = Head(q.todo)
  BY <1>2, <1>6 DEF CallGood, BatchInv
<1>8. TablesInv'
  BY TablesKept DEF VaultInductive, TablesInv, LookUp
<1>9. session' = session
  BY DEF LookUp
<1>10. \/ \E o \in Outcomes : sreq' = [sreq EXCEPT ![r] = Settled(q, Item(s, o, 0))]
       \/ /\ Strict /\ RoleOf[q.who] # "admin" => BundleIsComplete(env)
          /\ sreq' = [sreq EXCEPT ![r] = [q EXCEPT !.env = env, !.ph = "create"]]
  <2>1. sreq' = [sreq EXCEPT ![r] =
                   IF fails /\ Strict THEN Settled(q, Item(s, "lookup_unavailable", 0))
                   ELSE IF Strict /\ RoleOf[q.who] # "admin" /\ ~BundleIsComplete(env)
                   THEN Settled(q, Item(s, "missing_credentials", 0))
                   ELSE [q EXCEPT !.env = env, !.ph = "create"]]
    BY <1>1, <1>3, <1>4, <1>6 DEF LookUp
  <2>2. QED
    BY <2>1 DEF Outcomes
<1>11. CASE \E o \in Outcomes : sreq' = [sreq EXCEPT ![r] = Settled(q, Item(s, o, 0))]
  <2>1. PICK o \in Outcomes : sreq' = [sreq EXCEPT ![r] = Settled(q, Item(s, o, 0))]
    BY <1>11
  <2>2. PICK item \in ItemType : item = Item(s, o, 0) /\ item.id = s /\ item.new = 0
    BY ItemIs
  <2>3. RequestsInv'
    BY <1>1, <1>2, <1>7, <1>9, <2>1, <2>2, SettledStep, Stays
  <2>4. QED
    BY <1>8, <2>3 DEF VaultInductive
<1>12. CASE /\ Strict /\ RoleOf[q.who] # "admin" => BundleIsComplete(env)
            /\ sreq' = [sreq EXCEPT ![r] = [q EXCEPT !.env = env, !.ph = "create"]]
  <2>1. PICK n : n = [q EXCEPT !.env = env, !.ph = "create"]
    OBVIOUS
  <2>2. CallGood(n) /\ n.who = q.who /\ n.items = q.items
    BY <1>2, <1>5, <1>12, <2>1, BundleGood, VaultTypes
  <2>3. ItemsInv(n)'
    BY <1>2, <1>9, <2>2, SameItems, Stays
  <2>4. RequestsInv'
    BY <1>9, <1>12, <2>1, <2>2, <2>3, OneMoves, Stays
  <2>5. QED
    BY <1>8, <2>4 DEF VaultInductive
<1>13. QED
  BY <1>10, <1>11, <1>12

\* The next session id is free: the rows so far are 1..k and it is k + 1.
LEMMA NextSidIsFree ==
    ASSUME TablesInv
    PROVE  \E k \in 0..Cardinality(Sids) : /\ {s \in Sids : session[s].st # "none"} = 1..k
                                           /\ NextSid = k + 1
<1>1. PICK k \in 0..Cardinality(Sids) : {s \in Sids : session[s].st # "none"} = 1..k
  BY DEF TablesInv, SidsInOrder
<1>2. k \in Nat
  BY VaultConstants
<1>3. Cardinality(1..k) = k
  BY <1>2, FS_Interval
<1>4. QED
  BY <1>1, <1>3 DEF NextSid

LEMMA CreateKeeps ==
    ASSUME VaultInductive, NEW r \in SReqs, NEW fails \in BOOLEAN, Create(r, fails),
           faults' \in 0..MaxFaults
    PROVE  VaultInductive'
<1>1. PICK q : q = sreq[r]
  OBVIOUS
<1>2. /\ CallGood(q) /\ ItemsInv(q) /\ q \in CallType /\ q.who \in Labels /\ q.ph = "create"
      /\ q.parent \in Sids \cup {0}
  BY <1>1 DEF VaultInductive, RequestsInv, CallGood, WellFormed, Create, CallType
<1>3. PICK s \in Sids \cup {0} : s = IF InBatch(q) THEN q.parent ELSE 0
  BY <1>2
<1>4. (InBatch(q) => s = Head(q.todo)) /\ s = q.parent
  BY <1>2, <1>3 DEF CallGood, BatchInv
<1>5. CASE fails
  <2>1. /\ session' = session /\ "internal" \in Outcomes
        /\ sreq' = [sreq EXCEPT ![r] = Settled(q, Item(s, "internal", 0))]
    BY <1>1, <1>3, <1>5 DEF Create, Outcomes
  <2>2. PICK item \in ItemType : item = Item(s, "internal", 0) /\ item.id = s /\ item.new = 0
    BY <2>1, ItemIs
  <2>3. RequestsInv'
    BY <1>1, <1>2, <1>4, <2>1, <2>2, SettledStep, Stays
  <2>4. TablesInv'
    BY <2>1, TablesKept DEF VaultInductive, TablesInv, Create
  <2>5. QED
    BY <2>3, <2>4 DEF VaultInductive
<1>6. CASE ~fails
  <2>1. PICK k \in 0..Cardinality(Sids) : /\ {v \in Sids : session[v].st # "none"} = 1..k
                                          /\ NextSid = k + 1
    BY NextSidIsFree DEF VaultInductive
  <2>2. PICK j \in Sids : j = NextSid
    BY <1>6 DEF Create
  <2>3. j = k + 1 /\ k \in Nat /\ session[j].st = "none"
    <3>1. k \in Nat /\ j = k + 1
      BY <2>1, <2>2, VaultConstants
    <3>2. j \notin 1..k
      BY <3>1
    <3>3. QED
      BY <2>1, <3>1, <3>2
  <2>4. PICK x : x = [st |-> "row", owner |-> q.owner, actor |-> q.who, parent |-> q.parent,
                      env |-> q.env, row |-> Redact(q.spec), runs |-> q.spec]
    OBVIOUS
  <2>5. Redact(q.spec) \in Specs /\ Redact(q.spec) # "secret"
    BY <1>2, CallShape DEF Redact, Specs
  <2>6. /\ x \in SessionType /\ x.st = "row" /\ x.parent = q.parent /\ x.actor = q.who
        /\ x.env = q.env /\ x.row = Redact(q.spec)
    BY <1>2, <2>4, <2>5, CallShape DEF SessionType
  <2>7. /\ session \in [Sids -> SessionType] /\ session' = [session EXCEPT ![j] = x]
        /\ sreq' = [sreq EXCEPT ![r] = Settled(q, Item(s, "ok", j))]
    BY <1>1, <1>3, <1>6, <2>2, <2>4 DEF VaultInductive, TablesInv, Create
  <2>8. RowsStay
    BY <2>3, <2>7 DEF RowsStay
  <2>9. RequestsInv'
    <3>1. PICK item \in ItemType : item = Item(s, "ok", j) /\ item.id = s /\ item.new = j
      BY ItemIs DEF Outcomes
    <3>2. session'[j] = x
      BY <2>7
    <3>3. QED
      BY <1>1, <1>2, <1>4, <2>6, <2>7, <2>8, <3>1, <3>2, SettledStep
  <2>10. session' \in [Sids -> SessionType]
    BY <2>6, <2>7
  <2>11. SidsInOrder'
    <3>1. \A v \in Sids : session'[v].st # "none" <=> session[v].st # "none" \/ v = j
      BY <2>6, <2>7
    <3>2. \A v \in Sids : session[v].st # "none" <=> v \in 1..k
      BY <2>1
    <3>3. 1..(k + 1) \subseteq Sids /\ \A v \in Nat : v \in 1..(k + 1) <=> v \in 1..k \/ v = k + 1
      BY <2>3, VaultConstants
    <3>4. \A v \in Sids : session'[v].st # "none" <=> v \in 1..(k + 1)
      BY <2>3, <3>1, <3>2, <3>3, VaultConstants
    <3>5. {v \in Sids : session'[v].st # "none"} = 1..(k + 1)
      BY <3>3, <3>4
    <3>6. k + 1 \in 0..Cardinality(Sids)
      BY <2>3, VaultConstants
    <3>7. QED
      BY <3>5, <3>6 DEF SidsInOrder
  <2>12. (\A v \in Sids : SessionOK(session[v]))'
    <3>1. BundleInv(q)
      BY <1>2 DEF CallGood
    <3>2. SessionOK(x)
      BY <1>2, <2>5, <2>6, <3>1 DEF SessionOK, BundleInv
    <3>3. \A v \in Sids : session'[v] = x \/ session'[v] = session[v]
      BY <2>7
    <3>4. \A v \in Sids : SessionOK(session'[v])
      BY <3>2, <3>3 DEF VaultInductive, TablesInv
    <3>5. QED
      BY <3>4
  <2>13. TablesInv'
    BY <2>10, <2>11, <2>12 DEF VaultInductive, TablesInv, Create
  <2>14. QED
    BY <2>9, <2>13 DEF VaultInductive
<1>7. QED
  BY <1>5, <1>6

LEMMA VaultStart ==
    ASSUME CredInit
    PROVE  VaultInductive
<1>1. ASSUME NEW s \in Sids
      PROVE  session[s] = NoSession /\ SessionOK(session[s]) /\ session[s].st = "none"
  <2>1. session[s] = NoSession
    BY DEF CredInit
  <2>2. QED
    BY <2>1 DEF NoSession, SessionOK
<1>2. SidsInOrder
  <2>1. {s \in Sids : session[s].st # "none"} = {} /\ 1..0 = {}
    BY <1>1
  <2>2. 0 \in 0..Cardinality(Sids)
    BY VaultConstants
  <2>3. QED
    BY <2>1, <2>2 DEF SidsInOrder
<1>3. ASSUME NEW r \in SReqs
      PROVE  CallGood(sreq[r]) /\ ItemsInv(sreq[r])
  <2>1. sreq[r] = Resting /\ sreq[r].items = << >>
    BY RestingGood DEF CredInit
  <2>2. 1..Len(sreq[r].items) = {}
    BY <2>1
  <2>3. QED
    BY <2>1, <2>2, RestingGood DEF ItemsInv
<1>4. RequestsInv
  BY <1>3, VaultConstants DEF RequestsInv, CredInit
<1>5. TablesInv
  BY <1>1, <1>2, VaultConstants DEF TablesInv, CredInit
<1>6. QED
  BY <1>4, <1>5 DEF VaultInductive

LEMMA VaultStep ==
    ASSUME VaultInductive, [CredNext]_credVars
    PROVE  VaultInductive'
<1>1. ASSUME NEW r \in SReqs, Statement(r)
      PROVE  VaultInductive'
  <2>1. PICK fails \in BOOLEAN :
          /\ fails => faults < MaxFaults
          /\ faults' = IF fails THEN faults + 1 ELSE faults
          /\ \/ BatchNext(r, fails) \/ LookUp(r, fails) \/ Create(r, fails)
             \/ NoteChange(r, fails) \/ LogAndReveal(r, fails)
    BY <1>1 DEF Statement
  <2>2. faults \in 0..MaxFaults /\ MaxFaults \in Nat
    BY VaultConstants DEF VaultInductive, TablesInv
  <2>3. faults' \in 0..MaxFaults
    BY <2>1, <2>2
  <2>4. QED
    BY <2>1, <2>3, BatchNextKeeps, LookUpKeeps, CreateKeeps, NoteKeeps, RevealKeeps
<1>2. CASE UNCHANGED credVars
  <2>1. TablesInv'
    BY <1>2, TablesKept DEF VaultInductive, TablesInv, credVars
  <2>2. RequestsInv'
    BY <1>2 DEF VaultInductive, RequestsInv, ItemsInv, credVars
  <2>3. QED
    BY <2>1, <2>2 DEF VaultInductive
<1>3. QED
  BY <1>1, <1>2, BeginKeeps, PutKeeps, RemoveKeeps, ReadKeeps, BatchEndsKeeps, NextCallKeeps,
     RestartKeeps DEF CredNext

LEMMA VaultIsInductive == CredSpec => []VaultInductive
  BY VaultStart, VaultStep, PTL DEF CredSpec

LEMMA VaultShows ==
    ASSUME VaultInductive
    PROVE  CredInv
<1>1. CredTypeOK
  <2>1. \A s \in Sids : session[s] \in SessionType
    BY DEF VaultInductive, TablesInv
  <2>2. \A s \in Sids : /\ session[s].st \in {"none", "row", "cancelled"}
                        /\ session[s].env \in Envs /\ session[s].parent \in Sids \cup {0}
    BY <2>1 DEF SessionType
  <2>3. \A r \in SReqs : sreq[r].ph \in CallPhase /\ sreq[r].env \in Envs
    BY CallShape DEF VaultInductive, RequestsInv
  <2>4. QED
    BY <2>2, <2>3 DEF VaultInductive, TablesInv, CredTypeOK, CredType, CallPhase
<1>2. \A s \in Sids : SessionOK(session[s])
  BY DEF VaultInductive, TablesInv
<1>3. CredsAreTheActors /\ NoSecretStored /\ NoRevealUnlogged
  BY <1>2 DEF CredsAreTheActors, NoSecretStored, SessionOK, NoRevealUnlogged, VaultInductive, TablesInv
<1>4. StrictNeedsBundle
  BY <1>2 DEF StrictNeedsBundle, SessionOK, BundleIsComplete
<1>5. QED
  BY <1>1, <1>3, <1>4 DEF CredInv

LEMMA BatchesShow ==
    ASSUME VaultInductive
    PROVE  BatchAnswersEveryId
<1>1. SUFFICES ASSUME NEW r \in SReqs
               PROVE  LET q == sreq[r] IN
                 /\ (InBatch(q) /\ q.ph = "done") =>
                      \E op \in SOps : op.do = q.do /\ op.who = q.who
                                       /\ op.ids = [n \in DOMAIN q.items |-> q.items[n].id]
                 /\ \A n \in DOMAIN q.items : q.items[n].new # 0 =>
                      /\ session[q.items[n].new].parent = q.items[n].id
                      /\ session[q.items[n].new].actor = q.who
  BY DEF BatchAnswersEveryId
<1>2. PICK q : q = sreq[r]
  OBVIOUS
<1>3. CallGood(q) /\ ItemsInv(q) /\ q \in CallType
  BY <1>2 DEF VaultInductive, RequestsInv
<1>4. PICK a \in Seq(ItemType) : a = q.items
  BY <1>3, CallShape
<1>5. DOMAIN a = 1..Len(a) /\ Len(a) \in Nat
  OBVIOUS
<1>6. ASSUME InBatch(q), q.ph = "done"
      PROVE  \E op \in SOps : op.do = q.do /\ op.who = q.who
                              /\ op.ids = [n \in DOMAIN a |-> a[n].id]
  <2>1. q.todo = << >> /\ \E op \in SOps : Progress(q, op)
    BY <1>3, <1>6 DEF CallGood, BatchInv
  <2>2. PICK op \in SOps : Progress(q, op)
    BY <2>1
  <2>3. PICK ids \in Seq(Sids) : ids = op.ids
    BY CallsAssumption
  <2>4. Len(q.todo) = 0
    BY <2>1
  <2>5. /\ op.do = q.do /\ op.who = q.who /\ Len(ids) = Len(a)
        /\ \A n \in 1..Len(a) : a[n].id = ids[n]
    BY <1>4, <1>5, <2>2, <2>3, <2>4 DEF Progress
  <2>6. ids = [n \in DOMAIN a |-> a[n].id]
    <3>1. ids = [n \in 1..Len(ids) |-> ids[n]]
      OBVIOUS
    <3>2. QED
      BY <1>5, <2>5, <3>1
  <2>7. QED
    BY <2>3, <2>5, <2>6
<1>7. \A n \in DOMAIN a : a[n].new # 0 =>
        session[a[n].new].parent = a[n].id /\ session[a[n].new].actor = q.who
  BY <1>3, <1>4, <1>5 DEF ItemsInv
<1>8. QED
  BY <1>2, <1>4, <1>6, <1>7

\* A session runs with what its own caller has stored or sent and nobody
\* else's, under strict mode with an API key at least, nothing secret reaches
\* the sessions table and no plaintext is shown before its audit row, for every
\* interleaving of submits, retries, puts, deletes, reveals, failing statements
\* and restarts with other keys (manager.submit, retry_session, the
\* credentials store and the reveal endpoint).
THEOREM CredentialsStayTheirOwners == CredSpec => []CredInv
  BY VaultIsInductive, VaultShows, PTL

\* A batch that has ended answers every id it was asked about, once and in
\* order, however each of them failed, and the session it names for a retry is
\* that id's child, started by the caller (api/routers/sessions.py, batch).
THEOREM BatchesAnswerEveryId == CredSpec => []BatchAnswersEveryId
  BY VaultIsInductive, BatchesShow, PTL

----------------------------------------------------------------------------
(* Retention: types and the steps of the relay *)

Stamps == {Gone, Unresolved} \cup 0..MaxDay
JobType == [ph : {"idle", "select", "delete", "done"}, at : 1..(Len(Order) + 1), now : 0..MaxDay,
            dry : BOOLEAN, ids : SUBSET Keys, total : Nat]

JobInv(q) == q \in JobType /\ JobShape(q) /\ SelectionInv(q) /\ SweepInv(q)

ShelvesInv ==
    /\ day \in 0..MaxDay
    /\ shelf \in [Shelves -> [Keys -> Stamps]]
    /\ lastKey \in [Shelves -> 0..MaxKey] /\ KeysAreFresh
    /\ removed \in Nat

RetentionInductive == ShelvesInv /\ job \in [Jobs -> JobType] /\ \A j \in Jobs : JobInv(job[j])

LEMMA RetentionConstants ==
    /\ MaxDay \in Nat /\ MaxKey \in Nat /\ BatchSize \in Nat \ {0} /\ Len(Order) \in Nat \ {0}
    /\ \A t \in Shelves : KeepDays[t] \in Nat
    /\ \A n \in 1..Len(Order) : Order[n] \in Shelves
    /\ \A t \in Shelves : \E n \in 1..Len(Order) : t = Order[n]
    /\ Keys \subseteq Nat
    /\ \A S \in SUBSET Keys : IsFiniteSet(S) /\ Cardinality(S) \in Nat
<1>1. MaxKey \in Nat
  BY RetentionAssumption
<1>2. IsFiniteSet(Keys)
  BY <1>1, FS_Interval DEF Keys
<1>3. \A S \in SUBSET Keys : IsFiniteSet(S) /\ Cardinality(S) \in Nat
  BY <1>2, FS_Subset, FS_CardinalityType
<1>4. \A t \in Shelves : \E n \in 1..Len(Order) : t = Order[n]
  BY DEF Shelves
<1>5. QED
  BY <1>1, <1>3, <1>4, RetentionAssumption DEF Shelves, Keys

\* How a row may change: it goes, an unresolved one is resolved today, or a new
\* one is inserted under a key that was never used.
RowMoves(t, k) ==
    \/ shelf'[t][k] = shelf[t][k] \/ shelf'[t][k] = Gone
    \/ shelf[t][k] = Unresolved /\ shelf'[t][k] = day
    \/ k > lastKey[t] /\ k <= lastKey'[t] /\ shelf'[t][k] \in {Unresolved, day}

TimePasses ==
    /\ day' \in 0..MaxDay /\ day <= day'
    /\ shelf' \in [Shelves -> [Keys -> Stamps]] /\ lastKey' \in [Shelves -> 0..MaxKey]
    /\ \A t \in Shelves : lastKey[t] <= lastKey'[t]
    /\ \A t \in Shelves, k \in Keys : RowMoves(t, k)

\* Nothing becomes old for a run that is under way.
LEMMA NothingAges ==
    ASSUME ShelvesInv, TimePasses, NEW t \in Shelves, NEW k \in Keys, NEW now \in 0..MaxDay,
           now <= day, Old(t, k, now)'
    PROVE  Old(t, k, now) /\ shelf'[t][k] = shelf[t][k]
<1>1. PICK x \in Stamps, y \in Stamps : x = shelf[t][k] /\ y = shelf'[t][k]
  BY DEF ShelvesInv, TimePasses
<1>2. y >= 0 /\ y < now - KeepDays[t] /\ KeepDays[t] \in Nat /\ now \in Nat /\ day \in Nat
  BY <1>1, RetentionConstants DEF Old, ShelvesInv
<1>3. y # Gone /\ y # Unresolved /\ y # day
  BY <1>2 DEF Gone, Unresolved
<1>4. y = x
  BY <1>1, <1>3 DEF TimePasses, RowMoves
<1>5. QED
  BY <1>1, <1>2, <1>4 DEF Old

\* What a batch has selected stays due, or goes.
LEMMA SelectionStays ==
    ASSUME ShelvesInv, TimePasses, NEW t \in Shelves, NEW k \in Keys, NEW now \in 0..MaxDay,
           k <= lastKey[t], shelf[t][k] = Gone \/ Old(t, k, now)
    PROVE  k <= lastKey'[t] /\ (shelf'[t][k] = Gone \/ Old(t, k, now)')
<1>1. PICK x \in Stamps, y \in Stamps : x = shelf[t][k] /\ y = shelf'[t][k]
  BY DEF ShelvesInv, TimePasses
<1>2. k \in Nat /\ lastKey[t] \in Nat /\ lastKey'[t] \in Nat /\ lastKey[t] <= lastKey'[t]
  BY RetentionConstants DEF ShelvesInv, TimePasses
<1>3. x = Gone \/ x >= 0
  BY <1>1 DEF Old
<1>4. y = x \/ y = Gone
  <2>1. ~(k > lastKey[t])
    BY <1>2
  <2>2. x # Unresolved
    BY <1>3 DEF Gone, Unresolved
  <2>3. QED
    BY <1>1, <2>1, <2>2 DEF TimePasses, RowMoves
<1>5. y = Gone \/ Old(t, k, now)'
  BY <1>1, <1>4 DEF Old
<1>6. QED
  BY <1>1, <1>2, <1>5

\* A run that does not move keeps its place.
LEMMA JobKept ==
    ASSUME ShelvesInv, TimePasses, NEW q, JobInv(q)
    PROVE  JobInv(q)'
<1>1. /\ q \in JobType /\ q.now \in 0..MaxDay /\ q.ids \in SUBSET Keys /\ q.at \in 1..(Len(Order) + 1)
      /\ q.now <= day /\ JobShape(q)
  BY DEF JobInv, JobType, JobShape
<1>2. JobShape(q)'
  BY <1>1 DEF JobShape, TimePasses, ShelvesInv
<1>3. q.ph = "delete" => Order[q.at] \in Shelves
  BY <1>1, RetentionConstants DEF JobShape
<1>4. SelectionInv(q)'
  <2>1. SUFFICES ASSUME q.ph = "delete", NEW k \in q.ids
                 PROVE  LET t == Order[q.at] IN
                        k <= lastKey'[t] /\ (shelf'[t][k] = Gone \/ Old(t, k, q.now)')
    BY DEF SelectionInv
  <2>2. PICK t \in Shelves : t = Order[q.at]
    BY <1>3, <2>1
  <2>3. k <= lastKey[t] /\ (shelf[t][k] = Gone \/ Old(t, k, q.now))
    BY <2>1, <2>2 DEF JobInv, SelectionInv
  <2>4. QED
    BY <1>1, <2>2, <2>3, SelectionStays
<1>5. SweepInv(q)'
  <2>1. SUFFICES ASSUME q.ph # "idle", ~q.dry
                 PROVE  /\ \A n \in 1..Len(Order), k \in Keys : n < q.at => ~Old(Order[n], k, q.now)'
                        /\ (q.ph = "delete" /\ LastBatch(q.ids)) =>
                             \A k \in Keys : Old(Order[q.at], k, q.now)' => k \in q.ids
    BY DEF SweepInv, LastBatch
  <2>2. /\ \A n \in 1..Len(Order), k \in Keys : n < q.at => ~Old(Order[n], k, q.now)
        /\ (q.ph = "delete" /\ LastBatch(q.ids)) =>
             \A k \in Keys : Old(Order[q.at], k, q.now) => k \in q.ids
    BY <2>1 DEF JobInv, SweepInv
  <2>3. \A n \in 1..Len(Order), k \in Keys : n < q.at => ~Old(Order[n], k, q.now)'
    BY <1>1, <2>2, NothingAges, RetentionConstants
  <2>4. (q.ph = "delete" /\ LastBatch(q.ids)) =>
             \A k \in Keys : Old(Order[q.at], k, q.now)' => k \in q.ids
    BY <1>1, <1>3, <2>2, NothingAges
  <2>5. QED
    BY <2>3, <2>4
<1>6. QED
  BY <1>1, <1>2, <1>4, <1>5 DEF JobInv

LEMMA ShelvesKept ==
    ASSUME ShelvesInv, TimePasses, removed' \in Nat
    PROVE  ShelvesInv'
<1>1. ASSUME NEW t \in Shelves, NEW k \in Keys, k > lastKey'[t]
      PROVE  shelf'[t][k] = Gone
  <2>1. k \in Nat /\ lastKey[t] \in Nat /\ lastKey'[t] \in Nat /\ lastKey[t] <= lastKey'[t]
    BY RetentionConstants DEF ShelvesInv, TimePasses
  <2>2. shelf[t][k] = Gone /\ ~(k <= lastKey'[t])
    BY <1>1, <2>1 DEF ShelvesInv, KeysAreFresh
  <2>3. QED
    BY <2>2 DEF TimePasses, RowMoves, Gone, Unresolved
<1>2. KeysAreFresh'
  BY <1>1 DEF KeysAreFresh
<1>3. QED
  BY <1>2 DEF ShelvesInv, TimePasses

\* One run moves, or none.
LEMMA OneJobMoves ==
    ASSUME RetentionInductive, TimePasses, removed' \in Nat, NEW j \in Jobs, NEW n, JobInv(n)',
           job' = [job EXCEPT ![j] = n]
    PROVE  RetentionInductive'
<1>1. n \in JobType
  BY DEF JobInv
<1>2. job \in [Jobs -> JobType] /\ job' \in [Jobs -> JobType]
  BY <1>1 DEF RetentionInductive
<1>3. ASSUME NEW i \in Jobs
      PROVE  JobInv(job[i])'
  <2>1. PICK m : m = job'[i]
    OBVIOUS
  <2>2. JobInv(m)'
    <3>1. CASE i = j
      BY <1>2, <2>1, <3>1
    <3>2. CASE i # j
      <4>1. m = job[i] /\ JobInv(job[i])
        BY <1>2, <2>1, <3>2 DEF RetentionInductive
      <4>2. JobInv(m)
        BY <4>1
      <4>3. QED
        BY <4>2, JobKept DEF RetentionInductive
    <3>3. QED
      BY <3>1, <3>2
  <2>3. QED
    BY <2>1, <2>2 DEF JobInv, JobShape, SelectionInv, SweepInv, Old
<1>4. QED
  BY <1>2, <1>3, ShelvesKept DEF RetentionInductive

LEMMA NoJobMoves ==
    ASSUME RetentionInductive, TimePasses, removed' \in Nat, job' = job
    PROVE  RetentionInductive'
<1>1. ASSUME NEW i \in Jobs
      PROVE  JobInv(job[i])'
  <2>1. PICK m : m = job[i]
    OBVIOUS
  <2>2. JobInv(m)
    BY <2>1 DEF RetentionInductive
  <2>3. JobInv(m)'
    BY <2>2, JobKept DEF RetentionInductive
  <2>4. QED
    BY <2>1, <2>3 DEF JobInv, JobShape, SelectionInv, SweepInv, Old
<1>2. QED
  BY <1>1, ShelvesKept DEF RetentionInductive

LEMMA NothingMoves ==
    ASSUME ShelvesInv, shelf' = shelf, lastKey' = lastKey, day' = day
    PROVE  TimePasses
<1>1. \A t \in Shelves : lastKey[t] \in Nat
  BY DEF ShelvesInv
<1>2. day \in Nat
  BY DEF ShelvesInv
<1>3. QED
  BY <1>1, <1>2 DEF TimePasses, RowMoves, ShelvesInv

LEMMA InsertKeeps ==
    ASSUME KeysRecycled = {}, RetentionInductive, NEW t \in Shelves, Insert(t)
    PROVE  RetentionInductive'
<1>1. PICK m \in 0..MaxKey : m = lastKey[t]
  BY DEF RetentionInductive, ShelvesInv
<1>2. NextKey(t) = m + 1
  BY <1>1 DEF NextKey
<1>3. PICK c \in Keys : c = m + 1
  BY <1>2 DEF Insert
<1>4. PICK v \in {Unresolved, day} : v = IF t = "hitl_requests" THEN Unresolved ELSE day
  OBVIOUS
<1>5. v \in Stamps
  BY DEF Stamps, RetentionInductive, ShelvesInv
<1>6. PICK old \in [Keys -> Stamps] : old = shelf[t]
  BY DEF RetentionInductive, ShelvesInv
<1>7. PICK new : new = [old EXCEPT ![c] = v]
  OBVIOUS
<1>8. shelf' = [shelf EXCEPT ![t] = new] /\ new \in [Keys -> Stamps]
  BY <1>2, <1>3, <1>4, <1>5, <1>6, <1>7 DEF Insert
<1>9. Max({m, c}) = c
  <2>1. m \in Int /\ c \in Int /\ c > m
    BY <1>3, RetentionConstants
  <2>2. \A x \in {m, c} : (\A y \in {m, c} : x >= y) <=> x = c
    BY <2>1
  <2>3. QED
    BY <2>2 DEF Max
<1>10. c \in 0..MaxKey /\ c > m /\ c \in Nat /\ m \in Nat
  BY <1>3, RetentionConstants DEF Keys
<1>11. lastKey' = [lastKey EXCEPT ![t] = c]
  BY <1>1, <1>2, <1>3, <1>9 DEF Insert
<1>12. TimePasses
  <2>1. shelf' \in [Shelves -> [Keys -> Stamps]] /\ lastKey' \in [Shelves -> 0..MaxKey]
    BY <1>8, <1>10, <1>11 DEF RetentionInductive, ShelvesInv
  <2>2. day' \in 0..MaxDay /\ day <= day'
    BY DEF RetentionInductive, ShelvesInv, Insert
  <2>3. ASSUME NEW u \in Shelves
        PROVE  lastKey[u] <= lastKey'[u]
    <3>1. lastKey[u] \in Nat
      BY DEF RetentionInductive, ShelvesInv
    <3>2. lastKey'[u] = lastKey[u] \/ (u = t /\ lastKey'[u] = c)
      BY <1>11 DEF RetentionInductive, ShelvesInv
    <3>3. QED
      BY <1>1, <1>10, <3>1, <3>2
  <2>4. ASSUME NEW u \in Shelves, NEW k \in Keys
        PROVE  RowMoves(u, k)
    <3>1. CASE u # t
      BY <1>8, <3>1 DEF RowMoves, RetentionInductive, ShelvesInv
    <3>2. CASE u = t /\ k # c
      BY <1>6, <1>7, <1>8, <3>2 DEF RowMoves, RetentionInductive, ShelvesInv
    <3>3. CASE u = t /\ k = c
      <4>1. shelf'[u][k] = v /\ lastKey'[u] = c /\ lastKey[u] = m
        BY <1>1, <1>6, <1>7, <1>8, <1>11, <3>3 DEF RetentionInductive, ShelvesInv
      <4>2. QED
        BY <1>10, <3>3, <4>1 DEF RowMoves
    <3>4. QED
      BY <3>1, <3>2, <3>3
  <2>5. QED
    BY <2>1, <2>2, <2>3, <2>4 DEF TimePasses
<1>13. QED
  BY <1>12, NoJobMoves DEF Insert, RetentionInductive, ShelvesInv

LEMMA ResolveKeeps ==
    ASSUME RetentionInductive, NEW k \in Keys, ResolveRow(k)
    PROVE  RetentionInductive'
<1>1. PICK t \in Shelves : t = "hitl_requests"
  BY DEF ResolveRow
<1>2. PICK old \in [Keys -> Stamps] : old = shelf[t]
  BY DEF RetentionInductive, ShelvesInv
<1>3. PICK new : new = [old EXCEPT ![k] = day]
  OBVIOUS
<1>4. /\ shelf' = [shelf EXCEPT ![t] = new] /\ new \in [Keys -> Stamps] /\ old[k] = Unresolved
      /\ lastKey' = lastKey /\ day' = day
  <2>1. day \in Stamps
    BY DEF Stamps, RetentionInductive, ShelvesInv
  <2>2. QED
    BY <1>1, <1>2, <1>3, <2>1 DEF ResolveRow
<1>5. TimePasses
  <2>1. shelf' \in [Shelves -> [Keys -> Stamps]] /\ lastKey' \in [Shelves -> 0..MaxKey]
    BY <1>4 DEF RetentionInductive, ShelvesInv
  <2>2. day' \in 0..MaxDay /\ day <= day' /\ \A u \in Shelves : lastKey[u] <= lastKey'[u]
    BY <1>4 DEF RetentionInductive, ShelvesInv
  <2>3. ASSUME NEW u \in Shelves, NEW c \in Keys
        PROVE  RowMoves(u, c)
    BY <1>2, <1>3, <1>4 DEF RowMoves, RetentionInductive, ShelvesInv
  <2>4. QED
    BY <2>1, <2>2, <2>3 DEF TimePasses
<1>6. QED
  BY <1>5, NoJobMoves DEF ResolveRow, RetentionInductive, ShelvesInv

LEMMA NextDayKeeps ==
    ASSUME RetentionInductive, NextDay
    PROVE  RetentionInductive'
<1>1. day' \in 0..MaxDay /\ day <= day'
  BY RetentionConstants DEF NextDay, RetentionInductive, ShelvesInv
<1>2. \A u \in Shelves : lastKey[u] <= lastKey'[u]
  BY DEF NextDay, RetentionInductive, ShelvesInv
<1>3. TimePasses
  BY <1>1, <1>2 DEF TimePasses, RowMoves, NextDay, RetentionInductive, ShelvesInv
<1>4. QED
  BY <1>3, NoJobMoves DEF NextDay, RetentionInductive, ShelvesInv

----------------------------------------------------------------------------
(* Retention: the steps of a run *)

LEMMA StartJobKeeps ==
    ASSUME RetentionInductive, NEW j \in Jobs, NEW dry \in BOOLEAN, StartJob(j, dry)
    PROVE  RetentionInductive'
<1>1. PICK d \in 0..MaxDay : d = day
  BY DEF RetentionInductive, ShelvesInv
<1>2. PICK n : n = [NoJob EXCEPT !.ph = "select", !.now = d, !.dry = dry]
  OBVIOUS
<1>3. job' = [job EXCEPT ![j] = n]
  BY <1>1, <1>2 DEF StartJob
<1>4. n \in JobType /\ n.ph = "select" /\ n.at = 1 /\ n.now = d
  <2>1. NoJob \in JobType /\ NoJob.at = 1
    BY RetentionConstants DEF NoJob, JobType
  <2>2. QED
    BY <1>2, <2>1 DEF JobType
<1>5. TimePasses
  BY NothingMoves DEF RetentionInductive, StartJob
<1>6. JobInv(n)'
  <2>1. JobShape(n)'
    BY <1>1, <1>4, RetentionConstants DEF JobShape, StartJob, RetentionInductive, ShelvesInv
  <2>2. SelectionInv(n)'
    BY <1>4 DEF SelectionInv
  <2>3. SweepInv(n)'
    BY <1>4, RetentionConstants DEF SweepInv
  <2>4. QED
    BY <1>4, <2>1, <2>2, <2>3 DEF JobInv
<1>7. QED
  BY <1>3, <1>5, <1>6, OneJobMoves DEF StartJob, RetentionInductive, ShelvesInv

\* A run goes on to its next table when the one before it is swept.
LEMMA OnwardGood ==
    ASSUME NEW q \in JobType, q.ph \in {"select", "delete"}, q.at <= Len(Order), q.now <= day',
           ~q.dry => \A n \in 1..Len(Order), k \in Keys : n <= q.at => ~Old(Order[n], k, q.now)'
    PROVE  JobInv(Onward(q))'
<1>1. q.at \in 1..Len(Order) /\ Len(Order) \in Nat
  BY RetentionConstants DEF JobType
<1>2. PICK at \in 1..(Len(Order) + 1) : at = q.at + 1
  BY <1>1
<1>3. PICK ph \in {"select", "done"} : ph = IF q.at = Len(Order) THEN "done" ELSE "select"
  OBVIOUS
<1>4. PICK n : n = [q EXCEPT !.at = at, !.ids = {}, !.ph = ph]
  OBVIOUS
<1>5. Onward(q) = n
  BY <1>2, <1>3, <1>4 DEF Onward
<1>6. n \in JobType /\ n.at = at /\ n.ph = ph /\ n.now = q.now /\ n.dry = q.dry
  BY <1>4 DEF JobType
<1>7. JobShape(n)'
  BY <1>1, <1>2, <1>3, <1>6 DEF JobShape
<1>8. SelectionInv(n)'
  BY <1>6 DEF SelectionInv
<1>9. SweepInv(n)'
  <2>1. \A i \in 1..Len(Order) : i < at <=> i <= q.at
    BY <1>1, <1>2
  <2>2. QED
    BY <1>6, <2>1 DEF SweepInv
<1>10. JobInv(n)'
  BY <1>6, <1>7, <1>8, <1>9 DEF JobInv
<1>11. QED
  BY <1>5, <1>10 DEF JobInv, JobShape, SelectionInv, SweepInv, Old

LEMMA SelectKeeps ==
    ASSUME RetentionInductive, NEW j \in Jobs, Select(j)
    PROVE  RetentionInductive'
<1>1. PICK q : q = job[j]
  OBVIOUS
<1>2. /\ JobInv(q) /\ q \in JobType /\ q.ph = "select" /\ q.at <= Len(Order) /\ q.now <= day
      /\ q.now \in 0..MaxDay /\ q.at \in 1..Len(Order) /\ q.total \in Nat
  BY <1>1, RetentionConstants DEF RetentionInductive, JobInv, JobShape, JobType, Select
<1>3. PICK t \in Shelves : t = Order[q.at]
  BY <1>2, RetentionConstants
<1>4. PICK old \in SUBSET Keys : old = {k \in Keys : Old(t, k, q.now)}
  OBVIOUS
<1>5. PICK ids \in SUBSET old :
        /\ Cardinality(ids) = Min({BatchSize, Cardinality(old)})
        /\ job' = [job EXCEPT ![j] =
              IF ids = {} THEN Onward(q)
              ELSE IF q.dry THEN Onward([q EXCEPT !.total = @ + Cardinality(ids)])
              ELSE [q EXCEPT !.ids = ids, !.ph = "delete"]]
  BY <1>1, <1>3, <1>4, ZenonT(40) DEF Select
<1>6. /\ Cardinality(ids) \in Nat /\ Cardinality(old) \in Nat /\ BatchSize \in Nat \ {0}
      /\ IsFiniteSet(old) /\ ids \in SUBSET Keys
  BY RetentionConstants
<1>7. TimePasses /\ removed' = removed
  BY NothingMoves DEF RetentionInductive, Select
<1>8. ShelvesInv /\ removed \in Nat
  BY DEF RetentionInductive, ShelvesInv
<1>9. Cardinality(ids) < BatchSize => ids = old
  <2>1. PICK b \in Nat \ {0}, c \in Nat : b = BatchSize /\ c = Cardinality(old)
    BY <1>6
  <2>2. Min({b, c}) \in {b, c} /\ Min({b, c}) <= b /\ Min({b, c}) <= c
    <3>1. \E x \in {b, c} : \A y \in {b, c} : x <= y
      OBVIOUS
    <3>2. QED
      BY <3>1 DEF Min
  <2>3. Cardinality(ids) < BatchSize => Cardinality(ids) = Cardinality(old)
    BY <1>5, <1>6, <2>1, <2>2
  <2>4. QED
    BY <1>6, <2>3, FS_Subset
<1>10. \A x \in 1..Len(Order), k \in Keys : ~q.dry /\ x < q.at => ~Old(Order[x], k, q.now)'
  <2>1. JobInv(q)'
    BY <1>2, <1>7, <1>8, JobKept
  <2>2. QED
    BY <1>2, <2>1 DEF JobInv, SweepInv
<1>11. CASE ids = {}
  <2>1. Cardinality(ids) = 0
    BY <1>11, FS_EmptySet
  <2>2. old = {}
    BY <1>6, <1>9, <1>11, <2>1
  <2>3. \A k \in Keys : ~Old(t, k, q.now)'
    BY <1>2, <1>4, <1>7, <1>8, <2>2, NothingAges
  <2>4. \A x \in 1..Len(Order) : x <= q.at <=> x < q.at \/ x = q.at
    BY <1>2, RetentionConstants
  <2>5. ~q.dry => \A x \in 1..Len(Order), k \in Keys : x <= q.at => ~Old(Order[x], k, q.now)'
    BY <1>3, <1>10, <2>3, <2>4
  <2>6. PICK n : n = Onward(q)
    OBVIOUS
  <2>7. q.now <= day'
    BY <1>2 DEF Select
  <2>8. JobInv(Onward(q))'
    BY <1>2, <2>5, <2>7, OnwardGood
  <2>9. JobInv(n)'
    BY <2>6, <2>8
  <2>10. QED
    BY <1>5, <1>7, <1>8, <1>11, <2>6, <2>9, OneJobMoves
<1>12. CASE ids # {} /\ q.dry
  <2>1. PICK tot \in Nat : tot = q.total + Cardinality(ids)
    BY <1>2, <1>6
  <2>2. PICK p : p = [q EXCEPT !.total = tot]
    OBVIOUS
  <2>3. p \in JobType /\ p.ph = q.ph /\ p.at = q.at /\ p.now = q.now /\ p.dry = q.dry
    BY <1>2, <2>2 DEF JobType
  <2>4. q.now <= day'
    BY <1>2 DEF Select
  <2>5. JobInv(Onward(p))'
    BY <1>2, <1>12, <2>3, <2>4, OnwardGood
  <2>6. PICK n : n = Onward(p)
    OBVIOUS
  <2>7. job' = [job EXCEPT ![j] = n]
    BY <1>5, <1>12, <2>1, <2>2, <2>6
  <2>8. JobInv(n)'
    BY <2>5, <2>6
  <2>9. QED
    BY <1>7, <1>8, <2>7, <2>8, OneJobMoves
<1>13. CASE ids # {} /\ ~q.dry
  <2>1. PICK n : n = [q EXCEPT !.ids = ids, !.ph = "delete"]
    OBVIOUS
  <2>2. /\ n \in JobType /\ n.ids = ids /\ n.ph = "delete" /\ n.at = q.at /\ n.now = q.now
        /\ n.dry = q.dry
    BY <1>2, <1>6, <2>1 DEF JobType
  <2>3. JobShape(n)
    BY <1>2, <2>2 DEF JobShape
  <2>4. SelectionInv(n)
    <3>1. ASSUME NEW k \in ids
          PROVE  k \in Keys /\ Old(t, k, q.now) /\ k <= lastKey[t]
      <4>1. k \in Keys /\ Old(t, k, q.now)
        BY <1>4
      <4>2. k \in Nat /\ lastKey[t] \in Nat /\ shelf[t][k] # Gone
        BY <1>8, <4>1, RetentionConstants DEF ShelvesInv, Old, Gone
      <4>3. QED
        BY <1>8, <4>1, <4>2 DEF ShelvesInv, KeysAreFresh
    <3>2. QED
      BY <1>3, <2>2, <3>1 DEF SelectionInv
  <2>5. SweepInv(n)
    <3>1. \A x \in 1..Len(Order), k \in Keys : x < q.at => ~Old(Order[x], k, q.now)
      BY <1>2, <1>13 DEF JobInv, SweepInv
    <3>2. LastBatch(ids) => \A k \in Keys : Old(t, k, q.now) => k \in ids
      BY <1>4, <1>9 DEF LastBatch
    <3>3. QED
      BY <1>3, <2>2, <3>1, <3>2 DEF SweepInv
  <2>6. JobInv(n)'
    BY <1>7, <1>8, <2>2, <2>3, <2>4, <2>5, JobKept DEF JobInv
  <2>7. QED
    BY <1>5, <1>7, <1>8, <1>13, <2>1, <2>6, OneJobMoves
<1>14. QED
  BY <1>11, <1>12, <1>13

\* The rows a batch deletes, and how the tables change.
LEMMA DeleteIs ==
    ASSUME RetentionInductive, NEW j \in Jobs, Delete(j)
    PROVE  LET q == job[j] IN
           /\ q \in JobType /\ JobInv(q) /\ q.at \in 1..Len(Order) /\ Order[q.at] \in Shelves
           /\ shelf' \in [Shelves -> [Keys -> Stamps]]
           /\ \A k \in Keys : k \in q.ids => shelf'[Order[q.at]][k] = Gone
           /\ \A t \in Shelves, k \in Keys :
                (t # Order[q.at] \/ k \notin q.ids) => shelf'[t][k] = shelf[t][k]
           /\ TimePasses /\ removed' \in Nat
<1>1. PICK q : q = job[j]
  OBVIOUS
<1>2. q \in JobType /\ JobInv(q) /\ q.ph = "delete" /\ q.at \in 1..Len(Order) /\ q.ids \in SUBSET Keys
  BY <1>1, RetentionConstants DEF RetentionInductive, JobInv, JobShape, JobType, Delete
<1>3. PICK t \in Shelves : t = Order[q.at]
  BY <1>2, RetentionConstants
<1>4. PICK row \in [Keys -> Stamps] : row = shelf[t]
  BY DEF RetentionInductive, ShelvesInv
<1>5. PICK new : new = [k \in Keys |-> IF k \in q.ids THEN Gone ELSE row[k]]
  OBVIOUS
<1>6. new \in [Keys -> Stamps]
  BY <1>5 DEF Stamps
<1>7. shelf' = [shelf EXCEPT ![t] = new]
  BY <1>1, <1>3, <1>4, <1>5 DEF Delete
<1>8. shelf \in [Shelves -> [Keys -> Stamps]] /\ shelf' \in [Shelves -> [Keys -> Stamps]]
  BY <1>6, <1>7 DEF RetentionInductive, ShelvesInv
<1>9. \A k \in Keys : k \in q.ids => shelf'[t][k] = Gone
  BY <1>5, <1>7, <1>8
<1>10. \A u \in Shelves, k \in Keys : (u # t \/ k \notin q.ids) => shelf'[u][k] = shelf[u][k]
  BY <1>4, <1>5, <1>7, <1>8
<1>11. TimePasses
  <2>1. \A u \in Shelves, k \in Keys : RowMoves(u, k)
    BY <1>9, <1>10 DEF RowMoves
  <2>2. day' \in 0..MaxDay /\ day <= day' /\ \A u \in Shelves : lastKey[u] <= lastKey'[u]
    BY DEF Delete, RetentionInductive, ShelvesInv
  <2>3. QED
    BY <1>8, <2>1, <2>2 DEF TimePasses, Delete, RetentionInductive, ShelvesInv
<1>12. removed' \in Nat
  <2>1. {k \in q.ids : shelf[t][k] # Gone} \in SUBSET Keys
    BY <1>2
  <2>2. Cardinality({k \in q.ids : shelf[t][k] # Gone}) \in Nat
    BY <2>1, RetentionConstants
  <2>3. removed' = removed + Cardinality({k \in q.ids : shelf[t][k] # Gone})
    BY <1>1, <1>3 DEF Delete
  <2>4. removed \in Nat
    BY DEF RetentionInductive, ShelvesInv
  <2>5. QED
    BY <2>2, <2>3, <2>4
<1>13. QED
  BY <1>1, <1>2, <1>3, <1>8, <1>9, <1>10, <1>11, <1>12

LEMMA DeleteKeeps ==
    ASSUME RetentionInductive, NEW j \in Jobs, Delete(j)
    PROVE  RetentionInductive'
<1>1. PICK q : q = job[j]
  OBVIOUS
<1>2. PICK t : t = Order[q.at]
  OBVIOUS
<1>3. /\ q \in JobType /\ JobInv(q) /\ q.at \in 1..Len(Order) /\ t \in Shelves
      /\ \A k \in Keys : k \in q.ids => shelf'[t][k] = Gone
      /\ TimePasses /\ removed' \in Nat
  BY <1>1, <1>2, DeleteIs
<1>4. q.ph = "delete" /\ q.ids \in SUBSET Keys /\ q.total \in Nat /\ q.now \in 0..MaxDay
  BY <1>1, <1>3 DEF Delete, JobType
<1>5. PICK tot \in Nat : tot = q.total + Affected(t, q.ids)
  <2>1. {k \in q.ids : shelf[t][k] # Gone} \in SUBSET Keys
    BY <1>4
  <2>2. Affected(t, q.ids) \in Nat
    BY <2>1, RetentionConstants DEF Affected
  <2>3. QED
    BY <1>4, <2>2
<1>6. PICK p : p = [q EXCEPT !.total = tot]
  OBVIOUS
<1>7. /\ p \in JobType /\ p.ph = q.ph /\ p.at = q.at /\ p.now = q.now /\ p.dry = q.dry
      /\ p.ids = q.ids
  BY <1>3, <1>6 DEF JobType
<1>8. JobInv(q)'
  BY <1>3, JobKept DEF RetentionInductive
<1>9. q.now <= day' /\ q.at <= Len(Order)
  BY <1>4, <1>8 DEF JobInv, JobShape
<1>10. ~q.dry => \A x \in 1..Len(Order), k \in Keys : x < q.at => ~Old(Order[x], k, q.now)'
  BY <1>4, <1>8 DEF JobInv, SweepInv
<1>11. job' = [job EXCEPT ![j] = IF LastBatch(q.ids) THEN Onward(p)
                                 ELSE [p EXCEPT !.ids = {}, !.ph = "select"]]
  BY <1>1, <1>2, <1>5, <1>6 DEF Delete
<1>12. CASE LastBatch(q.ids)
  <2>1. ASSUME NEW k \in Keys, ~q.dry
        PROVE  ~Old(t, k, q.now)'
    <3>1. CASE k \in q.ids
      BY <1>3, <3>1 DEF Old, Gone
    <3>2. CASE k \notin q.ids
      BY <1>2, <1>4, <1>8, <1>12, <2>1, <3>2 DEF JobInv, SweepInv, LastBatch
    <3>3. QED
      BY <3>1, <3>2
  <2>2. \A x \in 1..Len(Order) : x <= q.at <=> x < q.at \/ x = q.at
    BY <1>3, RetentionConstants
  <2>3. ~q.dry => \A x \in 1..Len(Order), k \in Keys : x <= q.at => ~Old(Order[x], k, q.now)'
    BY <1>2, <1>10, <2>1, <2>2
  <2>4. JobInv(Onward(p))'
    BY <1>4, <1>7, <1>9, <2>3, OnwardGood
  <2>5. PICK n : n = Onward(p)
    OBVIOUS
  <2>6. JobInv(n)'
    BY <2>4, <2>5
  <2>7. QED
    BY <1>3, <1>11, <1>12, <2>5, <2>6, OneJobMoves
<1>13. CASE ~LastBatch(q.ids)
  <2>1. PICK n : n = [p EXCEPT !.ids = {}, !.ph = "select"]
    OBVIOUS
  <2>2. n \in JobType /\ n.ph = "select" /\ n.at = q.at /\ n.now = q.now /\ n.dry = q.dry
    BY <1>7, <2>1 DEF JobType
  <2>3. JobShape(n)' /\ SelectionInv(n)'
    BY <1>9, <2>2 DEF JobShape, SelectionInv
  <2>4. SweepInv(n)'
    BY <1>10, <2>2 DEF SweepInv
  <2>5. JobInv(n)'
    BY <2>2, <2>3, <2>4 DEF JobInv
  <2>6. QED
    BY <1>3, <1>11, <1>13, <2>1, <2>5, OneJobMoves
<1>14. QED
  BY <1>12, <1>13

----------------------------------------------------------------------------
(* Retention: the theorems *)

LEMMA RetentionStart ==
    ASSUME RetentionInit
    PROVE  RetentionInductive
<1>1. Gone \in Stamps /\ 0 \in 0..MaxDay /\ 0 \in 0..MaxKey
  BY RetentionConstants DEF Stamps
<1>2. ShelvesInv
  BY <1>1 DEF ShelvesInv, KeysAreFresh, RetentionInit
<1>3. NoJob \in JobType
  BY <1>1, RetentionConstants DEF NoJob, JobType
<1>4. JobInv(NoJob)
  <2>1. day = 0
    BY DEF RetentionInit
  <2>2. QED
    BY <1>3, <2>1 DEF JobInv, JobShape, SelectionInv, SweepInv, NoJob
<1>5. QED
  BY <1>2, <1>3, <1>4 DEF RetentionInductive, RetentionInit

LEMMA RetentionStep ==
    ASSUME KeysRecycled = {}, RetentionInductive, [RetentionNext]_retentionVars
    PROVE  RetentionInductive'
<1>1. CASE UNCHANGED retentionVars
  BY <1>1, NothingMoves, NoJobMoves DEF retentionVars, RetentionInductive, ShelvesInv
<1>2. QED
  BY <1>1, InsertKeeps, ResolveKeeps, NextDayKeeps, SelectKeeps, DeleteKeeps, StartJobKeeps
     DEF RetentionNext

\* A step takes no row but one that is due.
TakesTheDue ==
    \A t \in Shelves, k \in Keys : (shelf[t][k] # Gone /\ shelf'[t][k] = Gone) => Old(t, k, day)

LEMMA RowsGoWhenDue ==
    ASSUME KeysRecycled = {}, RetentionInductive, [RetentionNext]_retentionVars
    PROVE  TakesTheDue
<1>1. SUFFICES ASSUME NEW t \in Shelves, NEW k \in Keys, shelf[t][k] # Gone, shelf'[t][k] = Gone
               PROVE  Old(t, k, day)
  BY DEF TakesTheDue
<1>2. day \in 0..MaxDay /\ day # Gone
  <2>1. day \in 0..MaxDay
    BY DEF RetentionInductive, ShelvesInv
  <2>2. QED
    BY <2>1 DEF Gone
<1>3. ASSUME NEW j \in Jobs, Delete(j)
      PROVE  Old(t, k, day)
  <2>1. PICK q : q = job[j]
    OBVIOUS
  <2>2. /\ q \in JobType /\ JobInv(q) /\ q.ph = "delete"
        /\ (t # Order[q.at] \/ k \notin q.ids) => shelf'[t][k] = shelf[t][k]
    BY <1>3, <2>1, DeleteIs DEF Delete
  <2>3. t = Order[q.at] /\ k \in q.ids
    BY <1>1, <2>2
  <2>4. Old(t, k, q.now) /\ q.now <= day /\ q.now \in Nat
    BY <1>1, <2>2, <2>3 DEF JobInv, JobShape, SelectionInv, JobType
  <2>5. PICK x \in Stamps : x = shelf[t][k]
    BY DEF RetentionInductive, ShelvesInv
  <2>6. x >= 0 /\ x < q.now - KeepDays[t] /\ x \in Int /\ KeepDays[t] \in Nat /\ day \in Nat
    BY <1>2, <2>4, <2>5, RetentionConstants DEF Old, Stamps, Gone, Unresolved
  <2>7. QED
    BY <2>4, <2>5, <2>6 DEF Old
<1>4. ASSUME NEW u \in Shelves, Insert(u)
      PROVE  FALSE
  <2>1. PICK old \in [Keys -> Stamps] : old = shelf[u]
    BY DEF RetentionInductive, ShelvesInv
  <2>2. PICK c \in Keys : c = NextKey(u)
    BY <1>4 DEF Insert
  <2>3. PICK v \in {Unresolved, day} : v = IF u = "hitl_requests" THEN Unresolved ELSE day
    OBVIOUS
  <2>4. shelf' = [shelf EXCEPT ![u] = [old EXCEPT ![c] = v]]
    BY <1>4, <2>1, <2>2, <2>3 DEF Insert
  <2>5. shelf'[t][k] = shelf[t][k] \/ shelf'[t][k] = v
    BY <2>1, <2>4 DEF RetentionInductive, ShelvesInv
  <2>6. v # Gone
    BY <1>2 DEF Gone, Unresolved
  <2>7. QED
    BY <1>1, <2>5, <2>6
<1>5. ASSUME NEW c \in Keys, ResolveRow(c)
      PROVE  FALSE
  <2>1. PICK u \in Shelves : u = "hitl_requests"
    BY <1>5 DEF ResolveRow
  <2>2. PICK old \in [Keys -> Stamps] : old = shelf[u]
    BY DEF RetentionInductive, ShelvesInv
  <2>3. shelf' = [shelf EXCEPT ![u] = [old EXCEPT ![c] = day]]
    BY <1>5, <2>1, <2>2 DEF ResolveRow
  <2>4. shelf'[t][k] = shelf[t][k] \/ shelf'[t][k] = day
    BY <2>2, <2>3 DEF RetentionInductive, ShelvesInv
  <2>5. QED
    BY <1>1, <1>2, <2>4
<1>6. shelf' # shelf
  BY <1>1
<1>7. QED
  BY <1>3, <1>4, <1>5, <1>6 DEF RetentionNext, retentionVars, NextDay, Select, StartJob

LEMMA RetentionShows ==
    ASSUME RetentionInductive
    PROVE  SweptClean
<1>1. SUFFICES ASSUME NEW j \in Jobs, job[j].ph = "done", ~job[j].dry, NEW t \in Shelves, NEW k \in Keys
               PROVE  ~Old(t, k, job[j].now)
  BY DEF SweptClean
<1>2. PICK q : q = job[j]
  OBVIOUS
<1>3. JobInv(q) /\ q.at = Len(Order) + 1
  BY <1>1, <1>2 DEF RetentionInductive, JobInv, JobShape
<1>4. PICK n \in 1..Len(Order) : t = Order[n]
  BY RetentionConstants
<1>5. n < q.at
  BY <1>3, RetentionConstants
<1>6. QED
  BY <1>1, <1>2, <1>3, <1>4, <1>5 DEF JobInv, SweepInv

LEMMA RetentionIsInductive ==
    ASSUME KeysRecycled = {}
    PROVE  RetentionSpec => []RetentionInductive
<1>1. RetentionInit => RetentionInductive
  BY RetentionStart
<1>2. RetentionInductive /\ [RetentionNext]_retentionVars => RetentionInductive'
  BY RetentionStep
<1>3. QED
  BY <1>1, <1>2, PTL DEF RetentionSpec

\* Where keys are not handed out again (everywhere but audit_log on SQLite),
\* maintenance runs, any number at once, delete only rows that are past their
\* table's cutoff and no unresolved request: the keys a batch selected still
\* name what it selected when its DELETE runs (maintenance/retention.py).
THEOREM OnlyTheDueIsDeleted ==
    ASSUME KeysRecycled = {}
    PROVE  RetentionSpec => YoungRowsSurvive
<1>1. RetentionInductive /\ [RetentionNext]_retentionVars => TakesTheDue
  BY RowsGoWhenDue
<1>2. RetentionInductive /\ [RetentionNext]_retentionVars => [TakesTheDue]_retentionVars
  BY <1>1
<1>3. RetentionSpec => [][TakesTheDue]_retentionVars
  BY <1>2, RetentionIsInductive, PTL DEF RetentionSpec
<1>4. QED
  BY <1>3 DEF TakesTheDue, YoungRowsSurvive

\* A maintenance run that has ended has left nothing that was past the cutoff
\* when it began, however many batches and other runs there were: the batch it
\* takes for a table's last one holds all that is still due there.
THEOREM SweepsAreComplete ==
    ASSUME KeysRecycled = {}
    PROVE  RetentionSpec => []SweptClean
  BY RetentionIsInductive, RetentionShows, PTL

----------------------------------------------------------------------------
(* Retention: the totals *)

Share(q) == IF q.dry THEN 0 ELSE q.total

\* The shares of all runs add up to the rows that are gone; a run that has not
\* started has none, and only a real one gets to a DELETE.
Tallied(jobs, gone) ==
    /\ \A j \in Jobs : /\ jobs[j].ph = "idle" => jobs[j].total = 0
                       /\ jobs[j].ph = "delete" => ~jobs[j].dry
    /\ SumFunctionOnSet([j \in Jobs |-> Share(jobs[j])], Jobs) = gone

RetentionTallied == RetentionInductive /\ Tallied(job, removed)

LEMMA ShareIsNat ==
    ASSUME NEW q \in JobType
    PROVE  Share(q) \in Nat
  BY DEF Share, JobType

\* One run moves, and its share grows by what it deleted.
LEMMA TallyMoves ==
    ASSUME NEW jobs \in [Jobs -> JobType], NEW gone \in Nat, Tallied(jobs, gone),
           NEW j \in Jobs, NEW q \in JobType, NEW n \in Nat,
           q.ph # "idle", q.ph = "delete" => ~q.dry, Share(q) = Share(jobs[j]) + n
    PROVE  Tallied([jobs EXCEPT ![j] = q], gone + n)
<1> DEFINE f == [x \in Jobs |-> Share(jobs[x])]
           g == [x \in Jobs |-> Share([jobs EXCEPT ![j] = q][x])]
<1>1. \A x \in Jobs : f[x] \in Nat
  BY ShareIsNat
<1>2. \A x \in Jobs : g[x] = IF x = j THEN f[x] + n ELSE f[x]
  OBVIOUS
<1>3. SumFunctionOnSet(f, Jobs) = gone
  BY DEF Tallied
<1>4. \A x \in Jobs : /\ [jobs EXCEPT ![j] = q][x].ph = "idle" => [jobs EXCEPT ![j] = q][x].total = 0
                      /\ [jobs EXCEPT ![j] = q][x].ph = "delete" => ~[jobs EXCEPT ![j] = q][x].dry
  BY DEF Tallied
<1>5. IsFiniteSet(Jobs)
  BY RetentionAssumption
<1>6. SumFunctionOnSet(g, Jobs) = gone + n
  <2> HIDE DEF f, g
  <2>1. SumFunctionOnSet(g, Jobs) = SumFunctionOnSet(f, Jobs) + n
    BY <1>1, <1>2, <1>5, SumAdds
  <2>2. QED
    BY <1>3, <2>1
<1>7. QED
  BY <1>4, <1>6 DEF Tallied

LEMMA StartTallied ==
    ASSUME RetentionInit
    PROVE  Tallied(job, removed)
<1> DEFINE f == [j \in Jobs |-> Share(job[j])]
<1>1. \A j \in Jobs : job[j] = NoJob
  BY DEF RetentionInit
<1>2. \A j \in Jobs : f[j] = 0
  BY <1>1 DEF Share, NoJob
<1>3. IsFiniteSet(Jobs)
  BY RetentionAssumption
<1>4. SumFunctionOnSet(f, Jobs) = 0
  <2> HIDE DEF f
  <2>1. QED
    BY <1>2, <1>3, SumOfZeros
<1>5. QED
  BY <1>1, <1>4 DEF Tallied, NoJob, RetentionInit

LEMMA StartJobTallied ==
    ASSUME RetentionTallied, NEW j \in Jobs, NEW dry \in BOOLEAN, StartJob(j, dry)
    PROVE  Tallied(job', removed')
<1>1. PICK p \in JobType : p = job[j] /\ p.ph = "idle" /\ p.total = 0
  BY DEF RetentionTallied, RetentionInductive, Tallied, StartJob
<1>2. PICK q : q = [NoJob EXCEPT !.ph = "select", !.now = day, !.dry = dry]
  OBVIOUS
<1>3. q = [ph |-> "select", at |-> 1, now |-> day, dry |-> dry, ids |-> {}, total |-> 0]
  BY <1>2 DEF NoJob
<1>4. q \in JobType /\ q.ph = "select" /\ q.total = 0 /\ Share(q) = Share(job[j]) + 0
  <2>1. 1 \in 1..(Len(Order) + 1) /\ day \in 0..MaxDay
    BY RetentionConstants DEF RetentionTallied, RetentionInductive, ShelvesInv
  <2>2. q \in JobType /\ q.ph = "select" /\ q.total = 0
    BY <1>3, <2>1 DEF JobType
  <2>3. Share(q) = 0 /\ Share(job[j]) = 0
    BY <1>1, <2>2 DEF Share
  <2>4. QED
    BY <2>2, <2>3
<1>5. removed \in Nat /\ job \in [Jobs -> JobType] /\ Tallied(job, removed)
  BY DEF RetentionTallied, RetentionInductive, ShelvesInv
<1>6. Tallied([job EXCEPT ![j] = q], removed + 0)
  <2>1. q.ph # "idle" /\ q.ph # "delete" /\ 0 \in Nat
    BY <1>4
  <2>2. QED
    BY <1>4, <1>5, <2>1, TallyMoves
<1>7. removed + 0 = removed
  BY <1>5
<1>8. QED
  BY <1>2, <1>6, <1>7 DEF StartJob

LEMMA OnwardKeepsTotal ==
    ASSUME NEW q \in JobType, q.at \in 1..Len(Order)
    PROVE  /\ Onward(q) \in JobType /\ Onward(q).ph \in {"select", "done"}
           /\ Onward(q).total = q.total /\ Onward(q).dry = q.dry
<1>1. PICK n \in 1..(Len(Order) + 1) : n = q.at + 1
  BY RetentionConstants
<1>2. PICK ph \in {"select", "done"} : ph = IF q.at = Len(Order) THEN "done" ELSE "select"
  OBVIOUS
<1>3. PICK a : a = [q EXCEPT !.at = n]
  OBVIOUS
<1>4. a \in JobType /\ a.total = q.total /\ a.dry = q.dry
  BY <1>3 DEF JobType
<1>5. PICK b : b = [a EXCEPT !.ids = {}]
  OBVIOUS
<1>6. b \in JobType /\ b.total = q.total /\ b.dry = q.dry
  BY <1>4, <1>5 DEF JobType
<1>7. PICK c : c = [b EXCEPT !.ph = ph]
  OBVIOUS
<1>8. c \in JobType /\ c.ph = ph /\ c.total = q.total /\ c.dry = q.dry
  BY <1>6, <1>7 DEF JobType
<1>9. Onward(q) = c
  BY <1>1, <1>2, <1>3, <1>5, <1>7 DEF Onward
<1>10. QED
  BY <1>8, <1>9

LEMMA SelectTallied ==
    ASSUME RetentionTallied, NEW j \in Jobs, Select(j)
    PROVE  Tallied(job', removed')
<1>1. PICK p \in JobType : p = job[j] /\ JobInv(p) /\ p.ph = "select"
  BY DEF RetentionTallied, RetentionInductive, Select
<1>2. PICK at \in 1..Len(Order) : at = p.at
  BY <1>1, RetentionConstants DEF JobInv, JobShape, JobType
<1>3. PICK ids \in SUBSET Keys :
         job' = [job EXCEPT ![j] =
                    IF ids = {} THEN Onward(p)
                    ELSE IF p.dry THEN Onward([p EXCEPT !.total = @ + Cardinality(ids)])
                    ELSE [p EXCEPT !.ids = ids, !.ph = "delete"]]
  BY <1>1 DEF Select
<1>4. PICK n \in Nat : n = Cardinality(ids)
  BY RetentionConstants
<1>5. PICK total \in Nat : total = p.total
  BY DEF JobType
<1>6. removed \in Nat /\ job \in [Jobs -> JobType] /\ Tallied(job, removed) /\ removed' = removed
  BY DEF RetentionTallied, RetentionInductive, ShelvesInv, Select
<1>7. SUFFICES ASSUME NEW q \in JobType, job' = [job EXCEPT ![j] = q], q.ph # "idle",
                      q.ph = "delete" => ~q.dry, Share(q) = Share(p)
               PROVE  Tallied(job', removed')
  <2>1. CASE ids = {}
    <3>1. /\ Onward(p) \in JobType /\ Onward(p).ph \in {"select", "done"}
          /\ Onward(p).total = p.total /\ Onward(p).dry = p.dry
      BY <1>2, OnwardKeepsTotal
    <3>2. PICK q : q = Onward(p)
      OBVIOUS
    <3>3. Share(q) = Share(p)
      BY <3>1, <3>2 DEF Share
    <3>4. QED
      BY <1>3, <1>7, <2>1, <3>1, <3>2, <3>3
  <2>2. CASE ids # {} /\ p.dry
    <3>1. PICK m : m = [p EXCEPT !.total = total + n]
      OBVIOUS
    <3>2. m \in JobType /\ m.at = p.at /\ m.dry = p.dry
      BY <3>1 DEF JobType
    <3>3. PICK q : q = Onward(m)
      OBVIOUS
    <3>4. q \in JobType /\ q.ph \in {"select", "done"} /\ q.dry
      BY <1>2, <2>2, <3>2, <3>3, OnwardKeepsTotal
    <3>5. Share(q) = Share(p)
      BY <2>2, <3>4 DEF Share
    <3>6. job' = [job EXCEPT ![j] = q]
      BY <1>3, <1>4, <1>5, <2>2, <3>1, <3>3
    <3>7. QED
      BY <1>7, <3>4, <3>5, <3>6
  <2>3. CASE ids # {} /\ ~p.dry
    <3>1. PICK q : q = [p EXCEPT !.ids = ids, !.ph = "delete"]
      OBVIOUS
    <3>2. q \in JobType /\ q.ph = "delete" /\ q.dry = p.dry /\ q.total = p.total
      BY <3>1 DEF JobType
    <3>3. Share(q) = Share(p)
      BY <3>2 DEF Share
    <3>4. QED
      BY <1>3, <1>7, <2>3, <3>1, <3>2, <3>3
  <2>4. QED
    BY <2>1, <2>2, <2>3
<1>8. Share(q) = Share(job[j]) + 0
  BY <1>1, <1>7, ShareIsNat
<1>9. Tallied([job EXCEPT ![j] = q], removed + 0)
  BY <1>6, <1>7, <1>8, TallyMoves
<1>10. QED
  BY <1>6, <1>7, <1>9

\* A DELETE counts the rows it takes, and no row is there to be taken twice.
LEMMA DeleteTallied ==
    ASSUME RetentionTallied, NEW j \in Jobs, Delete(j)
    PROVE  Tallied(job', removed')
<1>1. PICK p \in JobType : p = job[j] /\ JobInv(p) /\ p.ph = "delete" /\ ~p.dry
  BY DEF RetentionTallied, RetentionInductive, Tallied, Delete
<1>2. PICK at \in 1..Len(Order) : at = p.at
  BY <1>1, RetentionConstants DEF JobInv, JobShape, JobType
<1>3. PICK S \in SUBSET Keys : S = {k \in p.ids : shelf[Order[p.at]][k] # Gone}
  BY DEF JobType
<1>4. PICK n \in Nat : n = Cardinality(S)
  BY RetentionConstants
<1>5. PICK total \in Nat : total = p.total
  BY DEF JobType
<1>6. removed \in Nat /\ job \in [Jobs -> JobType] /\ Tallied(job, removed)
  BY DEF RetentionTallied, RetentionInductive, ShelvesInv
<1>7. PICK m : m = [p EXCEPT !.total = total + n]
  OBVIOUS
<1>8. m \in JobType /\ m.at = p.at /\ m.dry = p.dry /\ m.total = total + n
  BY <1>7, SMTT(30) DEF JobType
<1>9. removed' = removed + n
  BY <1>1, <1>3, <1>4 DEF Delete
<1>10. job' = [job EXCEPT ![j] = IF LastBatch(p.ids) THEN Onward(m)
                                 ELSE [m EXCEPT !.ids = {}, !.ph = "select"]]
  BY <1>1, <1>3, <1>4, <1>5, <1>7 DEF Delete, Affected
<1>11. PICK q : q = IF LastBatch(p.ids) THEN Onward(m) ELSE [m EXCEPT !.ids = {}, !.ph = "select"]
  OBVIOUS
<1>12. q \in JobType /\ q.ph \in {"select", "done"} /\ q.dry = m.dry /\ q.total = m.total
  <2>1. CASE LastBatch(p.ids)
    BY <1>2, <1>8, <1>11, <2>1, OnwardKeepsTotal
  <2>2. CASE ~LastBatch(p.ids)
    BY <1>8, <1>11, <2>2 DEF JobType
  <2>3. QED
    BY <2>1, <2>2
<1>13. Share(q) = Share(job[j]) + n
  BY <1>1, <1>5, <1>8, <1>12 DEF Share
<1>14. Tallied([job EXCEPT ![j] = q], removed + n)
  BY <1>6, <1>12, <1>13, TallyMoves
<1>15. QED
  BY <1>9, <1>10, <1>11, <1>14

LEMMA TallyStep ==
    ASSUME RetentionTallied, [RetentionNext]_retentionVars
    PROVE  Tallied(job', removed')
<1>1. CASE UNCHANGED retentionVars
  BY <1>1 DEF retentionVars, RetentionTallied
<1>2. CASE UNCHANGED <<job, removed>>
  BY <1>2 DEF RetentionTallied
<1>3. QED
  BY <1>1, <1>2, SelectTallied, DeleteTallied, StartJobTallied
     DEF RetentionNext, Insert, ResolveRow, NextDay

LEMMA RetentionTypes ==
    ASSUME RetentionInductive
    PROVE  RetentionTypeOK
<1>1. \A j \in Jobs : job[j] \in JobType
  BY DEF RetentionInductive
<1>2. QED
  BY <1>1 DEF RetentionTypeOK, RetentionInductive, ShelvesInv, JobType, Stamps

LEMMA TallyShows ==
    ASSUME Tallied(job, removed)
    PROVE  TotalsAreExact
<1>1. Reported = [j \in Jobs |-> Share(job[j])]
  BY DEF Reported, Share
<1>2. QED
  BY <1>1 DEF Tallied, TotalsAreExact

\* Maintenance runs, any number of them at once, take all that is due and count
\* every row once: a run counts the rows its DELETE found, not the keys its
\* SELECT saw, so a batch that two runs selected is counted by the one that came
\* first (del_result.rowcount in maintenance/retention.py).
THEOREM RetentionInvariant ==
    ASSUME KeysRecycled = {}
    PROVE  RetentionSpec => []RetentionInv
<1>1. RetentionInit => RetentionTallied
  BY RetentionStart, StartTallied DEF RetentionTallied
<1>2. RetentionTallied /\ [RetentionNext]_retentionVars => RetentionTallied'
  BY RetentionStep, TallyStep DEF RetentionTallied
<1>3. RetentionTallied => RetentionInv
  BY RetentionTypes, RetentionShows, TallyShows DEF RetentionTallied, RetentionInv
<1>4. QED
  BY <1>1, <1>2, <1>3, PTL DEF RetentionSpec

----------------------------------------------------------------------------
(* Collab: types and the requests that do not move *)

ReqPhase == {"idle", "check", "write", "audit", "reread", "204", "403", "404", "409", "500", "assert"}
EditIds == {op.id : op \in COps} \cup {0}
ReqType == [do : Actions \cup {"none"}, who : CUsers \cup {"none"}, id : EditIds, ph : ReqPhase]
CommentType == [st : {"none", "live", "deleted"}, body : 0..3]
TemplateType == [st : {"none", "live"}, creator : CUsers \cup {"none"}, editor : CUsers \cup {"none"}]

ReqOK(q) ==
    /\ q \in ReqType
    /\ q.ph # "idle" => q.do \in Actions /\ q.who \in CUsers
    /\ q.do \in {"comment_update", "comment_delete"} => q.id \in CUsers
    /\ q.do \in {"template_update", "template_delete"} => q.id \in Tids

ReqGood(q) == ReqOK(q) /\ WriterMayEdit(q) /\ CommentIsThere(q)

EditTables ==
    /\ starred \in SUBSET CUsers
    /\ comment \in [CUsers -> CommentType]
    /\ template \in [Tids -> TemplateType] /\ lastTid \in 0..MaxTemplates
    /\ TidsAreFresh /\ EditorMayEdit
    /\ trail \in [Actions -> Nat] /\ lost \in 0..MaxAuditLoss

EditorsInv == creq \in [CReqs -> ReqType] /\ \A r \in CReqs : ReqGood(creq[r])

CollabInductive == EditTables /\ EditorsInv /\ Balances

LEMMA CollabConstants ==
    /\ MaxTemplates \in Nat /\ MaxAuditLoss \in Nat /\ IsFiniteSet(CUsers) /\ IsFiniteSet(CReqs)
    /\ IsFiniteSet(Tids) /\ Tids \subseteq Nat
    /\ Quiet \in ReqType /\ NoComment \in CommentType /\ NoTemplate \in TemplateType
<1>1. MaxTemplates \in Nat /\ MaxAuditLoss \in Nat /\ IsFiniteSet(CUsers) /\ IsFiniteSet(CReqs)
  BY CollabAssumption
<1>2. IsFiniteSet(Tids) /\ Tids \subseteq Nat
  BY <1>1, FS_Interval DEF Tids
<1>3. Quiet \in ReqType
  BY DEF Quiet, ReqType, ReqPhase, EditIds
<1>4. NoComment \in CommentType /\ NoTemplate \in TemplateType
  BY DEF NoComment, CommentType, NoTemplate, TemplateType
<1>5. QED
  BY <1>1, <1>2, <1>3, <1>4

\* Comments stay, if only as tombstones; a template goes for good.
RowsHold ==
    /\ lastTid' \in 0..MaxTemplates /\ lastTid <= lastTid'
    /\ \A u \in CUsers : comment[u].st # "none" => comment'[u].st # "none"
    /\ \A t \in Tids : (t <= lastTid /\ template'[t].st # "none") =>
         template[t].st # "none" /\ template'[t].creator = template[t].creator
    /\ \A t \in Tids : template'[t].st \in {"none", "live"}

LEMMA ReqKept ==
    ASSUME EditTables, RowsHold, NEW q, ReqGood(q)
    PROVE  ReqGood(q)'
<1>1. ReqOK(q)
  BY DEF ReqGood
<1>2. WriterMayEdit(q)'
  <2>1. SUFFICES ASSUME q.do = "template_update", q.ph = "write"
                 PROVE  /\ q.id <= lastTid'
                        /\ template'[q.id].st = "none" \/ q.who \in CAdmins \cup {template'[q.id].creator}
    BY DEF WriterMayEdit
  <2>2. q.id \in Tids /\ q.id \in Nat /\ lastTid \in Nat /\ lastTid' \in Nat
    <3>1. q.id \in Tids
      BY <1>1, <2>1 DEF ReqOK
    <3>2. lastTid \in 0..MaxTemplates /\ lastTid' \in 0..MaxTemplates
      BY DEF EditTables, RowsHold
    <3>3. MaxTemplates \in Nat /\ Tids \subseteq Nat
      BY CollabConstants
    <3>4. q.id \in Nat
      BY <3>1, <3>3
    <3>5. QED
      BY <3>1, <3>2, <3>3, <3>4
  <2>3. /\ q.id <= lastTid
        /\ template[q.id].st = "none" \/ q.who \in CAdmins \cup {template[q.id].creator}
    BY <2>1 DEF ReqGood, WriterMayEdit
  <2>4. q.id <= lastTid'
    BY <2>2, <2>3 DEF RowsHold
  <2>5. QED
    BY <2>2, <2>3, <2>4 DEF RowsHold
<1>3. CommentIsThere(q)'
  BY <1>1 DEF ReqGood, ReqOK, CommentIsThere, RowsHold
<1>4. QED
  BY <1>1, <1>2, <1>3 DEF ReqGood

\* One request moves and the others do not.
LEMMA OneEditMoves ==
    ASSUME CollabInductive, RowsHold, NEW r \in CReqs, NEW n, ReqGood(n)',
           creq' = [creq EXCEPT ![r] = n]
    PROVE  EditorsInv'
<1>1. n \in ReqType
  BY DEF ReqGood, ReqOK
<1>2. creq \in [CReqs -> ReqType] /\ creq' \in [CReqs -> ReqType]
  BY <1>1 DEF CollabInductive, EditorsInv
<1>3. ASSUME NEW p \in CReqs
      PROVE  ReqGood(creq[p])'
  <2>1. PICK m : m = creq'[p]
    OBVIOUS
  <2>2. ReqGood(m)'
    <3>1. CASE p = r
      BY <1>2, <2>1, <3>1
    <3>2. CASE p # r
      <4>1. m = creq[p] /\ ReqGood(creq[p])
        BY <1>2, <2>1, <3>2 DEF CollabInductive, EditorsInv
      <4>2. ReqGood(m)
        BY <4>1
      <4>3. QED
        BY <4>2, ReqKept DEF CollabInductive
    <3>3. QED
      BY <3>1, <3>2
  <2>3. QED
    BY <2>1, <2>2 DEF ReqGood, ReqOK, WriterMayEdit, CommentIsThere
<1>4. QED
  BY <1>2, <1>3 DEF EditorsInv

LEMMA RowsHoldStill ==
    ASSUME EditTables, comment' = comment, template' = template, lastTid' = lastTid
    PROVE  RowsHold
<1>1. \A t \in Tids : template[t].st \in {"none", "live"}
  BY DEF EditTables, TemplateType
<1>2. QED
  BY <1>1, CollabConstants DEF EditTables, RowsHold

LEMMA ReqPhaseIs ==
    ASSUME NEW q \in ReqType, NEW p \in ReqPhase
    PROVE  LET n == [q EXCEPT !.ph = p] IN
           n \in ReqType /\ n.ph = p /\ n.do = q.do /\ n.who = q.who /\ n.id = q.id
  BY DEF ReqType

----------------------------------------------------------------------------
(* Collab: the audit account *)

LEMMA OneIn ==
    ASSUME NEW S, IsFiniteSet(S), NEW x, x \notin S
    PROVE  /\ IsFiniteSet(S \cup {x}) /\ Cardinality(S) \in Nat
           /\ Cardinality(S \cup {x}) = Cardinality(S) + 1
  BY FS_AddElement, FS_CardinalityType

LEMMA OneOut ==
    ASSUME NEW S, IsFiniteSet(S), NEW x \in S
    PROVE  /\ IsFiniteSet(S \ {x}) /\ Cardinality(S) \in Nat /\ Cardinality(S \ {x}) \in Nat
           /\ Cardinality(S \ {x}) = Cardinality(S) - 1
  BY FS_RemoveElement, FS_CardinalityType

LEMMA UnauditedIsFinite ==
    ASSUME NEW a
    PROVE  IsFiniteSet(Unaudited(a)) /\ Cardinality(Unaudited(a)) \in Nat
<1>1. Unaudited(a) \subseteq CReqs
  BY DEF Unaudited
<1>2. IsFiniteSet(Unaudited(a))
  BY <1>1, CollabConstants, FS_Subset
<1>3. QED
  BY <1>2, FS_CardinalityType

\* How the changes not audited yet move with one request.
LEMMA UnauditedMoves ==
    ASSUME creq \in [CReqs -> ReqType], NEW r \in CReqs, NEW n, creq' = [creq EXCEPT ![r] = n], NEW a
    PROVE  LET was == creq[r].do = a /\ creq[r].ph = "audit"
               is == n.do = a /\ n.ph = "audit"
               before == Cardinality(Unaudited(a))
               after == Cardinality(Unaudited(a)')
           IN  /\ before \in Nat /\ after \in Nat
               /\ (was <=> is) => after = before
               /\ (~was /\ is) => after = before + 1
               /\ (was /\ ~is) => after = before - 1
<1> DEFINE was == creq[r].do = a /\ creq[r].ph = "audit"
           is == n.do = a /\ n.ph = "audit"
<1>1. PICK B, A : B = Unaudited(a) /\ A = Unaudited(a)'
  OBVIOUS
<1>2. IsFiniteSet(B) /\ Cardinality(B) \in Nat
  BY <1>1, UnauditedIsFinite
<1>3. \A p \in CReqs : p # r => creq'[p] = creq[p]
  OBVIOUS
<1>4. creq'[r] = n
  OBVIOUS
<1>5. CASE was <=> is
  <2>1. A = B
    BY <1>1, <1>3, <1>4, <1>5 DEF Unaudited
  <2>2. QED
    BY <1>1, <1>2, <1>5, <2>1
<1>6. CASE ~was /\ is
  <2>1. r \notin B /\ A = B \cup {r}
    BY <1>1, <1>3, <1>4, <1>6 DEF Unaudited
  <2>2. QED
    BY <1>1, <1>2, <1>6, <2>1, OneIn
<1>7. CASE was /\ ~is
  <2>1. r \in B /\ A = B \ {r}
    BY <1>1, <1>3, <1>4, <1>7 DEF Unaudited
  <2>2. QED
    BY <1>1, <1>2, <1>7, <2>1, OneOut
<1>8. QED
  BY <1>5, <1>6, <1>7

\* A statement that writes: one more row and one more change to audit, or one
\* less and one more of the other kind, or nothing.
RowsMove(n, a, b, T, U) ==
    /\ n.ph # "audit" \/ n.do \notin {a, b} => U = T
    /\ n.ph = "audit" /\ n.do = a => \E x : x \notin T /\ U = T \cup {x}
    /\ n.ph = "audit" /\ n.do = b => \E x \in T : U = T \ {x}

\* It keeps the account of the table.
LEMMA WriteBalances ==
    ASSUME creq \in [CReqs -> ReqType], NEW r \in CReqs, creq[r].ph # "audit", NEW n,
           creq' = [creq EXCEPT ![r] = n], trail \in [Actions -> Nat], trail' = trail,
           NEW a \in Actions, NEW b \in Actions, a # b, NEW T, NEW U, IsFiniteSet(T),
           Balanced(a, b, T), RowsMove(n, a, b, T, U)
    PROVE  Balanced(a, b, U)'
<1>1. PICK at, bt : at = trail[a] /\ bt = trail[b]
  OBVIOUS
<1>2. PICK au, bu, av, bv : /\ au = Cardinality(Unaudited(a)) /\ bu = Cardinality(Unaudited(b))
                            /\ av = Cardinality(Unaudited(a)') /\ bv = Cardinality(Unaudited(b)')
  OBVIOUS
<1>3. PICK ct, cu : ct = Cardinality(T) /\ cu = Cardinality(U)
  OBVIOUS
<1>4. at \in Nat /\ bt \in Nat /\ ct \in Nat /\ at + au = bt + bu + ct
  BY <1>1, <1>2, <1>3, FS_CardinalityType DEF Balanced
<1>5. /\ au \in Nat /\ av \in Nat /\ bu \in Nat /\ bv \in Nat
      /\ IF n.do = a /\ n.ph = "audit" THEN av = au + 1 ELSE av = au
      /\ IF n.do = b /\ n.ph = "audit" THEN bv = bu + 1 ELSE bv = bu
  BY <1>2, UnauditedMoves, ZenonT(40)
<1>6. at + av = bt + bv + cu
  <2>1. CASE n.ph # "audit" \/ n.do \notin {a, b}
    BY <1>3, <1>4, <1>5, <2>1 DEF RowsMove
  <2>2. CASE n.ph = "audit" /\ n.do = a
    <3>1. cu = ct + 1
      BY <1>3, <2>2, OneIn DEF RowsMove
    <3>2. av = au + 1 /\ bv = bu
      BY <1>5, <2>2
    <3>3. QED
      BY <1>4, <1>5, <3>1, <3>2
  <2>3. CASE n.ph = "audit" /\ n.do = b
    <3>1. cu = ct - 1 /\ cu \in Nat
      BY <1>3, <2>3, OneOut DEF RowsMove
    <3>2. bv = bu + 1 /\ av = au
      BY <1>5, <2>3
    <3>3. QED
      BY <1>4, <1>5, <3>1, <3>2
  <2>4. QED
    BY <2>1, <2>2, <2>3
<1>7. QED
  BY <1>1, <1>2, <1>3, <1>6 DEF Balanced

\* The audit row of a change takes over from it in the account.
LEMMA AuditBalancesRow ==
    ASSUME creq \in [CReqs -> ReqType], NEW r \in CReqs, creq[r].ph = "audit", creq[r].do \in Actions,
           NEW n, n.ph # "audit",
           creq' = [creq EXCEPT ![r] = n], trail \in [Actions -> Nat],
           trail' = [trail EXCEPT ![creq[r].do] = @ + 1],
           NEW a \in Actions, NEW b \in Actions, a # b, NEW T, IsFiniteSet(T), Balanced(a, b, T)
    PROVE  Balanced(a, b, T)'
<1>1. PICK at, bt, aw, bw : at = trail[a] /\ bt = trail[b] /\ aw = trail'[a] /\ bw = trail'[b]
  OBVIOUS
<1>2. PICK au, bu, av, bv : /\ au = Cardinality(Unaudited(a)) /\ bu = Cardinality(Unaudited(b))
                            /\ av = Cardinality(Unaudited(a)') /\ bv = Cardinality(Unaudited(b)')
  OBVIOUS
<1>3. PICK ct : ct = Cardinality(T)
  OBVIOUS
<1>4. at \in Nat /\ bt \in Nat /\ ct \in Nat /\ at + au = bt + bu + ct
  BY <1>1, <1>2, <1>3, FS_CardinalityType DEF Balanced
<1>5. /\ au \in Nat /\ av \in Nat /\ bu \in Nat /\ bv \in Nat
      /\ IF creq[r].do = a THEN av = au - 1 ELSE av = au
      /\ IF creq[r].do = b THEN bv = bu - 1 ELSE bv = bu
  BY <1>2, UnauditedMoves
<1>6. /\ IF creq[r].do = a THEN aw = at + 1 ELSE aw = at
      /\ IF creq[r].do = b THEN bw = bt + 1 ELSE bw = bt
  BY <1>1
<1>7. aw + av = bw + bv + ct
  <2>1. CASE creq[r].do = a
    BY <1>4, <1>5, <1>6, <2>1
  <2>2. CASE creq[r].do = b
    BY <1>4, <1>5, <1>6, <2>2
  <2>3. CASE creq[r].do \notin {a, b}
    BY <1>4, <1>5, <1>6, <2>3
  <2>4. QED
    BY <2>1, <2>2, <2>3
<1>8. QED
  BY <1>1, <1>2, <1>3, <1>7 DEF Balanced

LEMMA TablesAreFinite ==
    ASSUME EditTables
    PROVE  IsFiniteSet(starred) /\ IsFiniteSet(LiveComments) /\ IsFiniteSet(LiveTemplates)
<1>1. starred \subseteq CUsers /\ LiveComments \subseteq CUsers /\ LiveTemplates \subseteq Tids
  BY DEF EditTables, LiveComments, LiveTemplates
<1>2. QED
  BY <1>1, CollabConstants, FS_Subset

\* A statement that writes to no table and leaves nothing to audit.
LEMMA BalancesKept ==
    ASSUME CollabInductive, NEW r \in CReqs, creq[r].ph # "audit", NEW n, n.ph # "audit",
           creq' = [creq EXCEPT ![r] = n],
           UNCHANGED <<starred, comment, template, trail, lost>>
    PROVE  Balances'
<1>1. SUFFICES ASSUME lost = 0
               PROVE  /\ Balanced("session_star", "session_unstar", starred)'
                      /\ Balanced("comment_create", "comment_delete", LiveComments)'
                      /\ Balanced("template_create", "template_delete", LiveTemplates)'
  BY DEF Balances
<1>2. PICK S, C, T : S = starred /\ C = LiveComments /\ T = LiveTemplates
  OBVIOUS
<1>3. starred' = S /\ LiveComments' = C /\ LiveTemplates' = T
  BY <1>2 DEF LiveComments, LiveTemplates
<1>4. /\ Balanced("session_star", "session_unstar", S)
      /\ Balanced("comment_create", "comment_delete", C)
      /\ Balanced("template_create", "template_delete", T)
  BY <1>1, <1>2 DEF CollabInductive, Balances
<1>5. IsFiniteSet(S) /\ IsFiniteSet(C) /\ IsFiniteSet(T)
  BY <1>2, TablesAreFinite DEF CollabInductive
<1>6. creq \in [CReqs -> ReqType] /\ trail \in [Actions -> Nat] /\ trail' = trail
  BY DEF CollabInductive, EditTables, EditorsInv
<1>7. /\ "session_star" \in Actions /\ "session_unstar" \in Actions /\ "comment_create" \in Actions
      /\ "comment_delete" \in Actions /\ "template_create" \in Actions /\ "template_delete" \in Actions
  BY DEF Actions
<1>8. Balanced("session_star", "session_unstar", S)'
  BY <1>4, <1>5, <1>6, <1>7, WriteBalances DEF RowsMove
<1>9. Balanced("comment_create", "comment_delete", C)'
  BY <1>4, <1>5, <1>6, <1>7, WriteBalances DEF RowsMove
<1>10. Balanced("template_create", "template_delete", T)'
  BY <1>4, <1>5, <1>6, <1>7, WriteBalances DEF RowsMove
<1>11. QED
  BY <1>3, <1>8, <1>9, <1>10 DEF Balanced

----------------------------------------------------------------------------
(* Collab: the steps that write to no table *)

LEMMA EditTablesKept ==
    ASSUME EditTables, UNCHANGED <<starred, comment, template, lastTid>>,
           trail' \in [Actions -> Nat], lost' \in 0..MaxAuditLoss
    PROVE  EditTables'
  BY DEF EditTables, TidsAreFresh, EditorMayEdit

\* A request gives its answer, or goes on to the audit row or the read back.
LEMMA PhaseMoves ==
    ASSUME CollabInductive, RowsHold, NEW r \in CReqs, creq[r].ph # "idle",
           NEW p \in ReqPhase \ {"idle", "write"}, creq' = [creq EXCEPT ![r].ph = p],
           creq[r].do = "comment_update" =>
             /\ p # "assert"
             /\ p \in {"audit", "reread"} => comment'[creq[r].id].st # "none"
    PROVE  EditorsInv' /\ \E n : n.ph = p /\ n.do = creq[r].do /\ creq' = [creq EXCEPT ![r] = n]
<1>1. PICK q : q = creq[r]
  OBVIOUS
<1>2. ReqOK(q) /\ q \in ReqType
  BY <1>1 DEF CollabInductive, EditorsInv, ReqGood
<1>3. PICK n : n = [q EXCEPT !.ph = p]
  OBVIOUS
<1>4. n \in ReqType /\ n.ph = p /\ n.do = q.do /\ n.who = q.who /\ n.id = q.id
  BY <1>2, <1>3, ReqPhaseIs
<1>5. ReqOK(n)
  BY <1>1, <1>2, <1>4 DEF ReqOK
<1>6. WriterMayEdit(n)' /\ CommentIsThere(n)'
  BY <1>1, <1>4 DEF WriterMayEdit, CommentIsThere
<1>7. creq' = [creq EXCEPT ![r] = n]
  BY <1>1, <1>3
<1>8. ReqGood(n)'
  BY <1>5, <1>6 DEF ReqGood
<1>9. EditorsInv'
  BY <1>7, <1>8, OneEditMoves
<1>10. QED
  BY <1>1, <1>4, <1>7, <1>9

LEMMA BeginEditKeeps ==
    ASSUME CollabInductive, NEW r \in CReqs, NEW op \in COps, BeginEdit(r, op)
    PROVE  CollabInductive'
<1>1. /\ op.do \in Actions /\ op.who \in CUsers /\ op.id \in EditIds
      /\ op.do \in {"comment_update", "comment_delete"} => op.id \in CUsers
      /\ op.do \in {"template_update", "template_delete"} => op.id \in Tids
  BY EditsAssumption DEF EditIds
<1>2. PICK p \in {"check", "write"} : p = IF Route[op.do].looks THEN "check" ELSE "write"
  OBVIOUS
<1>3. op.do = "template_update" => p = "check"
  BY <1>2 DEF Route, PatchTemplate
<1>4. PICK n : n = [do |-> op.do, who |-> op.who, id |-> op.id, ph |-> p]
  OBVIOUS
<1>5. n \in ReqType /\ n.do = op.do /\ n.who = op.who /\ n.id = op.id /\ n.ph = p
  BY <1>1, <1>4 DEF ReqType, ReqPhase
<1>6. ReqOK(n)
  BY <1>1, <1>5 DEF ReqOK
<1>7. WriterMayEdit(n)' /\ CommentIsThere(n)'
  BY <1>3, <1>5 DEF WriterMayEdit, CommentIsThere
<1>8. creq' = [creq EXCEPT ![r] = n]
  BY <1>2, <1>4 DEF BeginEdit
<1>9. RowsHold
  BY RowsHoldStill DEF CollabInductive, BeginEdit
<1>10. EditorsInv'
  BY <1>6, <1>7, <1>8, <1>9, OneEditMoves DEF ReqGood
<1>11. EditTables'
  BY EditTablesKept DEF CollabInductive, EditTables, BeginEdit
<1>12. Balances'
  <2>1. creq[r].ph # "audit" /\ n.ph # "audit"
    BY <1>5 DEF BeginEdit, Quiet
  <2>2. QED
    BY <1>8, <2>1, BalancesKept DEF BeginEdit
<1>13. QED
  BY <1>10, <1>11, <1>12 DEF CollabInductive

LEMMA AuthoriseKeeps ==
    ASSUME CollabInductive, NEW r \in CReqs, Authorise(r)
    PROVE  CollabInductive'
<1>1. PICK q : q = creq[r]
  OBVIOUS
<1>2. ReqOK(q) /\ q \in ReqType /\ q.ph = "check" /\ q.do \in Actions
  BY <1>1 DEF CollabInductive, EditorsInv, ReqGood, ReqOK, Authorise
<1>3. PICK p \in {"404", "write", "403"} :
        p = IF ~Present(q) THEN "404" ELSE IF Allowed(q) THEN "write" ELSE "403"
  OBVIOUS
<1>4. PICK n : n = [q EXCEPT !.ph = p]
  OBVIOUS
<1>5. n \in ReqType /\ n.ph = p /\ n.do = q.do /\ n.who = q.who /\ n.id = q.id
  <2>1. p \in ReqPhase
    BY DEF ReqPhase
  <2>2. QED
    BY <1>2, <1>4, <2>1, ReqPhaseIs
<1>6. ReqOK(n)
  BY <1>2, <1>5 DEF ReqOK
<1>7. CommentIsThere(n)'
  BY <1>5 DEF CommentIsThere
<1>8. WriterMayEdit(n)'
  <2>1. SUFFICES ASSUME q.do = "template_update", p = "write"
                 PROVE  /\ q.id <= lastTid
                        /\ q.who \in CAdmins \cup {template[q.id].creator}
    BY <1>5 DEF WriterMayEdit, Authorise
  <2>2. q.id \in Tids
    BY <1>2, <2>1 DEF ReqOK
  <2>3. template[q.id].st = "live"
    BY <1>3, <2>1 DEF Present, OfComment, GetTemplate
  <2>4. q.who \in CAdmins \cup {template[q.id].creator}
    BY <1>3, <2>1 DEF Allowed, Author, OfComment
  <2>5. q.id \in Nat /\ lastTid \in Nat
    <3>1. MaxTemplates \in Nat /\ Tids \subseteq Nat
      BY CollabConstants
    <3>2. lastTid \in 0..MaxTemplates
      BY DEF CollabInductive, EditTables
    <3>3. q.id \in Nat
      BY <2>2, <3>1
    <3>4. QED
      BY <3>1, <3>2, <3>3
  <2>6. q.id > lastTid => template[q.id].st = "none"
    BY <2>2 DEF CollabInductive, EditTables, TidsAreFresh
  <2>7. q.id <= lastTid
    BY <2>3, <2>5, <2>6
  <2>8. QED
    BY <2>4, <2>7
<1>9. creq' = [creq EXCEPT ![r] = n]
  BY <1>1, <1>3, <1>4 DEF Authorise, To
<1>10. RowsHold
  BY RowsHoldStill DEF CollabInductive, Authorise
<1>11. EditorsInv'
  BY <1>6, <1>7, <1>8, <1>9, <1>10, OneEditMoves DEF ReqGood
<1>12. EditTables'
  BY EditTablesKept DEF CollabInductive, EditTables, Authorise
<1>13. Balances'
  <2>1. creq[r].ph # "audit" /\ n.ph # "audit"
    BY <1>1, <1>2, <1>5
  <2>2. QED
    BY <1>9, <2>1, BalancesKept DEF Authorise
<1>14. QED
  BY <1>11, <1>12, <1>13 DEF CollabInductive

LEMMA RereadKeeps ==
    ASSUME CollabInductive, NEW r \in CReqs, Reread(r)
    PROVE  CollabInductive'
<1>1. PICK p \in {"204", "assert"} :
        /\ creq' = [creq EXCEPT ![r].ph = p]
        /\ creq[r].do = "comment_update" /\ comment[creq[r].id].st # "none" => p = "204"
  BY DEF Reread, To
<1>2. creq[r].do = "comment_update" => p = "204"
  BY <1>1 DEF CollabInductive, EditorsInv, ReqGood, CommentIsThere, Reread
<1>3. RowsHold
  BY RowsHoldStill DEF CollabInductive, Reread
<1>4. p \in ReqPhase \ {"idle", "write"} /\ p \notin {"audit", "reread"} /\ creq[r].ph = "reread"
  BY DEF ReqPhase, Reread
<1>5. EditorsInv' /\ \E n : n.ph = p /\ n.do = creq[r].do /\ creq' = [creq EXCEPT ![r] = n]
  BY <1>1, <1>2, <1>3, <1>4, PhaseMoves, ZenonT(40)
<1>6. EditTables'
  BY EditTablesKept DEF CollabInductive, EditTables, Reread
<1>7. Balances'
  BY <1>4, <1>5, BalancesKept DEF Reread
<1>8. QED
  BY <1>5, <1>6, <1>7 DEF CollabInductive

LEMMA NextRequestKeeps ==
    ASSUME CollabInductive, NEW r \in CReqs, NextRequest(r)
    PROVE  CollabInductive'
<1>1. ReqGood(Quiet)'
  BY CollabConstants DEF ReqGood, ReqOK, WriterMayEdit, CommentIsThere, Quiet
<1>2. RowsHold
  BY RowsHoldStill DEF CollabInductive, NextRequest
<1>3. EditorsInv'
  BY <1>1, <1>2, OneEditMoves DEF NextRequest
<1>4. EditTables'
  BY EditTablesKept DEF CollabInductive, EditTables, NextRequest
<1>5. Balances'
  <2>1. creq[r].ph # "audit" /\ Quiet.ph # "audit"
    BY DEF NextRequest, Answered, Quiet
  <2>2. QED
    BY <2>1, BalancesKept DEF NextRequest
<1>6. QED
  BY <1>3, <1>4, <1>5 DEF CollabInductive

LEMMA AuditFailsKeeps ==
    ASSUME CollabInductive, NEW r \in CReqs, RecordAuditFails(r)
    PROVE  CollabInductive'
<1>1. PICK p \in {"500", "reread", "204"} : creq' = [creq EXCEPT ![r].ph = p]
  <2>1. PICK p \in {"500", "reread", "204"} :
          p = IF Route[creq[r].do].strict THEN "500"
              ELSE IF Route[creq[r].do].rereads THEN "reread" ELSE "204"
    OBVIOUS
  <2>2. QED
    BY <2>1 DEF RecordAuditFails, To
<1>2. RowsHold
  BY RowsHoldStill DEF CollabInductive, RecordAuditFails
<1>3. p \in ReqPhase \ {"idle", "write"} /\ p \notin {"audit", "assert"} /\ creq[r].ph = "audit"
  BY DEF ReqPhase, RecordAuditFails
<1>4. creq[r].do = "comment_update" => comment'[creq[r].id].st # "none"
  BY <1>3 DEF CollabInductive, EditorsInv, ReqGood, CommentIsThere, RecordAuditFails
<1>5. EditorsInv'
  BY <1>1, <1>2, <1>3, <1>4, PhaseMoves
<1>6. lost \in 0..MaxAuditLoss /\ MaxAuditLoss \in Nat /\ lost < MaxAuditLoss /\ lost' = lost + 1
  BY CollabConstants DEF CollabInductive, EditTables, RecordAuditFails
<1>7. lost' \in 0..MaxAuditLoss /\ lost' # 0
  BY <1>6
<1>8. EditTables'
  BY <1>7, EditTablesKept DEF CollabInductive, EditTables, RecordAuditFails
<1>9. Balances'
  BY <1>7 DEF Balances
<1>10. QED
  BY <1>5, <1>8, <1>9 DEF CollabInductive

LEMMA AuditKeeps ==
    ASSUME CollabInductive, NEW r \in CReqs, RecordAudit(r)
    PROVE  CollabInductive'
<1>1. PICK p \in {"reread", "204"} : creq' = [creq EXCEPT ![r].ph = p]
  <2>1. PICK p \in {"reread", "204"} : p = IF Route[creq[r].do].rereads THEN "reread" ELSE "204"
    OBVIOUS
  <2>2. QED
    BY <2>1 DEF RecordAudit, To
<1>2. RowsHold
  BY RowsHoldStill DEF CollabInductive, RecordAudit
<1>3. p \in ReqPhase \ {"idle", "write"} /\ p \notin {"audit", "assert"} /\ creq[r].ph = "audit"
  BY DEF ReqPhase, RecordAudit
<1>4. creq[r].do = "comment_update" => comment'[creq[r].id].st # "none"
  BY <1>3 DEF CollabInductive, EditorsInv, ReqGood, CommentIsThere, RecordAudit
<1>5. EditorsInv' /\ \E n : n.ph = p /\ n.do = creq[r].do /\ creq' = [creq EXCEPT ![r] = n]
  BY <1>1, <1>2, <1>3, <1>4, PhaseMoves
<1>6. PICK n : n.ph = p /\ creq' = [creq EXCEPT ![r] = n]
  BY <1>5
<1>7. creq[r].do \in Actions /\ creq \in [CReqs -> ReqType] /\ trail \in [Actions -> Nat]
  BY <1>3 DEF CollabInductive, EditorsInv, EditTables, ReqGood, ReqOK
<1>8. trail' = [trail EXCEPT ![creq[r].do] = @ + 1]
  BY DEF RecordAudit
<1>9. trail' \in [Actions -> Nat]
  <2>1. trail[creq[r].do] + 1 \in Nat
    BY <1>7
  <2>2. QED
    BY <1>7, <1>8, <2>1
<1>10. EditTables'
  BY <1>9, EditTablesKept DEF CollabInductive, EditTables, RecordAudit
<1>11. Balances'
  <2>1. SUFFICES ASSUME lost = 0
                 PROVE  /\ Balanced("session_star", "session_unstar", starred)'
                        /\ Balanced("comment_create", "comment_delete", LiveComments)'
                        /\ Balanced("template_create", "template_delete", LiveTemplates)'
    BY DEF Balances, RecordAudit
  <2>2. PICK S, C, T : S = starred /\ C = LiveComments /\ T = LiveTemplates
    OBVIOUS
  <2>3. starred' = S /\ LiveComments' = C /\ LiveTemplates' = T
    BY <2>2 DEF LiveComments, LiveTemplates, RecordAudit
  <2>4. /\ Balanced("session_star", "session_unstar", S)
        /\ Balanced("comment_create", "comment_delete", C)
        /\ Balanced("template_create", "template_delete", T)
    BY <2>1, <2>2 DEF CollabInductive, Balances
  <2>5. IsFiniteSet(S) /\ IsFiniteSet(C) /\ IsFiniteSet(T)
    BY <2>2, TablesAreFinite DEF CollabInductive
  <2>6. /\ "session_star" \in Actions /\ "session_unstar" \in Actions /\ "comment_create" \in Actions
        /\ "comment_delete" \in Actions /\ "template_create" \in Actions /\ "template_delete" \in Actions
    BY DEF Actions
  <2>7. n.ph # "audit"
    BY <1>3, <1>6
  <2>8. Balanced("session_star", "session_unstar", S)'
    BY <1>3, <1>6, <1>7, <1>8, <2>4, <2>5, <2>6, <2>7, AuditBalancesRow
  <2>9. Balanced("comment_create", "comment_delete", C)'
    BY <1>3, <1>6, <1>7, <1>8, <2>4, <2>5, <2>6, <2>7, AuditBalancesRow
  <2>10. Balanced("template_create", "template_delete", T)'
    BY <1>3, <1>6, <1>7, <1>8, <2>4, <2>5, <2>6, <2>7, AuditBalancesRow
  <2>11. QED
    BY <2>3, <2>8, <2>9, <2>10 DEF Balanced
<1>12. QED
  BY <1>5, <1>10, <1>11 DEF CollabInductive

----------------------------------------------------------------------------
(* Collab: the statements that write *)

LEMMA WrittenBalances ==
    ASSUME CollabInductive, NEW r \in CReqs, creq[r].ph = "write", NEW n,
           creq' = [creq EXCEPT ![r] = n], trail' = trail, lost' = lost,
           RowsMove(n, "session_star", "session_unstar", starred, starred'),
           RowsMove(n, "comment_create", "comment_delete", LiveComments, LiveComments'),
           RowsMove(n, "template_create", "template_delete", LiveTemplates, LiveTemplates')
    PROVE  Balances'
<1>1. SUFFICES ASSUME lost = 0
               PROVE  /\ Balanced("session_star", "session_unstar", starred)'
                      /\ Balanced("comment_create", "comment_delete", LiveComments)'
                      /\ Balanced("template_create", "template_delete", LiveTemplates)'
  BY DEF Balances
<1>2. PICK S, C, T : S = starred /\ C = LiveComments /\ T = LiveTemplates
  OBVIOUS
<1>3. PICK Sn, Cn, Tn : Sn = starred' /\ Cn = LiveComments' /\ Tn = LiveTemplates'
  OBVIOUS
<1>4. /\ Balanced("session_star", "session_unstar", S)
      /\ Balanced("comment_create", "comment_delete", C)
      /\ Balanced("template_create", "template_delete", T)
  BY <1>1, <1>2 DEF CollabInductive, Balances
<1>5. IsFiniteSet(S) /\ IsFiniteSet(C) /\ IsFiniteSet(T)
  BY <1>2, TablesAreFinite DEF CollabInductive
<1>6. /\ creq \in [CReqs -> ReqType] /\ trail \in [Actions -> Nat] /\ trail' = trail
      /\ creq[r].ph # "audit"
  BY DEF CollabInductive, EditTables, EditorsInv
<1>7. /\ "session_star" \in Actions /\ "session_unstar" \in Actions /\ "comment_create" \in Actions
      /\ "comment_delete" \in Actions /\ "template_create" \in Actions /\ "template_delete" \in Actions
  BY DEF Actions
<1>8. Balanced("session_star", "session_unstar", Sn)'
  BY <1>2, <1>3, <1>4, <1>5, <1>6, <1>7, WriteBalances
<1>9. Balanced("comment_create", "comment_delete", Cn)'
  BY <1>2, <1>3, <1>4, <1>5, <1>6, <1>7, WriteBalances
<1>10. Balanced("template_create", "template_delete", Tn)'
  BY <1>2, <1>3, <1>4, <1>5, <1>6, <1>7, WriteBalances
<1>11. QED
  BY <1>3, <1>8, <1>9, <1>10 DEF Balanced

LEMMA StarsKeep ==
    ASSUME CollabInductive, NEW r \in CReqs, creq[r].ph = "write", Star(r) \/ Unstar(r),
           trail' = trail, lost' = lost
    PROVE  CollabInductive'
<1>1. PICK w \in CUsers : w = creq[r].who
  BY DEF CollabInductive, EditorsInv, ReqGood, ReqOK
<1>2. PICK p \in {"204", "audit"} :
        /\ creq' = [creq EXCEPT ![r].ph = p]
        /\ \/ /\ creq[r].do = "session_star" /\ starred' = starred \cup {w}
              /\ p = "audit" <=> w \notin starred
           \/ /\ creq[r].do = "session_unstar" /\ starred' = starred \ {w}
              /\ p = "audit" <=> w \in starred
  BY <1>1 DEF Star, Unstar, To
<1>3. comment' = comment /\ template' = template /\ lastTid' = lastTid
  BY DEF Star, Unstar
<1>4. RowsHold
  BY <1>3, RowsHoldStill DEF CollabInductive
<1>5. p \in ReqPhase \ {"idle", "write"}
  BY DEF ReqPhase
<1>6. EditorsInv' /\ \E n : n.ph = p /\ n.do = creq[r].do /\ creq' = [creq EXCEPT ![r] = n]
  BY <1>2, <1>4, <1>5, PhaseMoves
<1>7. PICK n : n.ph = p /\ n.do = creq[r].do /\ creq' = [creq EXCEPT ![r] = n]
  BY <1>6
<1>8. EditTables'
  BY <1>2, <1>3 DEF CollabInductive, EditTables, TidsAreFresh, EditorMayEdit
<1>9. LiveComments' = LiveComments /\ LiveTemplates' = LiveTemplates
  BY <1>3 DEF LiveComments, LiveTemplates
<1>10. p # "audit" => starred' = starred
  BY <1>2
<1>11. /\ RowsMove(n, "session_star", "session_unstar", starred, starred')
       /\ RowsMove(n, "comment_create", "comment_delete", LiveComments, LiveComments')
       /\ RowsMove(n, "template_create", "template_delete", LiveTemplates, LiveTemplates')
  BY <1>2, <1>7, <1>9, <1>10 DEF RowsMove
<1>12. Balances'
  BY <1>7, <1>11, WrittenBalances
<1>13. QED
  BY <1>6, <1>8, <1>12 DEF CollabInductive

\* A statement that changes one comment.
LEMMA CommentWritten ==
    ASSUME CollabInductive, NEW r \in CReqs, creq[r].ph = "write",
           NEW p \in {"audit", "409", "404"}, creq' = [creq EXCEPT ![r].ph = p],
           NEW u \in CUsers, NEW c \in CommentType, comment' = [comment EXCEPT ![u] = c],
           comment[u].st # "none" => c.st # "none",
           creq[r].do \in {"comment_create", "comment_update", "comment_delete"},
           creq[r].do = "comment_update" /\ p = "audit" => creq[r].id = u /\ c.st # "none",
           p # "audit" => c = comment[u],
           p = "audit" => CASE creq[r].do = "comment_create" -> comment[u].st # "live" /\ c.st = "live"
                            [] creq[r].do = "comment_delete" -> comment[u].st = "live" /\ c.st # "live"
                            [] OTHER -> comment[u].st = c.st,
           UNCHANGED <<starred, template, lastTid, trail, lost>>
    PROVE  CollabInductive'
<1>1. comment \in [CUsers -> CommentType] /\ comment' \in [CUsers -> CommentType]
  BY DEF CollabInductive, EditTables
<1>2. comment'[u] = c /\ \A v \in CUsers : v # u => comment'[v] = comment[v]
  BY <1>1
<1>3. RowsHold
  <2>1. \A v \in CUsers : comment[v].st # "none" => comment'[v].st # "none"
    BY <1>2
  <2>2. \A t \in Tids : template[t].st \in {"none", "live"}
    BY DEF CollabInductive, EditTables, TemplateType
  <2>3. lastTid \in 0..MaxTemplates /\ lastTid <= lastTid
    BY CollabConstants DEF CollabInductive, EditTables
  <2>4. QED
    BY <2>1, <2>2, <2>3 DEF RowsHold
<1>4. p \in ReqPhase \ {"idle", "write"} /\ p \notin {"assert", "reread"}
  BY DEF ReqPhase
<1>5. EditorsInv' /\ \E n : n.ph = p /\ n.do = creq[r].do /\ creq' = [creq EXCEPT ![r] = n]
  <2>1. creq[r].do = "comment_update" =>
          /\ p # "assert"
          /\ p \in {"audit", "reread"} => comment'[creq[r].id].st # "none"
    BY <1>2, <1>4
  <2>2. creq[r].ph # "idle"
    OBVIOUS
  <2>3. QED
    BY <1>3, <1>4, <2>1, <2>2, PhaseMoves
<1>6. PICK n : n.ph = p /\ n.do = creq[r].do /\ creq' = [creq EXCEPT ![r] = n]
  BY <1>5
<1>7. EditTables'
  BY <1>1 DEF CollabInductive, EditTables, TidsAreFresh, EditorMayEdit
<1>8. LiveTemplates' = LiveTemplates
  BY DEF LiveTemplates
<1>9. p # "audit" \/ creq[r].do \notin {"comment_create", "comment_delete"} => LiveComments' = LiveComments
  <2>1. SUFFICES ASSUME p # "audit" \/ creq[r].do \notin {"comment_create", "comment_delete"}
                 PROVE  LiveComments' = LiveComments
    OBVIOUS
  <2>2. c.st = comment[u].st
    BY <2>1
  <2>3. \A v \in CUsers : comment'[v].st = comment[v].st
    BY <1>2, <2>2
  <2>4. QED
    BY <2>3 DEF LiveComments
<1>10. p = "audit" /\ creq[r].do = "comment_create" =>
         u \notin LiveComments /\ LiveComments' = LiveComments \cup {u}
  BY <1>2 DEF LiveComments
<1>11. p = "audit" /\ creq[r].do = "comment_delete" =>
         u \in LiveComments /\ LiveComments' = LiveComments \ {u}
  BY <1>2 DEF LiveComments
<1>12. /\ RowsMove(n, "session_star", "session_unstar", starred, starred')
       /\ RowsMove(n, "template_create", "template_delete", LiveTemplates, LiveTemplates')
  BY <1>6, <1>8 DEF RowsMove
<1>13. RowsMove(n, "comment_create", "comment_delete", LiveComments, LiveComments')
  BY <1>6, <1>9, <1>10, <1>11 DEF RowsMove
<1>14. Balances'
  BY <1>6, <1>12, <1>13, WrittenBalances
<1>15. QED
  BY <1>5, <1>7, <1>14 DEF CollabInductive

LEMMA CreateCommentKeeps ==
    ASSUME CollabInductive, NEW r \in CReqs, creq[r].ph = "write", CreateComment(r),
           trail' = trail, lost' = lost
    PROVE  CollabInductive'
<1>1. PICK u \in CUsers : u = creq[r].who
  BY DEF CollabInductive, EditorsInv, ReqGood, ReqOK
<1>2. PICK c : c = [st |-> "live", body |-> 1] /\ c.st = "live" /\ c \in CommentType
  <2>1. 1 \in 0..3
    OBVIOUS
  <2>2. [st |-> "live", body |-> 1] \in CommentType
    BY <2>1 DEF CommentType
  <2>3. QED
    BY <2>2
<1>3. /\ comment' = [comment EXCEPT ![u] = c] /\ creq' = [creq EXCEPT ![r].ph = "audit"]
      /\ comment[u].st = "none" /\ creq[r].do = "comment_create"
      /\ UNCHANGED <<starred, template, lastTid>>
  BY <1>1, <1>2 DEF CreateComment, To
<1>4. QED
  BY <1>2, <1>3, CommentWritten

LEMMA UpdateCommentKeeps ==
    ASSUME CollabInductive, NEW r \in CReqs, creq[r].ph = "write",
           UpdateComment(r) \/ SoftDeleteComment(r), trail' = trail, lost' = lost
    PROVE  CollabInductive'
<1>1. creq[r].do \in {"comment_update", "comment_delete"}
  BY DEF UpdateComment, SoftDeleteComment
<1>2. PICK u \in CUsers : u = creq[r].id
  BY <1>1 DEF CollabInductive, EditorsInv, ReqGood, ReqOK
<1>3. PICK x \in CommentType : x = comment[u]
  BY DEF CollabInductive, EditTables
<1>4. comment = [comment EXCEPT ![u] = x]
  BY <1>3 DEF CollabInductive, EditTables
<1>5. UNCHANGED <<starred, template, lastTid>>
  BY DEF UpdateComment, SoftDeleteComment
<1>6. CASE x.st # "live"
  <2>1. comment' = [comment EXCEPT ![u] = x]
    BY <1>2, <1>3, <1>4, <1>6 DEF UpdateComment, SoftDeleteComment
  <2>2. PICK p \in {"409", "404"} : creq' = [creq EXCEPT ![r].ph = p]
    BY <1>2, <1>3, <1>6 DEF UpdateComment, SoftDeleteComment, To
  <2>3. QED
    BY <1>1, <1>3, <1>5, <2>1, <2>2, CommentWritten
<1>7. CASE x.st = "live" /\ UpdateComment(r)
  <2>1. x.body \in 0..3
    BY DEF CommentType
  <2>2. PICK b \in 0..3 : b = IF x.body < 3 THEN x.body + 1 ELSE x.body
    BY <2>1
  <2>3. PICK c : c = [x EXCEPT !.body = b]
    OBVIOUS
  <2>4. c \in CommentType /\ c.st = "live"
    BY <1>7, <2>3 DEF CommentType
  <2>5. /\ comment' = [comment EXCEPT ![u] = c] /\ creq' = [creq EXCEPT ![r].ph = "audit"]
        /\ creq[r].do = "comment_update"
    BY <1>2, <1>3, <1>7, <2>2, <2>3 DEF UpdateComment, To
  <2>6. QED
    BY <1>2, <1>3, <1>5, <1>7, <2>4, <2>5, CommentWritten
<1>8. CASE x.st = "live" /\ SoftDeleteComment(r)
  <2>1. PICK c : c = [x EXCEPT !.st = "deleted"]
    OBVIOUS
  <2>2. c \in CommentType /\ c.st = "deleted"
    BY <2>1 DEF CommentType
  <2>3. /\ comment' = [comment EXCEPT ![u] = c] /\ creq' = [creq EXCEPT ![r].ph = "audit"]
        /\ creq[r].do = "comment_delete"
    BY <1>2, <1>3, <1>8, <2>1 DEF SoftDeleteComment, To
  <2>4. QED
    BY <1>3, <1>5, <1>8, <2>2, <2>3, CommentWritten
<1>9. QED
  BY <1>6, <1>7, <1>8

\* A statement that changes one template.
LEMMA TemplateWritten ==
    ASSUME CollabInductive, NEW r \in CReqs, creq[r].ph = "write",
           NEW p \in {"audit", "409", "404"}, creq' = [creq EXCEPT ![r].ph = p],
           NEW t \in Tids, NEW x \in TemplateType, template' = [template EXCEPT ![t] = x],
           x.editor \in CAdmins \cup {x.creator},
           lastTid' \in 0..MaxTemplates, lastTid <= lastTid',
           t <= lastTid /\ x.st # "none" => template[t].st # "none" /\ x.creator = template[t].creator,
           x.st # "none" => t <= lastTid',
           creq[r].do \in {"template_create", "template_update", "template_delete"},
           p # "audit" => x.st = template[t].st,
           p = "audit" => CASE creq[r].do = "template_create" -> template[t].st = "none" /\ x.st = "live"
                            [] creq[r].do = "template_delete" -> template[t].st = "live" /\ x.st = "none"
                            [] OTHER -> x.st = template[t].st,
           UNCHANGED <<starred, comment, trail, lost>>
    PROVE  CollabInductive'
<1>1. template \in [Tids -> TemplateType] /\ template' \in [Tids -> TemplateType]
  BY DEF CollabInductive, EditTables
<1>2. template'[t] = x /\ \A v \in Tids : v # t => template'[v] = template[v]
  BY <1>1
<1>3. RowsHold
  <2>1. \A v \in Tids : template'[v].st \in {"none", "live"}
    BY <1>1 DEF TemplateType
  <2>2. QED
    BY <1>2, <2>1 DEF RowsHold
<1>4. p \in ReqPhase \ {"idle", "write"}
  BY DEF ReqPhase
<1>5. EditorsInv' /\ \E n : n.ph = p /\ n.do = creq[r].do /\ creq' = [creq EXCEPT ![r] = n]
  <2>1. creq[r].do # "comment_update" /\ creq[r].ph # "idle"
    OBVIOUS
  <2>2. QED
    BY <1>3, <1>4, <2>1, PhaseMoves
<1>6. PICK n : n.ph = p /\ n.do = creq[r].do /\ creq' = [creq EXCEPT ![r] = n]
  BY <1>5
<1>7. EditTables'
  <2>1. TidsAreFresh'
    <3>1. SUFFICES ASSUME NEW v \in Tids, v > lastTid'
                   PROVE  template'[v].st = "none"
      BY DEF TidsAreFresh
    <3>2. v \in Nat /\ lastTid \in Nat /\ lastTid' \in Nat
      <4>1. MaxTemplates \in Nat /\ Tids \subseteq Nat
        BY CollabConstants
      <4>2. lastTid \in 0..MaxTemplates
        BY DEF CollabInductive, EditTables
      <4>3. v \in Nat
        BY <4>1
      <4>4. QED
        BY <4>1, <4>2, <4>3
    <3>3. v > lastTid /\ ~(v <= lastTid')
      BY <3>1, <3>2
    <3>4. template[v].st = "none"
      BY <3>3 DEF CollabInductive, EditTables, TidsAreFresh
    <3>5. v = t => x.st = "none"
      BY <1>1, <3>3
    <3>6. QED
      BY <1>2, <3>4, <3>5
  <2>2. EditorMayEdit'
    BY <1>2 DEF CollabInductive, EditTables, EditorMayEdit
  <2>3. QED
    BY <1>1, <2>1, <2>2 DEF CollabInductive, EditTables
<1>8. LiveComments' = LiveComments
  BY DEF LiveComments
<1>9. p # "audit" \/ creq[r].do \notin {"template_create", "template_delete"}
        => LiveTemplates' = LiveTemplates
  <2>1. SUFFICES ASSUME p # "audit" \/ creq[r].do \notin {"template_create", "template_delete"}
                 PROVE  LiveTemplates' = LiveTemplates
    OBVIOUS
  <2>2. x.st = template[t].st
    BY <2>1
  <2>3. \A v \in Tids : template'[v].st = template[v].st
    BY <1>2, <2>2
  <2>4. QED
    BY <2>3 DEF LiveTemplates
<1>10. p = "audit" /\ creq[r].do = "template_create" =>
         t \notin LiveTemplates /\ LiveTemplates' = LiveTemplates \cup {t}
  BY <1>2 DEF LiveTemplates
<1>11. p = "audit" /\ creq[r].do = "template_delete" =>
         t \in LiveTemplates /\ LiveTemplates' = LiveTemplates \ {t}
  BY <1>2 DEF LiveTemplates
<1>12. /\ RowsMove(n, "session_star", "session_unstar", starred, starred')
       /\ RowsMove(n, "comment_create", "comment_delete", LiveComments, LiveComments')
  BY <1>6, <1>8 DEF RowsMove
<1>13. RowsMove(n, "template_create", "template_delete", LiveTemplates, LiveTemplates')
  BY <1>6, <1>9, <1>10, <1>11 DEF RowsMove
<1>14. Balances'
  BY <1>6, <1>12, <1>13, WrittenBalances
<1>15. QED
  BY <1>5, <1>7, <1>14 DEF CollabInductive

LEMMA LastTidIs ==
    ASSUME CollabInductive
    PROVE  /\ lastTid \in Nat /\ lastTid \in 0..MaxTemplates /\ lastTid <= lastTid
           /\ MaxTemplates \in Nat
           /\ \A t \in Tids : t \in Nat /\ (template[t].st # "none" => t <= lastTid)
<1>1. MaxTemplates \in Nat /\ Tids \subseteq Nat /\ lastTid \in 0..MaxTemplates
  BY CollabConstants DEF CollabInductive, EditTables
<1>2. lastTid \in Nat
  BY <1>1
<1>3. ASSUME NEW t \in Tids
      PROVE  t \in Nat /\ (template[t].st # "none" => t <= lastTid)
  <2>1. t \in Nat
    BY <1>1
  <2>2. t > lastTid => template[t].st = "none"
    BY DEF CollabInductive, EditTables, TidsAreFresh
  <2>3. QED
    BY <1>2, <2>1, <2>2
<1>4. QED
  BY <1>1, <1>2, <1>3

LEMMA CreateTemplateKeeps ==
    ASSUME Dialect = "postgresql", CollabInductive, NEW r \in CReqs, creq[r].ph = "write",
           CreateTemplate(r), trail' = trail, lost' = lost
    PROVE  CollabInductive'
<1>1. PICK w \in CUsers : w = creq[r].who
  BY DEF CollabInductive, EditorsInv, ReqGood, ReqOK
<1>2. FreshId = lastTid + 1
  BY DEF FreshId
<1>3. PICK taken \in BOOLEAN : taken <=> \E t \in Tids : template[t].st = "live" /\ template[t].creator = w
  OBVIOUS
<1>4. creq[r].do = "template_create" /\ starred' = starred /\ comment' = comment
  BY DEF CreateTemplate
<1>5. CASE taken
  <2>1. PICK t \in Tids : template[t].st = "live" /\ template[t].creator = w
    BY <1>3, <1>5
  <2>2. PICK x \in TemplateType : x = template[t]
    BY DEF CollabInductive, EditTables
  <2>3. /\ template' = template /\ lastTid' = lastTid /\ creq' = [creq EXCEPT ![r].ph = "409"]
    BY <1>1, <1>3, <1>5 DEF CreateTemplate, To
  <2>4. template' = [template EXCEPT ![t] = x]
    BY <2>2, <2>3 DEF CollabInductive, EditTables
  <2>5. x.editor \in CAdmins \cup {x.creator}
    BY <2>2 DEF CollabInductive, EditTables, EditorMayEdit
  <2>6. QED
    BY <1>4, <2>1, <2>2, <2>3, <2>4, <2>5, LastTidIs, TemplateWritten, ZenonT(40)
<1>6. CASE ~taken
  <2>1. PICK t \in Tids : t = lastTid + 1
    BY <1>1, <1>2, <1>3, <1>6 DEF CreateTemplate
  <2>2. PICK x : x = [st |-> "live", creator |-> w, editor |-> w]
    OBVIOUS
  <2>3. x \in TemplateType /\ x.st = "live" /\ x.creator = w /\ x.editor = w
    BY <2>2 DEF TemplateType
  <2>4. lastTid \in Nat /\ t \in Nat /\ t \in 0..MaxTemplates /\ ~(t < lastTid) /\ ~(t <= lastTid)
    <3>1. lastTid \in Nat /\ MaxTemplates \in Nat
      BY LastTidIs
    <3>2. QED
      BY <2>1, <3>1 DEF Tids
  <2>5. /\ template' = [template EXCEPT ![t] = x] /\ lastTid' = t
        /\ creq' = [creq EXCEPT ![r].ph = "audit"]
    BY <1>1, <1>2, <1>3, <1>6, <2>1, <2>2, <2>4 DEF CreateTemplate, To
  <2>6. template[t].st = "none"
    BY <2>4, LastTidIs
  <2>7. t <= t /\ lastTid <= t
    BY <2>1, <2>4
  <2>8. QED
    BY <1>4, <2>3, <2>4, <2>5, <2>6, <2>7, TemplateWritten
<1>7. QED
  BY <1>5, <1>6

LEMMA UpdateTemplateKeeps ==
    ASSUME CollabInductive, NEW r \in CReqs, creq[r].ph = "write",
           UpdateTemplate(r) \/ DeleteTemplate(r), trail' = trail, lost' = lost
    PROVE  CollabInductive'
<1>1. creq[r].do \in {"template_update", "template_delete"}
  BY DEF UpdateTemplate, DeleteTemplate
<1>2. PICK t \in Tids : t = creq[r].id
  BY <1>1 DEF CollabInductive, EditorsInv, ReqGood, ReqOK
<1>3. PICK y \in TemplateType : y = template[t]
  BY DEF CollabInductive, EditTables
<1>4. template = [template EXCEPT ![t] = y] /\ y.editor \in CAdmins \cup {y.creator}
  BY <1>3 DEF CollabInductive, EditTables, EditorMayEdit
<1>5. UNCHANGED <<starred, comment, lastTid>>
  BY DEF UpdateTemplate, DeleteTemplate
<1>6. y.st \in {"none", "live"}
  BY DEF TemplateType
<1>7. CASE UpdateTemplate(r) /\ y.st = "none"
  <2>1. /\ template' = [template EXCEPT ![t] = y] /\ creq' = [creq EXCEPT ![r].ph = "404"]
        /\ creq[r].do = "template_update"
    BY <1>2, <1>3, <1>4, <1>7 DEF UpdateTemplate, To
  <2>2. QED
    BY <1>3, <1>4, <1>5, <1>7, <2>1, LastTidIs, TemplateWritten
<1>8. CASE UpdateTemplate(r) /\ y.st = "live"
  <2>1. PICK w \in CUsers : w = creq[r].who
    BY DEF CollabInductive, EditorsInv, ReqGood, ReqOK
  <2>2. PICK x : x = [y EXCEPT !.editor = w]
    OBVIOUS
  <2>3. x \in TemplateType /\ x.st = "live" /\ x.creator = y.creator /\ x.editor = w
    BY <1>8, <2>2 DEF TemplateType
  <2>4. /\ template' = [template EXCEPT ![t] = x] /\ creq' = [creq EXCEPT ![r].ph = "audit"]
        /\ creq[r].do = "template_update"
    BY <1>2, <1>3, <1>8, <2>1, <2>2 DEF UpdateTemplate, To
  <2>5. w \in CAdmins \cup {y.creator}
    BY <1>2, <1>3, <1>8, <2>1, <2>4 DEF CollabInductive, EditorsInv, ReqGood, WriterMayEdit
  <2>6. QED
    BY <1>3, <1>5, <1>8, <2>3, <2>4, <2>5, LastTidIs, TemplateWritten
<1>9. CASE DeleteTemplate(r)
  <2>1. PICK x : x = NoTemplate
    OBVIOUS
  <2>2. x \in TemplateType /\ x.st = "none" /\ x.editor = x.creator
    BY <2>1, CollabConstants DEF NoTemplate
  <2>3. PICK p \in {"audit", "404"} :
          creq' = [creq EXCEPT ![r].ph = p] /\ (p = "audit" <=> y.st = "live")
    BY <1>2, <1>3, <1>9 DEF DeleteTemplate, To
  <2>4. template' = [template EXCEPT ![t] = x] /\ creq[r].do = "template_delete"
    BY <1>2, <1>9, <2>1 DEF DeleteTemplate
  <2>5. QED
    BY <1>3, <1>5, <1>6, <2>2, <2>3, <2>4, LastTidIs, TemplateWritten
<1>10. QED
  BY <1>6, <1>7, <1>8, <1>9

----------------------------------------------------------------------------
(* Collab: the theorems *)

LEMMA CollabStart ==
    ASSUME CollabInit
    PROVE  CollabInductive
<1>1. \A u \in CUsers : comment[u] = NoComment /\ comment[u].st = "none"
  BY DEF CollabInit, NoComment
<1>2. \A t \in Tids : /\ template[t] = NoTemplate /\ template[t].st = "none"
                      /\ template[t].editor = template[t].creator
  BY DEF CollabInit, NoTemplate
<1>3. \A r \in CReqs : creq[r] = Quiet /\ creq[r].do = "none" /\ creq[r].ph = "idle"
  BY DEF CollabInit, Quiet
<1>4. EditTables
  <2>1. lastTid \in 0..MaxTemplates /\ lost \in 0..MaxAuditLoss
    BY CollabConstants DEF CollabInit
  <2>2. TidsAreFresh /\ EditorMayEdit
    BY <1>2 DEF TidsAreFresh, EditorMayEdit
  <2>3. comment \in [CUsers -> CommentType] /\ template \in [Tids -> TemplateType]
    BY CollabConstants DEF CollabInit
  <2>4. starred \in SUBSET CUsers /\ trail \in [Actions -> Nat]
    BY DEF CollabInit
  <2>5. QED
    BY <2>1, <2>2, <2>3, <2>4 DEF EditTables
<1>5. EditorsInv
  <2>1. creq \in [CReqs -> ReqType]
    BY CollabConstants DEF CollabInit
  <2>2. QED
    BY <1>3, <2>1 DEF EditorsInv, ReqGood, ReqOK, WriterMayEdit, CommentIsThere
<1>6. Balances
  <2>1. starred = {} /\ LiveComments = {} /\ LiveTemplates = {}
    BY <1>1, <1>2 DEF CollabInit, LiveComments, LiveTemplates
  <2>2. \A a : Unaudited(a) = {}
    BY <1>3 DEF Unaudited
  <2>3. \A a \in Actions : trail[a] = 0
    BY DEF CollabInit
  <2>4. Cardinality({}) = 0
    BY FS_EmptySet
  <2>5. QED
    BY <2>1, <2>2, <2>3, <2>4 DEF Balances, Balanced, Actions
<1>7. QED
  BY <1>4, <1>5, <1>6 DEF CollabInductive

LEMMA CollabStep ==
    ASSUME Dialect = "postgresql", CollabInductive, [CollabNext]_collabVars
    PROVE  CollabInductive'
<1>1. CASE UNCHANGED collabVars
  <2>1. EditTables'
    BY <1>1, EditTablesKept DEF CollabInductive, EditTables, collabVars
  <2>2. EditorsInv'
    BY <1>1 DEF CollabInductive, EditorsInv, ReqGood, ReqOK, WriterMayEdit, CommentIsThere, collabVars
  <2>3. Balances'
    BY <1>1 DEF CollabInductive, Balances, Balanced, Unaudited, LiveComments, LiveTemplates, collabVars
  <2>4. QED
    BY <2>1, <2>2, <2>3 DEF CollabInductive
<1>2. ASSUME NEW r \in CReqs, Write(r)
      PROVE  CollabInductive'
  <2>1. creq[r].ph = "write" /\ trail' = trail /\ lost' = lost
    BY <1>2 DEF Write
  <2>2. QED
    BY <1>2, <2>1, StarsKeep, CreateCommentKeeps, UpdateCommentKeeps, CreateTemplateKeeps,
       UpdateTemplateKeeps DEF Write
<1>3. QED
  BY <1>1, <1>2, BeginEditKeeps, AuthoriseKeeps, AuditKeeps, AuditFailsKeeps, RereadKeeps,
     NextRequestKeeps DEF CollabNext

LEMMA CollabShows ==
    ASSUME CollabInductive
    PROVE  CollabInv
<1>1. CollabTypeOK
  <2>1. \A u \in CUsers : comment[u].st \in {"none", "live", "deleted"} /\ comment[u].body \in 0..3
    BY DEF CollabInductive, EditTables, CommentType
  <2>2. \A t \in Tids : template[t].st \in {"none", "live"}
    BY DEF CollabInductive, EditTables, TemplateType
  <2>3. \A r \in CReqs : creq[r].ph \in ReqPhase
    BY DEF CollabInductive, EditorsInv, ReqType
  <2>4. QED
    BY <2>1, <2>2, <2>3 DEF CollabTypeOK, CollabInductive, EditTables, ReqPhase
<1>2. AuditBalances
  <2>1. SUFFICES ASSUME lost = 0, \A r \in CReqs : creq[r] = Quiet \/ Answered(r)
                 PROVE  /\ trail["session_star"] - trail["session_unstar"] = Cardinality(starred)
                        /\ trail["comment_create"] - trail["comment_delete"] = Cardinality(LiveComments)
                        /\ trail["template_create"] - trail["template_delete"] = Cardinality(LiveTemplates)
    BY DEF AuditBalances, CountOf, LiveComments, LiveTemplates
  <2>2. \A r \in CReqs : creq[r].ph # "audit"
    BY <2>1 DEF Answered, Quiet
  <2>3. \A a : Unaudited(a) = {}
    BY <2>2 DEF Unaudited
  <2>4. Cardinality({}) = 0
    BY FS_EmptySet
  <2>5. \A a \in Actions : trail[a] \in Nat
    BY DEF CollabInductive, EditTables
  <2>6. /\ "session_star" \in Actions /\ "session_unstar" \in Actions /\ "comment_create" \in Actions
        /\ "comment_delete" \in Actions /\ "template_create" \in Actions /\ "template_delete" \in Actions
    BY DEF Actions
  <2>7. PICK s, c, t : s = Cardinality(starred) /\ c = Cardinality(LiveComments)
                       /\ t = Cardinality(LiveTemplates)
    OBVIOUS
  <2>8. s \in Nat /\ c \in Nat /\ t \in Nat
    BY <2>7, TablesAreFinite, FS_CardinalityType DEF CollabInductive
  <2>9. /\ trail["session_star"] + 0 = trail["session_unstar"] + 0 + s
        /\ trail["comment_create"] + 0 = trail["comment_delete"] + 0 + c
        /\ trail["template_create"] + 0 = trail["template_delete"] + 0 + t
    BY <2>1, <2>3, <2>4, <2>7 DEF CollabInductive, Balances, Balanced
  <2>10. QED
    BY <2>5, <2>6, <2>7, <2>8, <2>9
<1>3. EditorMayEdit
  BY DEF CollabInductive, EditTables
<1>4. UpdatedCommentIsThere
  BY DEF CollabInductive, EditorsInv, ReqGood, CommentIsThere, UpdatedCommentIsThere
<1>5. QED
  BY <1>1, <1>2, <1>3, <1>4 DEF CollabInv

\* Where template ids are not used twice (PostgreSQL), the audit log accounts
\* for every star, comment and template once the requests are answered and no
\* audit write failed, only a template's creator or an admin ever edits it, and
\* an updated comment is there to be read back, however the statements of any
\* number of requests interleave (api/routers/sessions.py, comments.py and
\* templates.py).
THEOREM EditsAreAccountedFor ==
    ASSUME Dialect = "postgresql"
    PROVE  CollabSpec => []CollabInv
<1>1. CollabInit => CollabInductive
  BY CollabStart
<1>2. CollabInductive /\ [CollabNext]_collabVars => CollabInductive'
  BY CollabStep
<1>3. CollabInductive => CollabInv
  BY CollabShows
<1>4. QED
  BY <1>1, <1>2, <1>3, PTL DEF CollabSpec

\* A step leaves a comment that was deleted as it is.
LeavesTombstones == \A u \in CUsers : comment[u].st = "deleted" => comment'[u] = comment[u]

CommentTable == comment = [u \in CUsers |-> comment[u]]

LEMMA TombstonesStay ==
    ASSUME [CollabNext]_collabVars, CommentTable
    PROVE  LeavesTombstones /\ CommentTable'
<1>1. CASE comment' = comment
  BY <1>1 DEF LeavesTombstones, CommentTable
<1>2. CASE comment' # comment
  <2>1. PICK r \in CReqs : CreateComment(r) \/ UpdateComment(r) \/ SoftDeleteComment(r)
    BY <1>2 DEF CollabNext, collabVars, BeginEdit, Authorise, Write, RecordAudit, RecordAuditFails,
                Reread, NextRequest, Star, Unstar, CreateTemplate, UpdateTemplate, DeleteTemplate
  <2>2. PICK v, c : comment' = [comment EXCEPT ![v] = c] /\ comment[v].st # "deleted"
    BY <1>2, <2>1 DEF CreateComment, UpdateComment, SoftDeleteComment
  <2>3. LeavesTombstones
    BY <2>2 DEF LeavesTombstones, CommentTable
  <2>4. CommentTable'
    BY <2>2 DEF CommentTable
  <2>5. QED
    BY <2>3, <2>4
<1>3. QED
  BY <1>1, <1>2

\* A comment that was deleted keeps the wording it was deleted with, on either
\* database: the edit that was authorised before the delete finds deleted_at
\* set and answers 409 (update_comment, "WHERE ... deleted_at IS NULL").
THEOREM DeletedCommentsAreFrozen == CollabSpec => DeletedIsFrozen
<1>1. CollabInit => CommentTable
  BY DEF CollabInit, CommentTable
<1>2. CommentTable /\ [CollabNext]_collabVars => CommentTable' /\ [LeavesTombstones]_collabVars
  BY TombstonesStay
<1>3. CollabSpec => [][LeavesTombstones]_collabVars
  BY <1>1, <1>2, PTL DEF CollabSpec
<1>4. QED
  BY <1>3 DEF LeavesTombstones, DeletedIsFrozen

(***************************************************************************)
(* Page walks.  While a walk goes on its cursor names the last row it      *)
(* returned, every row it owes is behind that row or has been returned,    *)
(* and a row's timestamp is fixed before it can be returned.               *)
(***************************************************************************)

RowRec    == [st : {"none", "draft", "row", "pruned"}, ts : 0 .. MaxTime, status : Statuses]
CursorRec == [ts : Int, id : Int, fh : Filters]
Phases    == {"idle", "walking", "done", "refused"}
WalkRec   == [phase : Phases, view : Views \cup {"list"}, who : Walkers \cup {"none"}, ask : Filters,
              cursor : CursorRec, seen : Seq(RowIds), under : SUBSET Filters, stable : SUBSET RowIds]

ListTypes ==
    /\ kind \in {"sessions", "audit_log"} /\ time \in 0 .. MaxTime
    /\ table \in [RowIds -> RowRec]
    /\ walk \in WalkRec

\* The order of the pages, and whether a filter admits a row.
Later(tab, i, j) == tab[i].ts > tab[j].ts \/ (tab[i].ts = tab[j].ts /\ i > j)

Fits(tab, i, f) == f.status \in {NoFilter, tab[i].status} /\ f.owner \in {NoFilter, OwnerOf[i]}

\* What the next page is taken from: the rows behind the cursor.
Behind(tab, i, c) == c = NoCursor \/ tab[i].ts < c.ts \/ (tab[i].ts = c.ts /\ i < c.id)

\* What a walk has returned comes in order, and had appeared.
Returned(i, s) == \E n \in 1 .. Len(s) : s[n] = i

Descends(tab, s) == \A m, n \in 1 .. Len(s) : m < n => Later(tab, s[m], s[n])

Appeared(tab, s) == \A n \in 1 .. Len(s) : tab[s[n]].st \in {"row", "pruned"}

\* The cursor names the last row that was returned.
AtLast(tab, s, c) == 1 <= Len(s) /\ c.id = s[Len(s)] /\ c.ts = tab[s[Len(s)]].ts

\* A row that matched all along is behind the cursor, or has been returned.
Owed(tab, stable, s, c) ==
    \A i \in stable : /\ tab[i].st = "row" /\ Fits(tab, i, c.fh)
                      /\ Returned(i, s) \/ Behind(tab, i, c)

\* A walk never changes its filter, and one that is done has returned all it owed.
WalkOk(tab, w) ==
    /\ Descends(tab, w.seen) /\ Appeared(tab, w.seen)
    /\ w.under = {} \/ \E f : w.under = {f}
    /\ w.phase = "walking" =>
         /\ w.view \in Views /\ w.who \in Walkers
         /\ w.cursor.fh = Endpoint(w.view, w.who, w.ask).filter
         /\ AtLast(tab, w.seen, w.cursor) /\ w.under \subseteq {w.cursor.fh}
         /\ Owed(tab, w.stable, w.seen, w.cursor)
    /\ w.phase = "done" => \A i \in w.stable : Returned(i, w.seen)

ListIInv == ListTypes /\ WalkOk(table, walk)

-----------------------------------------------------------------------------

\* The order of the rows is total: the id breaks ties.
LEMMA NewerOrders ==
    ASSUME ListTypes, NEW hits \in SUBSET RowIds
    PROVE  /\ StrictTotalOrder({xy \in hits \X hits : Newer(xy[1], xy[2])}, hits)
           /\ IsFiniteSet(hits)
           /\ \A x, y \in hits : <<x, y>> \in {xy \in hits \X hits : Newer(xy[1], xy[2])}
                                   <=> Later(table, x, y)
<1> DEFINE R == {xy \in hits \X hits : Newer(xy[1], xy[2])}
<1>1. \A x, y \in hits : <<x, y>> \in R <=> Later(table, x, y)
  BY DEF Newer, Later
<1>2. \A x \in hits : x \in Int /\ table[x].ts \in Int
  BY ListingAssumption DEF ListTypes, RowRec
<1> HIDE DEF R
<1>3. \A x \in hits : ~Later(table, x, x)
  BY <1>2 DEF Later
<1>4. ASSUME NEW x \in hits, NEW y \in hits, NEW z \in hits, Later(table, x, y), Later(table, y, z)
      PROVE  Later(table, x, z)
  BY <1>2, <1>4 DEF Later
<1>5. ASSUME NEW x \in hits, NEW y \in hits, x # y PROVE Later(table, x, y) \/ Later(table, y, x)
  BY <1>2, <1>5 DEF Later
<1>6. StrictTotalOrder(R, hits)
  BY <1>1, <1>3, <1>4, <1>5 DEF StrictTotalOrder
<1>7. IsFiniteSet(hits)
  BY ListingAssumption, FS_Subset
<1>8. QED
  BY <1>1, <1>6, <1>7 DEF R

\* What a page holds and where its cursor points.
PageOk(p, hits, f) ==
    /\ p.rows \in Seq(RowIds) /\ p.next \in CursorRec
    /\ \A n \in 1 .. Len(p.rows) : p.rows[n] \in hits
    /\ Descends(table, p.rows)
    /\ p.next = NoCursor => \A i \in hits : Returned(i, p.rows)
    /\ p.next # NoCursor =>
         /\ p.next.fh = f /\ AtLast(table, p.rows, p.next)
         /\ \A i \in hits : Returned(i, p.rows) \/ Behind(table, i, p.next)

LEMMA PageIs ==
    ASSUME ListTypes, NEW hits \in SUBSET RowIds, NEW f \in Filters
    PROVE  PageOk(PageOf(hits, f), hits, f)
<1> DEFINE R == {xy \in hits \X hits : Newer(xy[1], xy[2])}
<1>1. /\ StrictTotalOrder(R, hits) /\ IsFiniteSet(hits)
      /\ \A x, y \in hits : <<x, y>> \in R <=> Later(table, x, y)
  BY NewerOrders
<1>2. PICK found : found = Ranked(hits, R)
  OBVIOUS
<1> HIDE DEF R
<1>3. PICK n \in Nat : n = Cardinality(hits)
  BY <1>1, FS_CardinalityType
<1>4. /\ found \in [1 .. n -> hits]
      /\ \A x \in hits : \E k \in 1 .. n : found[k] = x
      /\ \A i, j \in 1 .. n : i < j => <<found[i], found[j]>> \in R
  BY <1>1, <1>2, <1>3, RankedIs
<1>5. found \in Seq(hits) /\ Len(found) = n
  BY <1>4
<1>6. PICK m \in Nat : m = IF n > PageLimit THEN PageLimit ELSE n
  BY ListingAssumption
<1>7. m <= n /\ (n > PageLimit => m = PageLimit /\ 1 <= m) /\ (~(n > PageLimit) => m = n)
  BY <1>6, ListingAssumption
<1>8. PICK rows : rows = SubSeq(found, 1, m)
  OBVIOUS
<1>9. rows \in Seq(hits) /\ Len(rows) = m /\ \A k \in 1 .. m : rows[k] = found[k]
  BY <1>4, <1>5, <1>7, <1>8
<1>10. ASSUME NEW k \in 1 .. m PROVE rows[k] \in hits
  BY <1>4, <1>7, <1>9
<1>11. Descends(table, rows)
  <2>1. ASSUME NEW i \in 1 .. m, NEW j \in 1 .. m, i < j PROVE Later(table, rows[i], rows[j])
    <3>1. i \in 1 .. n /\ j \in 1 .. n
      BY <1>7
    <3>2. <<found[i], found[j]>> \in R /\ found[i] \in hits /\ found[j] \in hits
      BY <1>4, <2>1, <3>1
    <3>3. QED
      BY <1>1, <1>9, <3>2
  <2>2. QED
    BY <1>9, <2>1 DEF Descends
<1>12. rows \in Seq(RowIds)
  BY <1>9
<1>13. CASE ~(n > PageLimit)
  <2>1. PageOf(hits, f) = [rows |-> rows, next |-> NoCursor]
    BY <1>2, <1>5, <1>6, <1>8, <1>13 DEF PageOf, R
  <2>2. NoCursor \in CursorRec
    BY DEF NoCursor, CursorRec, Filters
  <2>3. ASSUME NEW i \in hits PROVE Returned(i, rows)
    <3>1. PICK k \in 1 .. n : found[k] = i
      BY <1>4
    <3>2. QED
      BY <1>7, <1>9, <1>13, <3>1 DEF Returned
  <2>4. QED
    BY <1>9, <1>10, <1>11, <1>12, <2>1, <2>2, <2>3 DEF PageOk
<1>14. CASE n > PageLimit
  <2>1. PICK l \in hits : l = rows[m] /\ l = found[m]
    BY <1>7, <1>9, <1>10, <1>14
  <2>2. PICK c : c = [ts |-> table[l].ts, id |-> l, fh |-> f]
    OBVIOUS
  <2>3. PageOf(hits, f) = [rows |-> rows, next |-> c]
    BY <1>2, <1>5, <1>6, <1>8, <1>9, <1>14, <2>1, <2>2 DEF PageOf, R, Last
  <2>4. table[l].ts \in Nat /\ l \in Int
    BY ListingAssumption DEF ListTypes, RowRec
  <2>5. c \in CursorRec /\ c.ts = table[l].ts /\ c.id = l /\ c.fh = f
    BY <2>2, <2>4 DEF CursorRec
  <2>6. NoCursor.ts = -1
    BY DEF NoCursor
  <2>7. c # NoCursor
    BY <2>4, <2>5, <2>6
  <2>8. AtLast(table, rows, c)
    BY <1>7, <1>9, <1>14, <2>1, <2>5 DEF AtLast
  <2>9. ASSUME NEW i \in hits PROVE Returned(i, rows) \/ Behind(table, i, c)
    <3>1. PICK k \in 1 .. n : found[k] = i
      BY <1>4
    <3>2. CASE k <= m
      BY <1>9, <3>1, <3>2 DEF Returned
    <3>3. CASE ~(k <= m)
      <4>1. m \in 1 .. n /\ m < k
        BY <1>7, <1>14, <3>3
      <4>2. <<found[m], found[k]>> \in R
        BY <1>4, <3>1, <4>1
      <4>3. Later(table, l, i)
        BY <1>1, <2>1, <3>1, <4>2
      <4>4. table[i].ts \in Int /\ i \in Int
        BY ListingAssumption DEF ListTypes, RowRec
      <4>5. QED
        BY <2>4, <2>5, <4>3, <4>4 DEF Later, Behind
    <3>4. QED
      BY <3>2, <3>3
  <2>10. QED
    BY <1>9, <1>10, <1>11, <1>12, <2>3, <2>5, <2>7, <2>8, <2>9 DEF PageOk
<1>15. QED
  BY <1>13, <1>14

\* What the endpoints make of a request.
LEMMA EndpointIs ==
    ASSUME NEW view \in Views, NEW who \in Walkers, NEW asked \in Filters
    PROVE  /\ Endpoint(view, who, asked).filter \in Filters
           /\ view \in {"list", "board"} => Endpoint(view, who, asked).filter.owner = NoFilter
           /\ asked.status = NoFilter \/ view = "board" =>
                Endpoint(view, who, asked).filter.status = NoFilter
  BY ListingAssumption
     DEF Endpoint, ListSessionsEndpoint, KanbanBoard, SearchEndpoint, SearchResults, SessionsListView,
         AuditEndpoint, Plain, Own, Filters

\* Every query selects the stored rows that fit the filter, behind the cursor.
LEMMA QueryIs ==
    ASSUME NEW view \in Views, NEW f \in Filters, NEW c,
           view \in {"list", "board"} => f.owner = NoFilter
    PROVE  Page(view, f, c) =
             PageOf({i \in RowIds : table[i].st = "row" /\ Fits(table, i, f) /\ Behind(table, i, c)}, f)
<1> DEFINE hits == {i \in RowIds : table[i].st = "row" /\ Fits(table, i, f) /\ Behind(table, i, c)}
<1>1. \A i : Behind(table, i, c) <=> Beyond(i, c)
  BY DEF Behind, Beyond
<1>2. \A i : Fits(table, i, f) <=> Matches(i, f)
  BY DEF Fits, Matches
<1>3. {i \in Stored : Matches(i, f) /\ Beyond(i, c)} = hits
  BY <1>1, <1>2 DEF Stored
<1>4. CASE view \in {"list", "board"}
  <2>1. {i \in Stored : f.status \in {NoFilter, table[i].status} /\ Beyond(i, c)} = hits
    BY <1>1, <1>4 DEF Stored, Fits
  <2>2. QED
    BY <1>4, <2>1 DEF Page, ListSessions
<1>5. CASE view \in {"search", "dash_search", "dash_list"}
  BY <1>3, <1>5 DEF Page, SearchSessions
<1>6. CASE view = "audit"
  BY <1>3, <1>6 DEF Page, ListAudit
<1>7. QED
  BY <1>4, <1>5, <1>6, ListingAssumption

\* A page that continues the rows returned so far.
LEMMA JoinIs ==
    ASSUME ListTypes, NEW s \in Seq(RowIds), NEW r \in Seq(RowIds),
           Descends(table, s), Descends(table, r), Appeared(table, s), Appeared(table, r),
           \A n \in 1 .. Len(r) : 1 <= Len(s) => Later(table, s[Len(s)], r[n])
    PROVE  /\ s \o r \in Seq(RowIds) /\ Descends(table, s \o r) /\ Appeared(table, s \o r)
           /\ \A i : Returned(i, s \o r) <=> Returned(i, s) \/ Returned(i, r)
           /\ \A c : AtLast(table, r, c) => AtLast(table, s \o r, c)
<1>1. PICK a \in Nat, b \in Nat : a = Len(s) /\ b = Len(r)
  OBVIOUS
<1>2. PICK q : q = s \o r
  OBVIOUS
<1>3. /\ q \in Seq(RowIds) /\ Len(q) = a + b
      /\ \A n \in 1 .. a : q[n] = s[n]
      /\ \A n \in 1 .. b : q[a + n] = r[n]
  BY <1>1, <1>2
<1>4. ASSUME NEW n \in 1 .. a + b PROVE n \in 1 .. a \/ \E k \in 1 .. b : n = a + k
  <2>1. CASE n <= a
    BY <2>1
  <2>2. CASE ~(n <= a)
    <3>1. PICK k \in Int : k = n - a
      OBVIOUS
    <3>2. k \in 1 .. b /\ n = a + k
      BY <2>2, <3>1
    <3>3. QED
      BY <3>2
  <2>3. QED
    BY <2>1, <2>2
<1>4a. /\ \A n \in 1 .. a : n \in 1 .. a + b
       /\ \A n \in 1 .. b : a + n \in 1 .. a + b
  OBVIOUS
<1>5. Appeared(table, q)
  <2> SUFFICES ASSUME NEW n \in 1 .. a + b PROVE table[q[n]].st \in {"row", "pruned"}
    BY <1>3 DEF Appeared
  <2>1. CASE n \in 1 .. a
    BY <1>1, <1>3, <2>1 DEF Appeared
  <2>2. ASSUME NEW k \in 1 .. b, n = a + k PROVE table[q[n]].st \in {"row", "pruned"}
    <3>1. q[n] = r[k]
      BY <1>3, <2>2
    <3>2. QED
      BY <1>1, <3>1 DEF Appeared
  <2>3. QED
    BY <1>4, <2>1, <2>2
<1>6. ASSUME NEW i PROVE Returned(i, q) <=> Returned(i, s) \/ Returned(i, r)
  BY <1>1, <1>3, <1>4, <1>4a, SMTT(30) DEF Returned
<1>7. ASSUME NEW c, AtLast(table, r, c) PROVE AtLast(table, q, c)
  <2>1. 1 <= b /\ c.id = r[b] /\ c.ts = table[r[b]].ts
    BY <1>1, <1>7 DEF AtLast
  <2>2. q[a + b] = r[b] /\ 1 <= a + b
    BY <1>3, <2>1
  <2>3. QED
    BY <1>3, <2>1, <2>2 DEF AtLast
<1>8. ASSUME NEW m \in 1 .. a + b, NEW n \in 1 .. a + b, m < n
      PROVE  Later(table, q[m], q[n])
  <2>1. CASE n \in 1 .. a
    BY <1>1, <1>3, <1>8, <2>1 DEF Descends
  <2>2. ASSUME NEW k \in 1 .. b, n = a + k PROVE Later(table, q[m], q[n])
    <3>1. q[n] = r[k]
      BY <1>3, <2>2
    <3>2. CASE m \in 1 .. a
      <4>1. Later(table, s[a], r[k]) /\ q[m] = s[m] /\ a \in 1 .. a
        BY <1>1, <1>3, <3>2
      <4>2. m = a \/ Later(table, s[m], s[a])
        BY <1>1, <3>2, <4>1 DEF Descends
      <4>3. /\ s[m] \in RowIds /\ s[a] \in RowIds /\ r[k] \in RowIds
        BY <1>1, <3>2, <4>1
      <4>4. PICK x \in RowIds, y \in RowIds, z \in RowIds : x = s[m] /\ y = s[a] /\ z = r[k]
        BY <4>3
      <4>5. \A i \in RowIds : i \in Int /\ table[i].ts \in Int
        BY ListingAssumption DEF ListTypes, RowRec
      <4>6. Later(table, y, z) /\ (x = y \/ Later(table, x, y))
        BY <4>1, <4>2, <4>4
      <4>7. Later(table, x, z)
        <5>1. PICK tx \in Int, ty \in Int, tz \in Int :
                     tx = table[x].ts /\ ty = table[y].ts /\ tz = table[z].ts
          BY <4>5
        <5>2. x \in Int /\ y \in Int /\ z \in Int
          BY <4>5
        <5>3. QED
          BY <4>6, <5>1, <5>2, SMTT(30) DEF Later
      <4>8. QED
        BY <3>1, <4>1, <4>4, <4>7
    <3>3. ASSUME NEW j \in 1 .. b, m = a + j PROVE Later(table, q[m], q[n])
      <4>1. q[m] = r[j]
        BY <1>3, <3>3
      <4>1a. j < k
        BY <1>8, <2>2, <3>3
      <4>2. QED
        BY <1>1, <3>1, <4>1, <4>1a DEF Descends
    <3>4. QED
      BY <1>4, <3>2, <3>3
  <2>3. QED
    BY <1>4, <2>1, <2>2
<1>9. QED
  BY <1>2, <1>3, <1>5, <1>6, <1>7, <1>8 DEF Descends

\* The rows returned so far, the cursor behind them and the filter they were
\* returned under.
Resumes(c, s, under, stable, f) ==
    /\ s \in Seq(RowIds) /\ Descends(table, s) /\ Appeared(table, s)
    /\ under \in SUBSET Filters /\ (under = {} \/ \E g : under = {g})
    /\ stable \in SUBSET RowIds
    /\ c # NoCursor => AtLast(table, s, c) /\ under \subseteq {c.fh}
    /\ c = NoCursor => s = <<>> /\ under = {}
    /\ stable # {} => c = NoCursor \/ c.fh = f
    /\ \A i \in stable : /\ table[i].st = "row" /\ Fits(table, i, f)
                         /\ Returned(i, s) \/ Behind(table, i, c)

LEMMA RequestIs ==
    ASSUME ListTypes, NEW view \in Views, NEW who \in Walkers, NEW asked \in Filters,
           NEW c \in CursorRec, NEW s, NEW under, NEW stable,
           Resumes(c, s, under, stable, Endpoint(view, who, asked).filter),
           Request(view, who, asked, c, s, under, stable)
    PROVE  walk' \in WalkRec /\ WalkOk(table, walk')
<1> DEFINE e == Endpoint(view, who, asked)
           f == e.filter
           wrong == Mismatch(c, f)
           bad == e.refuses \/ (wrong /\ e.mismatch = "400")
           hits == {i \in RowIds : table[i].st = "row" /\ Fits(table, i, f) /\ Behind(table, i, c)}
<1>1. f \in Filters /\ (view \in {"list", "board"} => f.owner = NoFilter)
  BY EndpointIs
<1>2. PICK p : p = Page(view, f, c)
  OBVIOUS
<1>3. PageOk(p, hits, f)
  <2>1. hits \in SUBSET RowIds
    OBVIOUS
  <2>2. p = PageOf(hits, f)
    BY <1>1, <1>2, QueryIs
  <2> HIDE DEF hits, f
  <2>3. QED
    BY <1>1, <2>1, <2>2, PageIs
<1>4. PICK rows, next : /\ rows = (IF wrong \/ bad THEN <<>> ELSE p.rows)
                        /\ next = (IF wrong \/ bad THEN NoCursor ELSE p.next)
  OBVIOUS
<1>5. PICK w : w = [phase |-> IF bad THEN "refused" ELSE IF next = NoCursor THEN "done" ELSE "walking",
                    view |-> view, who |-> who, ask |-> asked, cursor |-> next,
                    seen |-> s \o rows,
                    under |-> IF rows = <<>> THEN under ELSE under \cup {f},
                    stable |-> stable]
  OBVIOUS
<1>6. walk' = w
  BY <1>2, <1>4, <1>5 DEF Request
<1>7. wrong <=> c # NoCursor /\ c.fh # f
  BY DEF Mismatch
<1> HIDE DEF e, f, wrong, bad
<1>8. NoCursor \in CursorRec /\ <<>> \in Seq(RowIds)
  BY DEF NoCursor, CursorRec, Filters
<1>9. /\ rows \in Seq(RowIds) /\ next \in CursorRec
      /\ rows # <<>> => ~wrong /\ ~bad /\ rows = p.rows
      /\ next # NoCursor => ~wrong /\ ~bad /\ next = p.next /\ rows = p.rows
  BY <1>3, <1>4, <1>8 DEF PageOk
<1>10. /\ \A n \in 1 .. Len(rows) : rows[n] \in hits
       /\ Descends(table, rows)
  <2>1. CASE rows = <<>>
    BY <2>1 DEF Descends
  <2>2. CASE rows # <<>>
    BY <1>3, <1>9, <2>2 DEF PageOk
  <2>3. QED
    BY <2>1, <2>2
<1>11. Appeared(table, rows)
  BY <1>10 DEF Appeared
<1>12. /\ s \in Seq(RowIds) /\ Descends(table, s) /\ Appeared(table, s)
       /\ under \in SUBSET Filters /\ (under = {} \/ \E g : under = {g})
       /\ stable \in SUBSET RowIds
       /\ c # NoCursor => AtLast(table, s, c) /\ under \subseteq {c.fh}
       /\ c = NoCursor => s = <<>> /\ under = {}
       /\ stable # {} => c = NoCursor \/ c.fh = f
       /\ \A i \in stable : /\ table[i].st = "row" /\ Fits(table, i, f)
                            /\ Returned(i, s) \/ Behind(table, i, c)
  BY DEF Resumes, f, e
<1>13. ASSUME NEW n \in 1 .. Len(rows), 1 <= Len(s) PROVE Later(table, s[Len(s)], rows[n])
  <2>1. PICK l \in RowIds : l = s[Len(s)]
    BY <1>12, <1>13
  <2>2. c # NoCursor
    BY <1>12, <1>13
  <2>3. c.id = l /\ c.ts = table[l].ts
    BY <1>12, <2>1, <2>2 DEF AtLast
  <2>4. PICK i \in RowIds : i = rows[n] /\ Behind(table, i, c)
    BY <1>10
  <2>5. l \in Int /\ i \in Int /\ table[l].ts \in Int /\ table[i].ts \in Int
    BY ListingAssumption DEF ListTypes, RowRec
  <2>6. QED
    BY <2>1, <2>2, <2>3, <2>4, <2>5 DEF Behind, Later
<1>14. PICK q : q = s \o rows
  OBVIOUS
<1>15. /\ q \in Seq(RowIds) /\ Descends(table, q) /\ Appeared(table, q)
       /\ \A i : Returned(i, q) <=> Returned(i, s) \/ Returned(i, rows)
       /\ \A d : AtLast(table, rows, d) => AtLast(table, q, d)
  <2>1. \A n \in 1 .. Len(rows) : 1 <= Len(s) => Later(table, s[Len(s)], rows[n])
    BY <1>13
  <2>2. /\ s \o rows \in Seq(RowIds) /\ Descends(table, s \o rows) /\ Appeared(table, s \o rows)
        /\ \A i : Returned(i, s \o rows) <=> Returned(i, s) \/ Returned(i, rows)
        /\ \A d : AtLast(table, rows, d) => AtLast(table, s \o rows, d)
    BY <1>9, <1>10, <1>11, <1>12, <2>1, JoinIs
  <2>3. QED
    BY <1>14, <2>2
<1>16. PICK und : und = IF rows = <<>> THEN under ELSE under \cup {f}
  OBVIOUS
<1>17. /\ und \in SUBSET Filters /\ (und = {} \/ \E g : und = {g})
       /\ next # NoCursor => und \subseteq {f}
  <2>1. CASE rows = <<>>
    <3>1. und = under
      BY <1>16, <2>1
    <3>2. next # NoCursor => c = NoCursor \/ c.fh = f
      BY <1>7, <1>9
    <3>3. QED
      BY <1>12, <3>1, <3>2
  <2>2. CASE rows # <<>>
    <3>1. c = NoCursor \/ c.fh = f
      BY <1>7, <1>9, <2>2
    <3>2. under \subseteq {f}
      BY <1>12, <3>1
    <3>3. und = {f}
      BY <1>16, <2>2, <3>2
    <3>4. QED
      BY <1>1, <3>3
  <2>3. QED
    BY <2>1, <2>2
<1>18. PICK ph \in Phases : ph = IF bad THEN "refused" ELSE IF next = NoCursor THEN "done" ELSE "walking"
  BY DEF Phases
<1>19. w = [phase |-> ph, view |-> view, who |-> who, ask |-> asked, cursor |-> next,
            seen |-> q, under |-> und, stable |-> stable]
  BY <1>5, <1>14, <1>16, <1>18
<1>20. /\ w.phase = ph /\ w.view = view /\ w.who = who /\ w.ask = asked /\ w.cursor = next
       /\ w.seen = q /\ w.under = und /\ w.stable = stable
  BY <1>19
<1>21. w \in WalkRec
  BY <1>9, <1>12, <1>15, <1>17, <1>19 DEF WalkRec
<1>22. ASSUME ph = "walking"
       PROVE  /\ next.fh = f /\ AtLast(table, q, next) /\ und \subseteq {next.fh}
              /\ Owed(table, stable, q, next)
  <2>1. next # NoCursor
    BY <1>18, <1>22
  <2>2. ~wrong /\ next = p.next /\ rows = p.rows
    BY <1>9, <2>1
  <2>3. /\ next.fh = f /\ AtLast(table, rows, next)
        /\ \A i \in hits : Returned(i, rows) \/ Behind(table, i, next)
    BY <1>3, <2>1, <2>2 DEF PageOk
  <2>4. ASSUME NEW i \in stable PROVE Returned(i, q) \/ Behind(table, i, next)
    <3>1. Returned(i, s) \/ i \in hits
      BY <1>12
    <3>2. QED
      BY <1>15, <2>3, <3>1
  <2>5. Owed(table, stable, q, next)
    BY <1>12, <2>3, <2>4 DEF Owed
  <2>6. QED
    BY <1>15, <1>17, <2>1, <2>3, <2>5
<1>23. ASSUME ph = "done", NEW i \in stable PROVE Returned(i, q)
  <2>1. ~bad /\ next = NoCursor
    BY <1>18, <1>23
  <2>2. c = NoCursor \/ c.fh = f
    BY <1>12, <1>23
  <2>3. ~wrong
    BY <1>7, <2>2
  <2>4. p.next = NoCursor /\ rows = p.rows
    BY <1>4, <2>1, <2>3
  <2>5. \A j \in hits : Returned(j, rows)
    BY <1>3, <2>4 DEF PageOk
  <2>6. Returned(i, s) \/ i \in hits
    BY <1>12, <1>23
  <2>7. QED
    BY <1>15, <2>5, <2>6
<1>24. WalkOk(table, w)
  <2>1. Endpoint(w.view, w.who, w.ask).filter = f
    BY <1>20 DEF f, e
  <2>2. QED
    BY <1>15, <1>17, <1>20, <1>22, <1>23, <2>1 DEF WalkOk
<1>25. QED
  BY <1>6, <1>21, <1>24

\* Rows that come, change or go between two pages.
LEMMA TableStep ==
    ASSUME ListTypes, WalkOk(table, walk), NEW tab, NEW stable \in SUBSET walk.stable,
           \A i \in RowIds : table[i].st \in {"row", "pruned"} =>
              tab[i].st \in {"row", "pruned"} /\ tab[i].ts = table[i].ts,
           \A i \in stable : table[i].st = "row" => tab[i].st = "row",
           walk.phase = "walking" =>
              \A i \in stable : Fits(table, i, walk.cursor.fh) => Fits(tab, i, walk.cursor.fh)
    PROVE  /\ [walk EXCEPT !.stable = stable] \in WalkRec
           /\ WalkOk(tab, [walk EXCEPT !.stable = stable])
<1>1. PICK w \in WalkRec : w = walk
  BY DEF ListTypes
<1>2. PICK v : v = [w EXCEPT !.stable = stable]
  OBVIOUS
<1>3. v \in WalkRec /\ v = [walk EXCEPT !.stable = stable]
  BY <1>1, <1>2 DEF WalkRec
<1>4. /\ v.phase = w.phase /\ v.view = w.view /\ v.who = w.who /\ v.ask = w.ask
      /\ v.cursor = w.cursor /\ v.seen = w.seen /\ v.under = w.under /\ v.stable = stable
  BY <1>2 DEF WalkRec
<1>5. w.seen \in Seq(RowIds) /\ w.stable \in SUBSET RowIds
  BY DEF WalkRec
<1>6. WalkOk(table, w)
  BY <1>1
<1>7. \A n \in 1 .. Len(w.seen) : /\ w.seen[n] \in RowIds /\ tab[w.seen[n]].ts = table[w.seen[n]].ts
                                  /\ tab[w.seen[n]].st \in {"row", "pruned"}
  BY <1>5, <1>6 DEF WalkOk, Appeared
<1>8. Descends(tab, w.seen) /\ Appeared(tab, w.seen)
  BY <1>6, <1>7 DEF WalkOk, Descends, Appeared, Later
<1>9. ASSUME w.phase = "walking"
      PROVE  AtLast(tab, w.seen, w.cursor) /\ Owed(tab, stable, w.seen, w.cursor)
  <2>1. AtLast(table, w.seen, w.cursor) /\ Owed(table, w.stable, w.seen, w.cursor)
    BY <1>6, <1>9 DEF WalkOk
  <2>2. AtLast(tab, w.seen, w.cursor)
    <3>1. Len(w.seen) \in Nat /\ 1 <= Len(w.seen)
      BY <1>5, <2>1 DEF AtLast
    <3>2. Len(w.seen) \in 1 .. Len(w.seen)
      BY <3>1
    <3>3. QED
      BY <1>7, <2>1, <3>2 DEF AtLast
  <2>3. ASSUME NEW i \in stable
        PROVE  /\ tab[i].st = "row" /\ Fits(tab, i, w.cursor.fh)
               /\ Returned(i, w.seen) \/ Behind(tab, i, w.cursor)
    <3>1. i \in w.stable /\ i \in RowIds
      BY <1>1, <1>5
    <3>2. /\ table[i].st = "row" /\ Fits(table, i, w.cursor.fh)
          /\ Returned(i, w.seen) \/ Behind(table, i, w.cursor)
      BY <2>1, <3>1 DEF Owed
    <3>3. tab[i].ts = table[i].ts /\ tab[i].st = "row" /\ Fits(tab, i, w.cursor.fh)
      BY <1>1, <1>9, <3>1, <3>2
    <3>4. QED
      BY <3>2, <3>3 DEF Behind
  <2>4. QED
    BY <2>2, <2>3 DEF Owed
<1>10. WalkOk(tab, v)
  <2>1. w.phase = "done" => \A i \in stable : Returned(i, w.seen)
    BY <1>1, <1>6 DEF WalkOk
  <2>2. QED
    BY <1>4, <1>6, <1>8, <1>9, <2>1 DEF WalkOk
<1>11. QED
  BY <1>3, <1>10

LEMMA FirstPageInv ==
    ASSUME ListIInv, NEW v \in Views, NEW u \in Walkers, NEW asked \in Filters, FirstPage(v, u, asked)
    PROVE  walk' \in WalkRec /\ WalkOk(table, walk') /\ UNCHANGED <<time, table>>
<1> DEFINE f == Endpoint(v, u, asked).filter
           stable == {i \in Stored : Matches(i, f)}
<1>1. ListTypes
  BY DEF ListIInv
<1>2. Request(v, u, asked, NoCursor, <<>>, {}, stable) /\ UNCHANGED <<time, table>>
  BY DEF FirstPage
<1>3. NoCursor \in CursorRec
  BY DEF NoCursor, CursorRec, Filters
<1> HIDE DEF f
<1>4. Resumes(NoCursor, <<>>, {}, stable, f)
  BY DEF Resumes, Descends, Appeared, Stored, Matches, Fits, Behind
<1> HIDE DEF stable
<1>5. QED
  BY <1>1, <1>2, <1>3, <1>4, RequestIs DEF f

\* A walk under way continues under its own filter, or under another one.
LEMMA OnwardInv ==
    ASSUME ListIInv, walk.phase = "walking", NEW asked \in Filters, NEW stable,
           (stable = walk.stable /\ asked = walk.ask) \/ stable = {},
           Request(walk.view, walk.who, asked, walk.cursor, walk.seen, walk.under, stable)
    PROVE  walk' \in WalkRec /\ WalkOk(table, walk')
<1> DEFINE f == Endpoint(walk.view, walk.who, asked).filter
<1>1. ListTypes /\ WalkOk(table, walk) /\ walk \in WalkRec
  BY DEF ListIInv, ListTypes
<1>2. /\ Descends(table, walk.seen) /\ Appeared(table, walk.seen)
      /\ (walk.under = {} \/ \E g : walk.under = {g})
      /\ walk.view \in Views /\ walk.who \in Walkers
      /\ walk.cursor.fh = Endpoint(walk.view, walk.who, walk.ask).filter
      /\ AtLast(table, walk.seen, walk.cursor) /\ walk.under \subseteq {walk.cursor.fh}
      /\ Owed(table, walk.stable, walk.seen, walk.cursor)
  BY <1>1 DEF WalkOk
<1>3. /\ walk.cursor \in CursorRec /\ walk.seen \in Seq(RowIds)
      /\ walk.under \in SUBSET Filters /\ walk.stable \in SUBSET RowIds
  BY <1>1 DEF WalkRec
<1>4. walk.cursor # NoCursor
  <2>1. 1 <= Len(walk.seen) /\ Len(walk.seen) \in Nat
    BY <1>2, <1>3 DEF AtLast
  <2>2. PICK l \in RowIds : l = walk.seen[Len(walk.seen)]
    BY <1>3, <2>1
  <2>3. walk.cursor.ts \in Nat
    <3>1. walk.cursor.ts = table[l].ts
      BY <1>2, <2>2 DEF AtLast
    <3>2. table[l].ts \in Nat
      BY <1>1, ListingAssumption DEF ListTypes, RowRec
    <3>3. QED
      BY <3>1, <3>2
  <2>4. NoCursor.ts = -1
    BY DEF NoCursor
  <2>5. QED
    BY <2>3, <2>4
<1>5. /\ stable \in SUBSET RowIds /\ (stable # {} => walk.cursor.fh = f)
      /\ \A i \in stable : /\ table[i].st = "row" /\ Fits(table, i, f)
                           /\ Returned(i, walk.seen) \/ Behind(table, i, walk.cursor)
  <2>1. CASE stable = {}
    BY <2>1
  <2>2. CASE stable = walk.stable /\ asked = walk.ask
    BY <1>2, <1>3, <2>2 DEF Owed
  <2>3. QED
    BY <2>1, <2>2
<1> HIDE DEF f
<1>6. Resumes(walk.cursor, walk.seen, walk.under, stable, f)
  BY <1>2, <1>3, <1>4, <1>5 DEF Resumes
<1>7. QED
  BY <1>1, <1>2, <1>3, <1>6, RequestIs DEF f

LEMMA WalkSame ==
    ASSUME NEW w \in WalkRec
    PROVE  [w EXCEPT !.stable = w.stable] = w /\ w.stable \in SUBSET w.stable
  BY DEF WalkRec

\* A step of the table.
LEMMA RowStep ==
    ASSUME ListIInv, NEW i \in RowIds, Stamp(i) \/ CommitRow(i) \/ StartRunning(i) \/ Prune(i)
    PROVE  time' = time /\ table' \in [RowIds -> RowRec] /\ walk' \in WalkRec /\ WalkOk(table', walk')
<1>1. /\ ListTypes /\ WalkOk(table, walk) /\ walk \in WalkRec /\ time \in 0 .. MaxTime
      /\ table \in [RowIds -> RowRec]
  BY DEF ListIInv, ListTypes
<1>2. PICK row \in RowRec : row = table[i]
  BY <1>1
<1>3. CASE Stamp(i) \/ CommitRow(i)
  <2>1. PICK tab : tab = table'
    OBVIOUS
  <2>2. walk' = walk /\ time' = time
    BY <1>3 DEF Stamp, CommitRow
  <2>3. PICK new \in RowRec : /\ tab = [table EXCEPT ![i] = new] /\ new.status = row.status
                              /\ row.st \in {"none", "draft"}
    <3>1. CASE Stamp(i)
      <4>1. [[row EXCEPT !.st = "draft"] EXCEPT !.ts = time] \in RowRec
        BY <1>1 DEF RowRec
      <4>2. tab = [table EXCEPT ![i] = [[row EXCEPT !.st = "draft"] EXCEPT !.ts = time]]
        BY <1>1, <1>2, <2>1, <3>1 DEF Stamp
      <4>3. row.st = "none"
        BY <1>2, <3>1 DEF Stamp
      <4>4. [[row EXCEPT !.st = "draft"] EXCEPT !.ts = time].status = row.status
        BY DEF RowRec
      <4>5. QED
        BY <4>1, <4>2, <4>3, <4>4
    <3>2. CASE CommitRow(i)
      <4>1. [row EXCEPT !.st = "row"] \in RowRec
        BY DEF RowRec
      <4>2. tab = [table EXCEPT ![i] = [row EXCEPT !.st = "row"]]
        BY <1>1, <1>2, <2>1, <3>2 DEF CommitRow
      <4>3. row.st = "draft"
        BY <1>2, <3>2 DEF CommitRow
      <4>4. [row EXCEPT !.st = "row"].status = row.status
        BY DEF RowRec
      <4>5. QED
        BY <4>1, <4>2, <4>3, <4>4
    <3>3. QED
      BY <1>3, <3>1, <3>2
  <2>4. /\ tab \in [RowIds -> RowRec] /\ \A j \in RowIds : tab[j].status = table[j].status
        /\ \A j \in RowIds : table[j].st \in {"row", "pruned"} => tab[j] = table[j]
    BY <1>1, <1>2, <2>3
  <2>5. \A j \in RowIds : \A f : Fits(table, j, f) => Fits(tab, j, f)
    BY <2>4 DEF Fits
  <2>6. /\ walk.stable \in SUBSET walk.stable /\ walk.stable \in SUBSET RowIds
        /\ [walk EXCEPT !.stable = walk.stable] = walk
    BY <1>1, WalkSame DEF WalkRec
  <2>7. WalkOk(tab, [walk EXCEPT !.stable = walk.stable])
    <3>1. /\ \A j \in RowIds : table[j].st \in {"row", "pruned"} =>
               tab[j].st \in {"row", "pruned"} /\ tab[j].ts = table[j].ts
          /\ \A j \in walk.stable : table[j].st = "row" => tab[j].st = "row"
      BY <2>4, <2>6
    <3>2. walk.phase = "walking" =>
            \A j \in walk.stable : Fits(table, j, walk.cursor.fh) => Fits(tab, j, walk.cursor.fh)
      BY <2>5, <2>6
    <3>3. QED
      BY <1>1, <2>6, <3>1, <3>2, TableStep
  <2>8. QED
    BY <1>1, <2>1, <2>2, <2>4, <2>6, <2>7
<1>4. CASE StartRunning(i) \/ Prune(i)
  <2>1. PICK tab : tab = table'
    OBVIOUS
  <2>2. PICK stable \in SUBSET walk.stable : walk' = [walk EXCEPT !.stable = stable] /\ time' = time
                                         /\ (stable = IF StartRunning(i) /\ (walk.ask.status = NoFilter \/ walk.view = "board")
                                                      THEN walk.stable ELSE walk.stable \ {i})
    <3>1. CASE StartRunning(i)
      BY <1>1, <3>1 DEF StartRunning, WalkRec
    <3>2. CASE Prune(i) /\ ~StartRunning(i)
      BY <1>1, <3>2 DEF Prune, WalkRec
    <3>3. QED
      BY <1>4, <3>1, <3>2
  <2>3. PICK new \in RowRec : /\ tab = [table EXCEPT ![i] = new] /\ new.ts = row.ts
                              /\ row.st = "row" /\ new.st \in {"row", "pruned"}
                              /\ StartRunning(i) => new.st = "row"
    <3>1. CASE StartRunning(i)
      <4>1. [row EXCEPT !.status = "running"] \in RowRec
        BY DEF RowRec, Statuses
      <4>2. tab = [table EXCEPT ![i] = [row EXCEPT !.status = "running"]]
        BY <1>1, <1>2, <2>1, <3>1 DEF StartRunning
      <4>3. row.st = "row"
        BY <1>2, <3>1 DEF StartRunning
      <4>4. /\ [row EXCEPT !.status = "running"].st = row.st
            /\ [row EXCEPT !.status = "running"].ts = row.ts
        BY DEF RowRec
      <4>5. QED
        BY <4>1, <4>2, <4>3, <4>4
    <3>2. CASE Prune(i) /\ ~StartRunning(i)
      <4>1. [row EXCEPT !.st = "pruned"] \in RowRec
        BY DEF RowRec
      <4>2. tab = [table EXCEPT ![i] = [row EXCEPT !.st = "pruned"]]
        BY <1>1, <1>2, <2>1, <3>2 DEF Prune
      <4>3. row.st = "row"
        BY <1>2, <3>2 DEF Prune
      <4>4. /\ [row EXCEPT !.st = "pruned"].st = "pruned"
            /\ [row EXCEPT !.st = "pruned"].ts = row.ts
        BY DEF RowRec
      <4>5. QED
        BY <3>2, <4>1, <4>2, <4>3, <4>4
    <3>3. QED
      BY <1>4, <3>1, <3>2
  <2>4. /\ tab \in [RowIds -> RowRec] /\ tab[i] = new
        /\ \A j \in RowIds : j # i => tab[j] = table[j]
    BY <1>1, <2>3
  <2>5. \A j \in RowIds : table[j].st \in {"row", "pruned"} =>
               tab[j].st \in {"row", "pruned"} /\ tab[j].ts = table[j].ts
    BY <1>2, <2>3, <2>4
  <2>6. stable \in SUBSET RowIds
    BY <1>1 DEF WalkRec
  <2>7. \A j \in stable : table[j].st = "row" => tab[j].st = "row"
    <3> SUFFICES ASSUME NEW j \in stable, table[j].st = "row" PROVE tab[j].st = "row"
      OBVIOUS
    <3>1. CASE j = i
      BY <2>2, <2>3, <2>4, <3>1
    <3>2. CASE j # i
      BY <2>4, <2>6, <3>2
    <3>3. QED
      BY <3>1, <3>2
  <2>8. ASSUME walk.phase = "walking", NEW j \in stable, Fits(table, j, walk.cursor.fh)
        PROVE  Fits(tab, j, walk.cursor.fh)
    <3>1. CASE j # i
      BY <2>4, <2>6, <2>8, <3>1 DEF Fits
    <3>2. CASE j = i
      <4>1. walk.ask.status = NoFilter \/ walk.view = "board"
        BY <2>2, <3>2
      <4>2. /\ walk.view \in Views /\ walk.who \in Walkers /\ walk.ask \in Filters
            /\ walk.cursor.fh = Endpoint(walk.view, walk.who, walk.ask).filter
        BY <1>1, <2>8 DEF WalkOk, WalkRec
      <4>3. walk.cursor.fh.status = NoFilter
        BY <4>1, <4>2, EndpointIs
      <4>4. QED
        BY <2>8, <4>3 DEF Fits
    <3>3. QED
      BY <3>1, <3>2
  <2>9. [walk EXCEPT !.stable = stable] \in WalkRec /\ WalkOk(tab, [walk EXCEPT !.stable = stable])
    BY <1>1, <2>5, <2>7, <2>8, TableStep
  <2>10. QED
    BY <2>1, <2>2, <2>4, <2>9
<1>5. QED
  BY <1>3, <1>4

LEMMA ListInitInv == ListingInit => ListIInv
<1> SUFFICES ASSUME ListingInit PROVE ListIInv
  OBVIOUS
<1>1. NoRow \in RowRec
  BY ListingAssumption DEF NoRow, RowRec, Statuses
<1>2. walk = NoWalk /\ NoWalk \in WalkRec
  BY DEF ListingInit, NoWalk, NoCursor, WalkRec, CursorRec, Phases, Filters
<1>3. ListTypes
  BY <1>1, <1>2, ListingAssumption DEF ListingInit, ListTypes
<1>4. NoWalk.seen = <<>> /\ NoWalk.under = {} /\ NoWalk.phase = "idle"
  BY DEF NoWalk
<1>5. WalkOk(table, walk)
  BY <1>2, <1>4 DEF WalkOk, Descends, Appeared
<1>6. QED
  BY <1>3, <1>5 DEF ListIInv

LEMMA ListNextInv == ListIInv /\ [ListingNext]_listingVars => ListIInv'
<1> SUFFICES ASSUME ListIInv, [ListingNext]_listingVars PROVE ListIInv'
  OBVIOUS
<1>1. ASSUME ListingNext
      PROVE  /\ kind' = kind /\ time' \in 0 .. MaxTime /\ table' \in [RowIds -> RowRec]
             /\ walk' \in WalkRec /\ WalkOk(table', walk')
  <2>1. /\ kind' = kind /\ time \in 0 .. MaxTime /\ table \in [RowIds -> RowRec]
        /\ walk \in WalkRec /\ WalkOk(table, walk)
    BY <1>1 DEF ListingNext, ListIInv, ListTypes
  <2>2. ASSUME NEW v \in Views, NEW u \in Walkers, NEW asked \in Filters, FirstPage(v, u, asked)
        PROVE  walk' \in WalkRec /\ WalkOk(table, walk') /\ UNCHANGED <<time, table>>
    BY <2>2, FirstPageInv
  <2>3. CASE NextPage
    <3>1. walk.ask \in Filters
      BY <2>1 DEF WalkRec
    <3>2. walk' \in WalkRec /\ WalkOk(table, walk')
      BY <2>3, <3>1, OnwardInv DEF NextPage
    <3>3. QED
      BY <2>1, <2>3, <3>2 DEF NextPage
  <2>4. ASSUME NEW asked \in Filters, SwitchFilter(asked)
        PROVE  walk' \in WalkRec /\ WalkOk(table, walk') /\ UNCHANGED <<time, table>>
    <3>1. walk' \in WalkRec /\ WalkOk(table, walk')
      BY <2>4, OnwardInv DEF SwitchFilter
    <3>2. QED
      BY <2>4, <3>1 DEF SwitchFilter
  <2>5. ASSUME NEW i \in RowIds, Stamp(i) \/ CommitRow(i) \/ StartRunning(i) \/ Prune(i)
        PROVE  /\ time' = time /\ table' \in [RowIds -> RowRec] /\ walk' \in WalkRec
               /\ WalkOk(table', walk')
    BY <2>5, RowStep
  <2>6. CASE PassTime
    BY <2>1, <2>6, ListingAssumption DEF PassTime
  <2>7. QED
    BY <1>1, <2>1, <2>2, <2>3, <2>4, <2>5, <2>6 DEF ListingNext
<1>2. CASE ListingNext
  <2>1. /\ kind' \in {"sessions", "audit_log"} /\ time' \in 0 .. MaxTime
        /\ table' \in [RowIds -> RowRec] /\ walk' \in WalkRec /\ WalkOk(table', walk')
    BY <1>1, <1>2 DEF ListIInv, ListTypes
  <2>2. ListTypes'
    BY <2>1 DEF ListTypes
  <2>3. WalkOk(table, walk)'
    BY <2>1 DEF WalkOk
  <2>4. QED
    BY <2>2, <2>3 DEF ListIInv
<1>3. CASE UNCHANGED listingVars
  <2>1. UNCHANGED <<kind, time, table, walk>>
    BY <1>3 DEF listingVars
  <2>2. ListTypes'
    BY <2>1 DEF ListIInv, ListTypes
  <2>3. WalkOk(table, walk)'
    BY <2>1 DEF ListIInv
  <2>4. QED
    BY <2>2, <2>3 DEF ListIInv
<1>4. QED
  BY <1>2, <1>3

\* Whatever is stored, changed or pruned between two pages, and whichever rows
\* share a timestamp: no row comes twice, none that matched all along is
\* skipped, and no walk mixes the rows of two filters.
THEOREM PagesInvariant == ListingSpec => []PagesInv
<1>1. ListIInv => PagesInv
  <2> SUFFICES ASSUME ListIInv PROVE PagesInv
    OBVIOUS
  <2>1. ListTypes /\ WalkOk(table, walk) /\ walk \in WalkRec
    BY DEF ListIInv, ListTypes
  <2>2. ListingTypeOK
    BY <2>1 DEF ListTypes, ListingTypeOK, WalkRec, RowRec, Phases
  <2>3. NoRowTwice
    BY <2>1 DEF WalkOk, Descends, Later, NoRowTwice, Newer
  <2>4. NothingSkipped
    <3> SUFFICES ASSUME walk.phase = "done", NEW i \in walk.stable PROVE i \in ToSet(walk.seen)
      BY DEF NothingSkipped
    <3>1. PICK n \in 1 .. Len(walk.seen) : walk.seen[n] = i
      BY <2>1 DEF WalkOk, Returned
    <3>2. walk.seen \in Seq(RowIds)
      BY <2>1 DEF WalkRec
    <3>3. QED
      BY <3>1, <3>2 DEF ToSet
  <2>5. OneFilterPerWalk
    <3>1. walk.under = {} \/ \E f : walk.under = {f}
      BY <2>1 DEF WalkOk
    <3>2. CASE walk.under = {}
      BY <3>2, FS_EmptySet DEF OneFilterPerWalk
    <3>3. ASSUME NEW f, walk.under = {f} PROVE OneFilterPerWalk
      <4>1. Cardinality({f}) = 1
        BY FS_Singleton
      <4>2. QED
        BY <3>3, <4>1 DEF OneFilterPerWalk
    <3>4. QED
      BY <3>1, <3>2, <3>3
  <2>6. QED
    BY <2>2, <2>3, <2>4, <2>5 DEF PagesInv
<1>2. QED
  BY <1>1, ListInitInv, ListNextInv, PTL DEF ListingSpec

----------------------------------------------------------------------------
(* Cost: what is cached and what a request knows, for any roles            *)

SummaryType == [own : Nat \cup {NoTotal}, team : Nat \cup {NoTotal}, age : 0..CostTTL]
AskType == [ph : {"idle", "own", "team", "rows", "done"}, do : {"none", "summary", "per_owner"},
            who : Payers \cup {"none"}, admin : BOOLEAN, own : Nat \cup {NoTotal},
            team : Nat \cup {NoTotal}, rows : SUBSET Payers]

\* Two totals that belong together, and none for the team but for admins.
TotalsFit(own, team, admin) == IF admin THEN own \in Nat /\ team \in Nat /\ own <= team
                               ELSE team = NoTotal

SummaryFits(s, admin) == s \in SummaryType /\ (s = NoSummary \/ TotalsFit(s.own, s.team, admin))

\* What a request may know at each stage; the own total it read in an earlier
\* statement is not more than its caller has spent by now.
AskFits(q, funds) ==
    /\ q.ph # "idle" => q.who \in Payers /\ q.do # "none"
    /\ q.ph \in {"own", "team"} => q.do = "summary"
    /\ q.ph = "rows" => q.do = "per_owner"
    /\ q.ph = "team" => q.admin /\ q.own \in Nat /\ q.own <= funds[q.who]
    /\ (q.ph = "done" /\ q.do = "summary") => TotalsFit(q.own, q.team, q.admin)
    /\ q.do = "per_owner" => q.admin \/ q.rows \subseteq {q.who}

LedgerInv == spent \in [Payers -> 0..MaxCost] /\ admins \in SUBSET Payers /\ promotions \in 0..MaxPromotions
CacheFits(cache) == /\ cache \in [Payers \X BOOLEAN -> SummaryType]
                    /\ \A p \in Payers, a \in BOOLEAN : SummaryFits(cache[<<p, a>>], a)
AsksFit(asks, funds) == /\ asks \in [CostReqs -> AskType]
                        /\ \A r \in CostReqs : AskFits(asks[r], funds)

CostInductive == LedgerInv /\ CacheFits(summaries) /\ AsksFit(ask, spent)

LEMMA CostConstants ==
    /\ IsFiniteSet(Payers) /\ MaxCost \in Nat /\ MaxPromotions \in Nat /\ CostTTL \in Nat
    /\ NoTotal \notin Nat /\ NoSummary \in SummaryType /\ NoAsk \in AskType
<1>1. IsFiniteSet(Payers) /\ MaxCost \in Nat /\ MaxPromotions \in Nat /\ CostTTL \in Nat
  BY CostAssumption
<1>2. NoTotal \notin Nat
  BY DEF NoTotal
<1>3. 0 \in 0..CostTTL
  BY <1>1
<1>4. QED
  BY <1>1, <1>2, <1>3 DEF NoSummary, SummaryType, NoAsk, AskType

LEMMA AskMoves ==
    ASSUME NEW asks, NEW funds, AsksFit(asks, funds), NEW r \in CostReqs, NEW q \in AskType, AskFits(q, funds)
    PROVE  AsksFit([asks EXCEPT ![r] = q], funds)
  BY DEF AsksFit

LEMMA CostStart ==
    ASSUME CostInit
    PROVE  CostInductive
<1>1. LedgerInv
  BY CostConstants DEF CostInit, LedgerInv
<1>2. CacheFits(summaries)
  BY CostConstants DEF CostInit, CacheFits, SummaryFits
<1>3. AskFits(NoAsk, spent)
  BY DEF NoAsk, AskFits
<1>4. QED
  BY <1>1, <1>2, <1>3, CostConstants DEF CostInit, CostInductive, AsksFit

LEMMA SessionCostsKeeps ==
    ASSUME CostInductive, NEW p \in Payers, SessionCosts(p)
    PROVE  CostInductive'
<1>1. PICK n \in Nat : n = spent[p]
  BY CostConstants DEF CostInductive, LedgerInv
<1>2. spent' = [spent EXCEPT ![p] = n + 1] /\ n < MaxCost
  BY <1>1 DEF SessionCosts
<1>3. spent' \in [Payers -> 0..MaxCost]
  <2>1. n + 1 \in 0..MaxCost
    BY <1>2, CostConstants
  <2>2. QED
    BY <1>2, <2>1 DEF CostInductive, LedgerInv
<1>4. ASSUME NEW x \in Payers PROVE spent[x] \in Nat /\ spent'[x] \in Nat /\ spent[x] <= spent'[x]
  BY <1>1, <1>2, <1>3, CostConstants DEF CostInductive, LedgerInv
<1>5. ASSUME NEW q, AskFits(q, spent) PROVE AskFits(q, spent')
  <2>1. CASE q.ph = "team"
    <3>1. q.who \in Payers /\ q.own \in Nat /\ q.own <= spent[q.who]
      BY <1>5, <2>1 DEF AskFits
    <3>2. q.own <= spent'[q.who]
      BY <1>4, <3>1
    <3>3. QED
      BY <1>5, <3>2 DEF AskFits
  <2>2. CASE q.ph # "team"
    BY <1>5, <2>2 DEF AskFits
  <2>3. QED
    BY <2>1, <2>2
<1>6. AsksFit(ask, spent')
  BY <1>5 DEF CostInductive, AsksFit
<1>7. QED
  BY <1>3, <1>6 DEF CostInductive, LedgerInv, SessionCosts

LEMMA ChangeRoleKeeps ==
    ASSUME CostInductive, NEW p \in Payers, ChangeRole(p)
    PROVE  CostInductive'
<1>1. LedgerInv'
  BY CostConstants DEF CostInductive, LedgerInv, ChangeRole
<1>2. QED
  BY <1>1 DEF CostInductive, ChangeRole

LEMMA SummariesAgeKeeps ==
    ASSUME CostInductive, SummariesAge
    PROVE  CostInductive'
<1>1. ASSUME NEW p \in Payers, NEW a \in BOOLEAN
      PROVE  SummaryFits(summaries'[<<p, a>>], a)
  <2>1. PICK s \in SummaryType : s = summaries[<<p, a>>] /\ SummaryFits(s, a)
    BY DEF CostInductive, CacheFits
  <2>2. PICK n \in 0..CostTTL : n = s.age
    BY DEF SummaryType
  <2>3. summaries'[<<p, a>>] = IF s = NoSummary \/ n + 1 > CostTTL THEN NoSummary
                               ELSE [s EXCEPT !.age = n + 1]
    BY <2>1, <2>2 DEF SummariesAge
  <2>4. CASE s = NoSummary \/ n + 1 > CostTTL
    BY <2>3, <2>4, CostConstants DEF SummaryFits
  <2>5. CASE ~(s = NoSummary \/ n + 1 > CostTTL)
    <3>1. PICK t : t = [s EXCEPT !.age = n + 1]
      OBVIOUS
    <3>2. n + 1 \in 0..CostTTL
      BY <2>5, CostConstants
    <3>3. t \in SummaryType /\ t.own = s.own /\ t.team = s.team
      BY <3>1, <3>2 DEF SummaryType
    <3>4. QED
      BY <2>1, <2>3, <2>5, <3>1, <3>3 DEF SummaryFits
  <2>6. QED
    BY <2>4, <2>5
<1>2. summaries' \in [Payers \X BOOLEAN -> SummaryType]
  <2>1. \A k \in Payers \X BOOLEAN : summaries'[k] \in SummaryType
    BY <1>1 DEF SummaryFits
  <2>2. QED
    BY <2>1 DEF SummariesAge
<1>3. QED
  BY <1>1, <1>2 DEF CostInductive, CacheFits, LedgerInv, SummariesAge

LEMMA CostSummaryKeeps ==
    ASSUME CostInductive, NEW r \in CostReqs, NEW who \in Payers, CostSummary(r, who)
    PROVE  CostInductive'
<1>1. PICK a \in BOOLEAN : a = (who \in admins)
  <2>1. (who \in admins) \in BOOLEAN
    OBVIOUS
  <2>2. QED
    BY <2>1, Zenon
<1>2. PICK s \in SummaryType : s = summaries[<<who, a>>] /\ SummaryFits(s, a)
  BY DEF CostInductive, CacheFits
<1>3. PICK ph \in {"own", "done"} : ph = IF s = NoSummary THEN "own" ELSE "done"
  OBVIOUS
<1>4. PICK q : q = [NoAsk EXCEPT !.do = "summary", !.who = who, !.admin = a, !.own = s.own,
                                 !.team = s.team, !.ph = ph]
  OBVIOUS
<1>5. /\ q \in AskType /\ q.ph = ph /\ q.do = "summary" /\ q.who = who /\ q.admin = a
      /\ q.own = s.own /\ q.team = s.team
  BY <1>4, CostConstants DEF AskType, SummaryType, NoAsk
<1>6. AskFits(q, spent)
  BY <1>2, <1>3, <1>5 DEF AskFits, SummaryFits
<1>7. ask' = [ask EXCEPT ![r] = q]
  BY <1>1, <1>2, <1>3, <1>4 DEF CostSummary, CacheKey
<1>8. AsksFit(ask', spent)
  BY <1>5, <1>6, <1>7, AskMoves DEF CostInductive
<1>9. QED
  BY <1>8 DEF CostInductive, LedgerInv, CostSummary

LEMMA AnswerKeeps ==
    ASSUME CostInductive, NEW r \in CostReqs, NEW own \in Nat, NEW team \in Nat \cup {NoTotal},
           ask[r].ph \in {"own", "team"}, TotalsFit(own, team, ask[r].admin), Answer(r, own, team)
    PROVE  CacheFits(summaries') /\ AsksFit(ask', spent)
<1>1. PICK p \in AskType : p = ask[r] /\ AskFits(p, spent)
  BY DEF CostInductive, AsksFit
<1>2. p.who \in Payers /\ p.do = "summary" /\ p.admin \in BOOLEAN
  BY <1>1 DEF AskFits, AskType
<1>3. PICK q : q = [p EXCEPT !.own = own, !.team = team, !.ph = "done"]
  OBVIOUS
<1>4. /\ q \in AskType /\ q.ph = "done" /\ q.do = "summary" /\ q.who = p.who
      /\ q.admin = p.admin /\ q.own = own /\ q.team = team
  BY <1>2, <1>3 DEF AskType
<1>5. ask' = [ask EXCEPT ![r] = q]
  BY <1>1, <1>3 DEF Answer, CostInductive, AsksFit
<1>6. AskFits(q, spent)
  BY <1>1, <1>2, <1>4 DEF AskFits
<1>7. AsksFit(ask', spent)
  BY <1>4, <1>5, <1>6, AskMoves DEF CostInductive
<1>8. PICK s : s = [own |-> own, team |-> team, age |-> 0]
  OBVIOUS
<1>9. s \in SummaryType /\ s.own = own /\ s.team = team
  BY <1>8, CostConstants DEF SummaryType
<1>10. SummaryFits(s, p.admin)
  BY <1>1, <1>9 DEF SummaryFits
<1>11. summaries' = [summaries EXCEPT ![<<p.who, p.admin>>] = s]
  BY <1>1, <1>8 DEF Answer, CacheKey
<1>12. CacheFits(summaries')
  BY <1>2, <1>9, <1>10, <1>11 DEF CostInductive, CacheFits
<1>13. QED
  BY <1>7, <1>12

LEMMA SummaryForUserKeeps ==
    ASSUME CostInductive, NEW r \in CostReqs, SummaryForUser(r)
    PROVE  CostInductive'
<1>1. PICK p \in AskType : p = ask[r] /\ AskFits(p, spent) /\ p.ph = "own"
  BY DEF CostInductive, AsksFit, SummaryForUser
<1>2. p.who \in Payers /\ p.do = "summary" /\ p.admin \in BOOLEAN
  BY <1>1 DEF AskFits, AskType
<1>3. PICK n \in Nat : n = spent[p.who]
  BY <1>2, CostConstants DEF CostInductive, LedgerInv
<1>4. CASE p.admin
  <2>1. PICK q : q = [p EXCEPT !.own = n, !.ph = "team"]
    OBVIOUS
  <2>2. /\ q \in AskType /\ q.ph = "team" /\ q.do = "summary" /\ q.who = p.who
        /\ q.admin = p.admin /\ q.own = n
    BY <1>2, <2>1 DEF AskType
  <2>3. AskFits(q, spent)
    <3>1. q.own \in Nat /\ q.own <= spent[q.who]
      BY <1>3, <2>2
    <3>2. QED
      BY <1>2, <1>4, <2>2, <3>1 DEF AskFits
  <2>4. ask' = [ask EXCEPT ![r] = q] /\ UNCHANGED summaries
    BY <1>1, <1>3, <1>4, <2>1 DEF SummaryForUser, CostInductive, AsksFit
  <2>5. AsksFit(ask', spent)
    BY <2>2, <2>3, <2>4, AskMoves DEF CostInductive
  <2>6. QED
    BY <2>4, <2>5 DEF CostInductive, LedgerInv, SummaryForUser
<1>5. CASE ~p.admin
  <2>1. TotalsFit(n, NoTotal, p.admin)
    BY <1>5 DEF TotalsFit
  <2>2. Answer(r, n, NoTotal)
    BY <1>1, <1>3, <1>5 DEF SummaryForUser
  <2>3. CacheFits(summaries') /\ AsksFit(ask', spent)
    BY <1>1, <2>1, <2>2, AnswerKeeps
  <2>4. QED
    BY <2>3 DEF CostInductive, LedgerInv, SummaryForUser
<1>6. QED
  BY <1>4, <1>5

\* The team's total is read when the caller has spent at least what the first
\* statement found.
LEMMA TeamTotalKeeps ==
    ASSUME CostInductive, NEW r \in CostReqs, TeamTotal(r)
    PROVE  CostInductive'
<1>1. PICK p \in AskType : p = ask[r] /\ AskFits(p, spent) /\ p.ph = "team"
  BY DEF CostInductive, AsksFit, TeamTotal
<1>2. p.who \in Payers /\ p.admin /\ p.own \in Nat /\ p.own <= spent[p.who]
  BY <1>1 DEF AskFits
<1>3. \A x \in Payers : spent[x] \in Nat
  BY CostConstants DEF CostInductive, LedgerInv
<1>4. PICK n : n = SumFunctionOnSet(spent, Payers)
  OBVIOUS
<1>5. n \in Nat /\ spent[p.who] <= n
  BY <1>2, <1>3, <1>4, CostConstants, SumCoversTerm
<1>6. p.own <= n /\ p.own \in Nat
  BY <1>2, <1>3, <1>5
<1>7. TotalsFit(p.own, n, p.admin)
  BY <1>2, <1>5, <1>6 DEF TotalsFit
<1>8. Answer(r, p.own, n)
  BY <1>1, <1>4 DEF TeamTotal
<1>9. CacheFits(summaries') /\ AsksFit(ask', spent)
  BY <1>1, <1>5, <1>6, <1>7, <1>8, AnswerKeeps
<1>10. QED
  BY <1>9 DEF CostInductive, LedgerInv, TeamTotal

LEMMA PerOwnerKeeps ==
    ASSUME CostInductive, NEW r \in CostReqs, NEW who \in Payers, NEW owner \in SUBSET Payers,
           PerOwner(r, who, owner)
    PROVE  CostInductive'
<1>1. PICK a \in BOOLEAN : a = (who \in admins)
  <2>1. (who \in admins) \in BOOLEAN
    OBVIOUS
  <2>2. QED
    BY <2>1, Zenon
<1>2. PICK rows \in SUBSET Payers : rows = IF a THEN owner ELSE {who}
  OBVIOUS
<1>3. PICK ph \in {"rows", "done"} : ph = IF a \/ owner \in {Payers, {who}} THEN "rows" ELSE "done"
  OBVIOUS
<1>4. PICK own \in Nat \cup {NoTotal} : own = IF a \/ owner \in {Payers, {who}} THEN NoTotal ELSE 403
  <2>1. PICK n : n = IF a \/ owner \in {Payers, {who}} THEN NoTotal ELSE 403
    OBVIOUS
  <2>2. n \in Nat \cup {NoTotal}
    <3>1. 403 \in Nat
      OBVIOUS
    <3>2. QED
      BY <2>1, <3>1, Zenon
  <2>3. QED
    BY <2>1, <2>2, ZenonT(60)
<1>5. PICK q : q = [NoAsk EXCEPT !.do = "per_owner", !.who = who, !.admin = a, !.rows = rows,
                                 !.ph = ph, !.own = own]
  OBVIOUS
<1>6. /\ q \in AskType /\ q.ph = ph /\ q.do = "per_owner" /\ q.who = who /\ q.admin = a
      /\ q.rows = rows
  BY <1>5 DEF AskType, NoAsk
<1>7. AskFits(q, spent)
  BY <1>2, <1>3, <1>6 DEF AskFits
<1>8. ask' = [ask EXCEPT ![r] = q]
  BY <1>1, <1>2, <1>3, <1>4, <1>5, ZenonT(30) DEF PerOwner, NoAsk
<1>9. AsksFit(ask', spent)
  BY <1>6, <1>7, <1>8, AskMoves DEF CostInductive
<1>10. QED
  BY <1>9 DEF CostInductive, LedgerInv, PerOwner

LEMMA AggregateKeeps ==
    ASSUME CostInductive, NEW r \in CostReqs, AggregateByOwner(r)
    PROVE  CostInductive'
<1>1. PICK p \in AskType : p = ask[r] /\ AskFits(p, spent) /\ p.ph = "rows"
  BY DEF CostInductive, AsksFit, AggregateByOwner
<1>2. PICK S : ask' = [ask EXCEPT ![r].rows = @ \cap S, ![r].ph = "done"]
  BY DEF AggregateByOwner
<1>3. PICK q : q = [p EXCEPT !.rows = p.rows \cap S, !.ph = "done"]
  OBVIOUS
<1>4. /\ q \in AskType /\ q.ph = "done" /\ q.do = p.do /\ q.who = p.who /\ q.admin = p.admin
      /\ q.rows = p.rows \cap S
  BY <1>3 DEF AskType
<1>5. p.do = "per_owner" /\ p.who \in Payers
  BY <1>1 DEF AskFits
<1>6. AskFits(q, spent)
  BY <1>1, <1>4, <1>5 DEF AskFits
<1>7. ask' = [ask EXCEPT ![r] = q]
  BY <1>1, <1>2, <1>3 DEF CostInductive, AsksFit
<1>8. AsksFit(ask', spent)
  BY <1>4, <1>6, <1>7, AskMoves DEF CostInductive
<1>9. QED
  BY <1>8 DEF CostInductive, LedgerInv, AggregateByOwner

LEMMA CostDoneKeeps ==
    ASSUME CostInductive, NEW r \in CostReqs, CostDone(r)
    PROVE  CostInductive'
<1>1. AskFits(NoAsk, spent)
  BY DEF NoAsk, AskFits
<1>2. AsksFit(ask', spent)
  BY <1>1, CostConstants, AskMoves DEF CostInductive, CostDone
<1>3. QED
  BY <1>2 DEF CostInductive, LedgerInv, CostDone

LEMMA CostStep ==
    ASSUME CostInductive, [CostNext]_costVars
    PROVE  CostInductive'
<1>1. CASE UNCHANGED costVars
  BY <1>1 DEF costVars, CostInductive, LedgerInv
<1>2. \A o \in {Payers} \cup {{x} : x \in Payers} : o \in SUBSET Payers
  OBVIOUS
<1>3. QED
  BY <1>1, <1>2, SessionCostsKeeps, ChangeRoleKeeps, SummariesAgeKeeps, CostSummaryKeeps,
     PerOwnerKeeps, SummaryForUserKeeps, TeamTotalKeeps, AggregateKeeps, CostDoneKeeps DEF CostNext

LEMMA CostShows ==
    ASSUME CostInductive
    PROVE  CostInv
<1>1. \A r \in CostReqs : ask[r] \in AskType /\ AskFits(ask[r], spent)
  BY DEF CostInductive, AsksFit
<1>2. \A k \in Payers \X BOOLEAN : summaries[k].age \in 0..CostTTL
  BY DEF CostInductive, CacheFits, SummaryType
<1>3. CostTypeOK
  BY <1>1, <1>2 DEF CostTypeOK, CostInductive, LedgerInv, AskType
<1>4. ASSUME NEW r \in CostReqs, ask[r].ph = "done"
      PROVE  /\ IF ask[r].do = "summary" THEN (ask[r].team # NoTotal) = ask[r].admin
                ELSE ask[r].admin \/ ask[r].rows \subseteq {ask[r].who}
             /\ (ask[r].do = "summary" /\ ask[r].admin) => ask[r].team >= ask[r].own
  <2>1. PICK q \in AskType : q = ask[r] /\ AskFits(q, spent)
    BY <1>1
  <2>2. q.do \in {"summary", "per_owner"} /\ q.admin \in BOOLEAN
    BY <1>4, <2>1 DEF AskFits, AskType
  <2>3. CASE q.do = "summary"
    <3>1. TotalsFit(q.own, q.team, q.admin)
      BY <1>4, <2>1, <2>3 DEF AskFits
    <3>2. CASE q.admin
      <4>1. q.own \in Nat /\ q.team \in Nat /\ q.own <= q.team
        BY <3>1, <3>2 DEF TotalsFit
      <4>2. QED
        BY <2>1, <2>3, <3>2, <4>1, CostConstants
    <3>3. CASE ~q.admin
      BY <2>1, <2>2, <2>3, <3>1, <3>3 DEF TotalsFit
    <3>4. QED
      BY <3>2, <3>3
  <2>4. CASE q.do = "per_owner"
    BY <2>1, <2>4 DEF AskFits
  <2>5. QED
    BY <2>2, <2>3, <2>4
<1>5. AnswerFitsRole
  BY <1>4 DEF AnswerFitsRole
<1>6. TeamCoversOwn
  BY <1>4 DEF TeamCoversOwn
<1>7. QED
  BY <1>3, <1>5, <1>6 DEF CostInv

\* Through role changes, cached answers and sessions that end between a
\* request's two statements, an answer of the cost API fits the role its caller
\* had when the request came in, and the team's total it shows an admin is
\* never less than that admin's own part: costs are only ever added, and a
\* cached summary is filed under the role it was made for (api/routers/cost.py).
THEOREM CostInvariant == CostSpec => []CostInv
<1>1. CostInit => CostInductive
  BY CostStart
<1>2. CostInductive /\ [CostNext]_costVars => CostInductive'
  BY CostStep
<1>3. CostInductive => CostInv
  BY CostShows
<1>4. QED
  BY <1>1, <1>2, <1>3, PTL DEF CostSpec

=============================================================================
