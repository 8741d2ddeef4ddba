---------------------------- MODULE AccessProofs ----------------------------
(***************************************************************************)
(* Proofs about Access and RateLimit, for any number of workers, labels,   *)
(* requests and keys, any configuration, and any bounds.                   *)
(***************************************************************************)
EXTENDS Access, RateLimit, DataLemmas

LEMMA RestOf ==
    ASSUME NEW S, NEW q \in Seq(S), q # << >>
    PROVE  /\ Tail(q) \in Seq(S) /\ Head(q) \in S /\ Head(q) = q[1]
           /\ Len(q) \in Nat /\ Len(q) >= 1 /\ Len(Tail(q)) = Len(q) - 1
           /\ \A i \in 1..Len(Tail(q)) : Tail(q)[i] = q[i + 1]
  OBVIOUS

----------------------------------------------------------------------------
(* Types *)

Phase == {"down", "env", "envcreate", "dash", "dashrevoke", "dashcreate", "up"}
BootType == [phase : Phase, todo : Seq(Labels), seen : {Absent}]
Active == {"wait", "lookup", "resume", "stranded", "create", "revoke", "count", "update", "audit",
           "invalidate", "done"}
ReqType == [pc : Active, op : OpType, seen : RowType, since : Nat, at : Nat, res : Nat,
            cut : BOOLEAN, with : SUBSET Reqs]

Starting == [pc : Active \cup {"idle"}, op : OpType, seen : RowType, since : Nat, at : Nat, res : Nat,
             cut : BOOLEAN, with : SUBSET Reqs]

BootOK(b) == /\ b \in BootType
             /\ b.phase \in {"envcreate", "dashrevoke", "dashcreate"} => b.todo # << >>

CacheFresh == \A w \in Workers, l \in Labels :
    cache[w][l].kind # "missing" => now \in cache[w][l].at .. cache[w][l].at + Ttl - 1

TypeInv ==
    /\ now \in 0..MaxTime
    /\ rows \in [Labels -> RowType]
    /\ boot \in [Workers -> BootType] /\ \A w \in Workers : BootOK(boot[w])
    /\ boots \in Nat
    /\ cache \in [Workers -> [Labels -> Entries]]
    /\ req \in [Reqs -> ReqType \cup {Idle}]
    /\ unguarded \in BOOLEAN
    /\ raced \in SUBSET Labels

LEMMA Constants ==
    /\ Ttl \in Nat \ {0} /\ MaxLookup \in Nat /\ MaxTime \in Nat /\ MaxBoots \in Nat
    /\ Never \in Nat /\ Never > MaxTime
    /\ Absent \in RowType /\ Missing \in Entries /\ BootOK(Down)
  BY AccessAssumption, KeysAssumption
     DEF Never, Absent, RowType, Roles, Missing, Entries, Down, BootOK, BootType, Phase

\* A request is idle or has all its fields.
LEMMA ReqShape ==
    ASSUME TypeInv, NEW r \in Reqs, req[r].pc # "idle"
    PROVE  /\ req[r] \in ReqType /\ req[r].op \in OpType /\ req[r].op.w \in Workers
           /\ req[r].op.key \in Labels /\ req[r].op.target \in Labels
           /\ req[r].seen \in RowType /\ req[r].since \in Nat /\ req[r].at \in Nat
           /\ req[r].res \in Nat /\ req[r].pc \in Active
  BY DEF TypeInv, Idle, ReqType, OpType

\* What a request carries as the resolver lets it in.
LEMMA AdmittedType ==
    ASSUME NEW q \in Starting, NEW v \in Entries, v.kind # "missing", now \in Nat
    PROVE  /\ Admitted(q, v) \in ReqType
           /\ Admitted(q, v).op = q.op /\ Admitted(q, v).at = now
           /\ Admitted(q, v).pc \in {"done", "create", "revoke"}
           /\ Admitted(q, v).pc # "done" => Admitted(q, v).res = 200 /\ Admitted(q, v).pc = q.op.do
           /\ v.kind = "no" => Admitted(q, v).pc = "done" /\ Admitted(q, v).res = 401
           /\ v.kind = "yes" => Admitted(q, v).res \in {200, 403}
<1> DEFINE to(pc, res) == [q EXCEPT !.pc = pc, !.res = res, !.at = now, !.since = 0,
                                    !.seen = Absent, !.cut = FALSE]
<1>1. ASSUME NEW pc \in {"done", "create", "revoke"}, NEW res \in Nat
      PROVE  /\ to(pc, res) \in ReqType
             /\ to(pc, res).op = q.op /\ to(pc, res).at = now
             /\ to(pc, res).pc = pc /\ to(pc, res).res = res
  <2>1. PICK x : x = [q EXCEPT !.pc = pc, !.res = res, !.at = now]
    OBVIOUS
  <2>2. /\ x \in Starting /\ x.pc = pc /\ x.res = res /\ x.op = q.op /\ x.at = now
    BY <1>1, <2>1 DEF Starting, Active
  <2>3. PICK n : n = [x EXCEPT !.since = 0, !.seen = Absent, !.cut = FALSE]
    OBVIOUS
  <2>4. /\ n \in ReqType /\ n.pc = pc /\ n.res = res /\ n.op = q.op /\ n.at = now
    BY <1>1, <2>2, <2>3, Constants DEF ReqType, Starting, Active
  <2>5. n = to(pc, res)
    BY <2>1, <2>3 DEF Starting
  <2>6. QED
    BY <2>4, <2>5
<1>2. v.kind \in {"yes", "no"}
  BY DEF Entries
<1>3. q.op.do \in {"call", "create", "revoke"}
  BY DEF Starting, OpType
<1>4. CASE v.kind = "no"
  <2>1. Admitted(q, v) = to("done", 401)
    BY <1>4 DEF Admitted
  <2> HIDE DEF to
  <2>2. QED
    BY <1>1, <1>4, <2>1
<1>5. CASE v.kind = "yes" /\ ~RequireRole(q.op.do, v.role)
  <2>1. Admitted(q, v) = to("done", 403)
    BY <1>5 DEF Admitted
  <2> HIDE DEF to
  <2>2. QED
    BY <1>1, <1>5, <2>1
<1>6. CASE v.kind = "yes" /\ RequireRole(q.op.do, v.role)
  <2> DEFINE pc == IF q.op.do = "call" THEN "done" ELSE q.op.do
  <2>1. Admitted(q, v) = to(pc, 200)
    BY <1>6 DEF Admitted
  <2>2. pc \in {"done", "create", "revoke"} /\ (pc # "done" => pc = q.op.do)
    BY <1>3
  <2> HIDE DEF to, pc
  <2>3. QED
    BY <1>1, <1>6, <2>1, <2>2
<1>7. QED
  BY <1>2, <1>4, <1>5, <1>6

\* What is left of a cancelled request.
LEMMA AbortedType ==
    ASSUME NEW q \in Starting
    PROVE  /\ Aborted(q) \in ReqType /\ Aborted(q).pc = "done" /\ Aborted(q).res = 499
           /\ Aborted(q).op = q.op /\ Aborted(q).at = q.at
<1>1. PICK x : x = [q EXCEPT !.pc = "done", !.res = 499, !.since = 0]
  OBVIOUS
<1>2. /\ x \in Starting /\ x.pc = "done" /\ x.res = 499 /\ x.op = q.op /\ x.at = q.at
  <2>1. PICK y : y = [q EXCEPT !.pc = "done"]
    OBVIOUS
  <2>2. y \in Starting /\ y.pc = "done" /\ y.op = q.op /\ y.at = q.at
    BY <2>1 DEF Starting, Active
  <2>3. PICK z : z = [y EXCEPT !.res = 499]
    OBVIOUS
  <2>4. z \in Starting /\ z.pc = "done" /\ z.res = 499 /\ z.op = q.op /\ z.at = q.at
    BY <2>2, <2>3 DEF Starting
  <2>5. PICK u : u = [z EXCEPT !.since = 0]
    OBVIOUS
  <2>6. u \in Starting /\ u.pc = "done" /\ u.res = 499 /\ u.op = q.op /\ u.at = q.at
    BY <2>4, <2>5 DEF Starting
  <2>7. u = x
    BY <1>1, <2>1, <2>3, <2>5 DEF Starting
  <2>8. QED
    BY <2>6, <2>7
<1>3. PICK n : n = [x EXCEPT !.seen = Absent, !.cut = FALSE, !.with = {}]
  OBVIOUS
<1>4. /\ n \in ReqType /\ n.pc = "done" /\ n.res = 499 /\ n.op = q.op /\ n.at = q.at
  BY <1>2, <1>3, Constants DEF ReqType, Starting, Active
<1>5. n = Aborted(q)
  BY <1>1, <1>3 DEF Starting, Aborted
<1>6. QED
  BY <1>4, <1>5

\* What a client asks for, under the identity the dashboard gives it.
LEMMA IdentityType ==
    ASSUME NEW o \in Ops
    PROVE  o \in OpType /\ WithIdentity(o) \in OpType
           /\ WithIdentity(o).do = o.do /\ WithIdentity(o).target = o.target
           /\ WithIdentity(o).w = o.w
<1>1. o \in OpType
  BY KeysAssumption
<1>2. CASE o.user = "none"
  BY <1>1, <1>2 DEF WithIdentity
<1>3. CASE o.user # "none"
  <2>1. Head(DashKeys) \in Labels
    BY <1>3, KeysAssumption
  <2>2. QED
    BY <1>1, <1>3, <2>1 DEF WithIdentity, OpType
<1>4. QED
  BY <1>2, <1>3

\* The resolver's four answers to a new request.
LEMMA ResolveCases ==
    ASSUME TypeInv, NEW r \in Reqs, NEW o \in Ops, Resolve(r, o)
    PROVE  \E op \in OpType, q \in Starting, n \in ReqType :
             /\ op = WithIdentity(o)
             /\ req' = [req EXCEPT ![r] = n] /\ n.op = op
             /\ q.op = op
             /\ \/ /\ cache[op.w][op.key].kind # "missing"
                   /\ n = Admitted(q, cache[op.w][op.key])
                \/ /\ n.pc = "wait" /\ InFlight(op.w, op.key) /\ ~CutFlight(op.w, op.key)
                   /\ n.since = now /\ n.at = 0 /\ n.res = 0
                \/ n.pc = "done" /\ n.at = 0 /\ n.res = 499
                \/ /\ n.pc = "lookup" /\ ~InFlight(op.w, op.key)
                   /\ n.since = now /\ n.at = 0 /\ n.res = 0
<1> DEFINE Answer(op, q, n) ==
             /\ op = WithIdentity(o)
             /\ req' = [req EXCEPT ![r] = n] /\ n.op = op
             /\ q.op = op
             /\ \/ /\ cache[op.w][op.key].kind # "missing"
                   /\ n = Admitted(q, cache[op.w][op.key])
                \/ /\ n.pc = "wait" /\ InFlight(op.w, op.key) /\ ~CutFlight(op.w, op.key)
                   /\ n.since = now /\ n.at = 0 /\ n.res = 0
                \/ n.pc = "done" /\ n.at = 0 /\ n.res = 499
                \/ /\ n.pc = "lookup" /\ ~InFlight(op.w, op.key)
                   /\ n.since = now /\ n.at = 0 /\ n.res = 0
<1> SUFFICES \E op \in OpType, q \in Starting, n \in ReqType : Answer(op, q, n)
  OBVIOUS
<1> HIDE DEF Answer
<1>1. PICK op \in OpType : op = WithIdentity(o)
  BY IdentityType
<1>2. now \in Nat
  BY Constants DEF TypeInv
<1>3. PICK q : q = [Idle EXCEPT !.op = op, !.since = now]
  OBVIOUS
<1>4. /\ q = [pc |-> "idle", op |-> op, seen |-> Absent, since |-> now, at |-> 0, res |-> 0,
              cut |-> FALSE, with |-> {}]
      /\ q \in Starting
  BY <1>2, <1>3, Constants DEF Idle, Starting
<1>5. PICK hit \in Entries : hit = cache[op.w][op.key]
  BY DEF TypeInv, OpType
<1>6. req' = [req EXCEPT ![r] =
                CASE hit.kind # "missing" -> Admitted(q, hit)
                  [] hit.kind = "missing" /\ InFlight(op.w, op.key) ->
                       IF CutFlight(op.w, op.key) THEN Aborted(q) ELSE [q EXCEPT !.pc = "wait"]
                  [] OTHER -> [q EXCEPT !.pc = "lookup"]]
  BY <1>1, <1>3, <1>5 DEF Resolve
<1>7. CASE hit.kind # "missing"
  <2>1. req' = [req EXCEPT ![r] = Admitted(q, hit)]
    BY <1>6, <1>7
  <2>2. Admitted(q, hit) \in ReqType /\ Admitted(q, hit).op = op
    BY <1>2, <1>4, <1>7, AdmittedType
  <2>3. Answer(op, q, Admitted(q, hit))
    BY <1>1, <1>4, <1>5, <1>7, <2>1, <2>2 DEF Answer
  <2>4. QED
    BY <1>4, <2>2, <2>3
<1>8. CASE hit.kind = "missing" /\ ~(InFlight(op.w, op.key) /\ CutFlight(op.w, op.key))
  <2>1. PICK n : n = [q EXCEPT !.pc = IF InFlight(op.w, op.key) THEN "wait" ELSE "lookup"]
    OBVIOUS
  <2>2. /\ n \in ReqType /\ n.op = op /\ n.since = now /\ n.at = 0 /\ n.res = 0
        /\ n.pc = IF InFlight(op.w, op.key) THEN "wait" ELSE "lookup"
    BY <1>2, <1>4, <2>1, Constants DEF ReqType, Active
  <2>3. req' = [req EXCEPT ![r] = n]
    BY <1>6, <1>8, <2>1
  <2>4. Answer(op, q, n)
    BY <1>1, <1>4, <1>8, <2>2, <2>3 DEF Answer
  <2>5. QED
    BY <1>4, <2>2, <2>4
<1>9. CASE hit.kind = "missing" /\ InFlight(op.w, op.key) /\ CutFlight(op.w, op.key)
  <2>1. req' = [req EXCEPT ![r] = Aborted(q)]
    BY <1>6, <1>9
  <2>2. /\ Aborted(q) \in ReqType /\ Aborted(q).op = op
        /\ Aborted(q).pc = "done" /\ Aborted(q).res = 499 /\ Aborted(q).at = 0
    BY <1>4, AbortedType
  <2>3. Answer(op, q, Aborted(q))
    BY <1>1, <1>4, <2>1, <2>2 DEF Answer
  <2>4. QED
    BY <1>4, <2>2, <2>3
<1>10. QED
  BY <1>7, <1>8, <1>9

LEMMA VerdictType ==
    ASSUME NEW row \in RowType, now \in Nat
    PROVE  /\ Verdict(row) \in Entries /\ Verdict(row).at = now
           /\ Verdict(row).kind \in {"yes", "no"}
           /\ Verdict(row).kind = "yes" <=> row.st = "active" /\ row.own /\ ~ row.exp < now
  BY DEF Verdict, Entries, RowType, Roles

----------------------------------------------------------------------------
(* The steps, by what they leave alone *)

\* A request that authenticates is cancelled.
Cancels(r) == CancelLeader(r) \/ CancelWaiter(r) \/ CancelStranded(r)

\* A worker starts: neither the clock, the caches nor the requests move.
Boots(w) == Start(w) \/ BootStep(w)

LEMMA BootsKeep ==
    ASSUME NEW w, Boots(w)
    PROVE  /\ now' = now /\ cache' = cache /\ req' = req /\ raced' = raced
           /\ ~DashRevoke(w) => unguarded' = unguarded
  BY DEF Boots, Start, BootStep, EnvRead, EnvCreate, EnvDone, DashRead, DashRevoke, DashCreate, Serve

\* A request is handled: neither the clock nor the workers move.
Requests(r) == RequestStep(r) \/ \E op \in Ops : Resolve(r, op)

LEMMA RequestsKeep ==
    ASSUME NEW r, Requests(r)
    PROVE  now' = now /\ boot' = boot /\ boots' = boots
  BY DEF Requests, RequestStep, Resolve, ReadRow, Resume, LookupFails, CancelLeader, CancelWaiter,
         CancelStranded, CreateKey, RevokeLookup, RevokeCount, RevokeUpdate, Audit, AuditFails,
         Invalidate

LEMMA Steps ==
    ASSUME [AccessNext]_accessVars
    PROVE  \/ Tick
           \/ \E w \in Workers : Boots(w) \/ Crash(w)
           \/ \E r \in Reqs : Requests(r)
           \/ UNCHANGED accessVars
  BY DEF AccessNext, Boots, Requests

\* How a worker that starts moves.
LEMMA BootsType ==
    ASSUME TypeInv, NEW w \in Workers, Boots(w)
    PROVE  /\ \E b \in BootType : BootOK(b) /\ boot' = [boot EXCEPT ![w] = b]
           /\ boots' \in Nat
<1>1. boot[w] \in BootType /\ BootOK(boot[w]) /\ boots \in Nat
  BY DEF TypeInv
<1>2. PICK b : b = boot[w]
  OBVIOUS
<1>3. /\ b \in BootType /\ b.todo \in Seq(Labels) /\ b.phase \in Phase /\ b.seen = Absent
      /\ b.phase \in {"envcreate", "dashrevoke", "dashcreate"} => b.todo # << >>
  BY <1>1, <1>2 DEF BootType, BootOK
<1>4. EnvKeys \in Seq(Labels) /\ DashKeys \in Seq(Labels)
  BY KeysAssumption
<1> DEFINE B(ph, td) == [phase |-> ph, todo |-> td, seen |-> Absent]
           Goal == \E x \in BootType : BootOK(x) /\ boot' = [boot EXCEPT ![w] = x]
<1>5. ASSUME NEW ph \in Phase, NEW td \in Seq(Labels),
             ph \in {"envcreate", "dashrevoke", "dashcreate"} => td # << >>
      PROVE  B(ph, td) \in BootType /\ BootOK(B(ph, td))
  BY <1>5 DEF BootType, BootOK
<1>6. /\ \A ph : [b EXCEPT !.phase = ph] = B(ph, b.todo)
      /\ \A td : [b EXCEPT !.todo = td] = B(b.phase, td)
      /\ \A ph, td : [b EXCEPT !.phase = ph, !.todo = td] = B(ph, td)
  <2>1. ASSUME NEW ph PROVE [b EXCEPT !.phase = ph] = B(ph, b.todo)
    BY <1>3 DEF BootType
  <2>2. ASSUME NEW td PROVE [b EXCEPT !.todo = td] = B(b.phase, td)
    BY <1>3 DEF BootType
  <2>3. ASSUME NEW ph, NEW td PROVE [b EXCEPT !.phase = ph, !.todo = td] = B(ph, td)
    <3>1. PICK x : x = [b EXCEPT !.phase = ph]
      OBVIOUS
    <3>2. x = [phase |-> ph, todo |-> b.todo, seen |-> Absent]
      BY <2>1, <3>1
    <3>3. [x EXCEPT !.todo = td] = B(ph, td)
      BY <3>2
    <3>4. [x EXCEPT !.todo = td] = [b EXCEPT !.phase = ph, !.todo = td]
      BY <1>3, <3>1 DEF BootType
    <3>5. QED
      BY <3>3, <3>4
  <2> HIDE DEF B
  <2>4. QED
    BY <2>1, <2>2, <2>3
<1>7. b.todo # << >> => Tail(b.todo) \in Seq(Labels)
  BY <1>3
<1>8. ASSUME NEW ph \in Phase, NEW td \in Seq(Labels),
             ph \in {"envcreate", "dashrevoke", "dashcreate"} => td # << >>,
             boot' = [boot EXCEPT ![w] = B(ph, td)]
      PROVE  Goal
  BY <1>5, <1>8
<1>9. /\ "env" \in Phase /\ "envcreate" \in Phase /\ "dash" \in Phase /\ "dashrevoke" \in Phase
      /\ "dashcreate" \in Phase /\ "up" \in Phase /\ << >> \in Seq(Labels)
  BY DEF Phase
<1>10. ASSUME Start(w) \/ EnvDone(w) \/ Serve(w) PROVE Goal
  <2>1. \/ boot' = [boot EXCEPT ![w] = B("env", EnvKeys)]
        \/ boot' = [boot EXCEPT ![w] = B("dash", DashKeys)]
        \/ boot' = [boot EXCEPT ![w] = B("up", << >>)]
    BY <1>10 DEF Start, EnvDone, Serve
  <2> HIDE DEF B
  <2>2. QED
    BY <1>4, <1>8, <1>9, <2>1
<1>11. ASSUME EnvRead(w) PROVE Goal
  <2>1. b.todo # << >> /\ b.phase = "env"
    BY <1>2, <1>11 DEF EnvRead
  <2>2. \/ boot' = [boot EXCEPT ![w] = [b EXCEPT !.todo = Tail(b.todo)]]
        \/ boot' = [boot EXCEPT ![w] = [b EXCEPT !.phase = "envcreate"]]
    BY <1>2, <1>11 DEF EnvRead
  <2>3. \/ boot' = [boot EXCEPT ![w] = B(b.phase, Tail(b.todo))]
        \/ boot' = [boot EXCEPT ![w] = B("envcreate", b.todo)]
    BY <1>6, <2>2
  <2> HIDE DEF B
  <2>4. QED
    BY <1>3, <1>7, <1>8, <1>9, <2>1, <2>3
<1>12. ASSUME EnvCreate(w) PROVE Goal
  <2>1. b.todo # << >>
    BY <1>2, <1>3, <1>12 DEF EnvCreate
  <2>2. \/ boot' = [boot EXCEPT ![w] = B("dash", DashKeys)]
        \/ boot' = [boot EXCEPT ![w].phase = "env", ![w].todo = Tail(@)]
    BY <1>12 DEF EnvCreate
  <2>3. boot' = [boot EXCEPT ![w].phase = "env", ![w].todo = Tail(@)] =>
          boot' = [boot EXCEPT ![w] = [b EXCEPT !.phase = "env", !.todo = Tail(b.todo)]]
    BY <1>2, <1>3 DEF TypeInv, BootType
  <2>4. \/ boot' = [boot EXCEPT ![w] = B("dash", DashKeys)]
        \/ boot' = [boot EXCEPT ![w] = B("env", Tail(b.todo))]
    BY <1>6, <2>2, <2>3
  <2> HIDE DEF B
  <2>5. QED
    BY <1>4, <1>7, <1>8, <1>9, <2>1, <2>4
<1>13. ASSUME DashRead(w) PROVE Goal
  <2>1. b.todo # << >> /\ b.phase = "dash"
    BY <1>2, <1>13 DEF DashRead
  <2>2. \/ boot' = [boot EXCEPT ![w] = [b EXCEPT !.phase = "dashcreate"]]
        \/ boot' = [boot EXCEPT ![w] = [b EXCEPT !.phase = "dashrevoke"]]
        \/ boot' = [boot EXCEPT ![w] = [b EXCEPT !.todo = Tail(b.todo)]]
    <3>1. PICK row : row = rows[Head(b.todo)]
      OBVIOUS
    <3>2. boot' = [boot EXCEPT ![w] =
                  CASE row.st # "active" -> [b EXCEPT !.phase = "dashcreate"]
                    [] row.st = "active" /\ ~row.own -> [b EXCEPT !.phase = "dashrevoke"]
                    [] OTHER -> [b EXCEPT !.todo = Tail(b.todo)]]
      BY <1>2, <1>13, <3>1 DEF DashRead
    <3>3. CASE row.st # "active"
      BY <3>2, <3>3
    <3>4. CASE row.st = "active" /\ ~row.own
      BY <3>2, <3>4
    <3>5. CASE row.st = "active" /\ row.own
      BY <3>2, <3>5
    <3>6. QED
      BY <3>3, <3>4, <3>5
  <2>3. \/ boot' = [boot EXCEPT ![w] = B("dashcreate", b.todo)]
        \/ boot' = [boot EXCEPT ![w] = B("dashrevoke", b.todo)]
        \/ boot' = [boot EXCEPT ![w] = B(b.phase, Tail(b.todo))]
    BY <1>6, <2>2
  <2> HIDE DEF B
  <2>4. QED
    BY <1>3, <1>7, <1>8, <1>9, <2>1, <2>3
<1>14. ASSUME DashRevoke(w) PROVE Goal
  <2>1. b.todo # << >>
    BY <1>2, <1>3, <1>14 DEF DashRevoke
  <2>2. boot' = [boot EXCEPT ![w] = [b EXCEPT !.phase = "dashcreate"]]
    BY <1>2, <1>14 DEF DashRevoke, TypeInv
  <2>3. boot' = [boot EXCEPT ![w] = B("dashcreate", b.todo)]
    BY <1>6, <2>2
  <2> HIDE DEF B
  <2>4. QED
    BY <1>3, <1>8, <1>9, <2>1, <2>3
<1>15. ASSUME DashCreate(w) PROVE Goal
  <2>1. b.todo # << >>
    BY <1>2, <1>3, <1>15 DEF DashCreate
  <2>2. boot' = [boot EXCEPT ![w] = [b EXCEPT !.phase = "dash", !.todo = Tail(b.todo)]]
    BY <1>2, <1>3, <1>15 DEF DashCreate, TypeInv, BootType
  <2>3. boot' = [boot EXCEPT ![w] = B("dash", Tail(b.todo))]
    BY <1>6, <2>2
  <2> HIDE DEF B
  <2>4. QED
    BY <1>7, <1>8, <1>9, <2>1, <2>3
<1>17. boots' \in Nat
  <2>1. ASSUME Start(w) PROVE boots' = boots + 1
    BY <2>1 DEF Start
  <2>2. ASSUME EnvRead(w) \/ EnvCreate(w) \/ EnvDone(w) PROVE boots' = boots
    BY <2>2 DEF EnvRead, EnvCreate, EnvDone
  <2>3. ASSUME DashRead(w) \/ DashRevoke(w) PROVE boots' = boots
    BY <2>3 DEF DashRead, DashRevoke
  <2>4. ASSUME DashCreate(w) \/ Serve(w) PROVE boots' = boots
    BY <2>4 DEF DashCreate, Serve
  <2>5. boots' = boots \/ boots' = boots + 1
    BY <2>1, <2>2, <2>3, <2>4 DEF Boots, BootStep
  <2>6. QED
    BY <1>1, <2>5
<1>18. QED
  BY <1>10, <1>11, <1>12, <1>13, <1>14, <1>15, <1>17 DEF Boots, BootStep

----------------------------------------------------------------------------
(* Rows are made once and revoked once *)

Born(l) == /\ rows[l].st = "absent" /\ rows'[l] \in RowType /\ rows'[l].st = "active"
           /\ rows'[l].made = now /\ rows'[l].gone = Never
Died(l) == /\ rows[l].st = "active" /\ rows'[l] \in RowType /\ rows'[l].st = "revoked"
           /\ rows'[l].gone = now /\ rows'[l].own = rows[l].own /\ rows'[l].role = rows[l].role
           /\ rows'[l].made = rows[l].made /\ rows'[l].exp = rows[l].exp
RowMoves(l) == rows'[l] = rows[l] \/ Born(l) \/ Died(l)

\* A new active row of a role, whichever key it was made for.
Fresh(n, role) == /\ n \in RowType /\ n.st = "active" /\ n.made = now /\ n.gone = Never
                  /\ n.role = role

LEMMA RowType1 ==
    ASSUME NEW role \in Roles, NEW exp \in Nat, now \in Nat
    PROVE  Fresh(Row(role, exp), role) /\ \A l \in Labels : Fresh(HandRow(l, role, exp), role)
<1>1. Row(role, exp) \in RowType /\ Fresh(Row(role, exp), role)
  BY Constants DEF Row, RowType, Fresh
<1>2. ASSUME NEW l \in Labels PROVE Fresh(HandRow(l, role, exp), role)
  <2>1. PICK x \in RowType : x = Row(role, exp) /\ Fresh(x, role)
    BY <1>1
  <2>2. PICK b \in BOOLEAN : b = (l \notin Configured)
    OBVIOUS
  <2>3. Fresh([x EXCEPT !.own = b], role)
    BY <2>1 DEF RowType, Fresh
  <2>4. QED
    BY <2>1, <2>2, <2>3 DEF HandRow
<1>3. QED
  BY <1>1, <1>2

LEMMA RevokedType ==
    ASSUME NEW row \in RowType, now \in Nat
    PROVE  /\ Revoked(row) \in RowType
           /\ row.st # "active" => Revoked(row) = row
           /\ row.st = "active" => /\ Revoked(row).st = "revoked" /\ Revoked(row).gone = now
                                   /\ Revoked(row).own = row.own /\ Revoked(row).role = row.role
                                   /\ Revoked(row).made = row.made /\ Revoked(row).exp = row.exp
<1>1. PICK x : x = [row EXCEPT !.st = "revoked"]
  OBVIOUS
<1>2. x \in RowType
  BY <1>1 DEF RowType
<1>3. [x EXCEPT !.gone = now] \in RowType
  BY <1>2 DEF RowType
<1>4. [x EXCEPT !.gone = now] = [row EXCEPT !.st = "revoked", !.gone = now]
  BY <1>1 DEF RowType
<1>5. row.st = "active" => Revoked(row) \in RowType
  BY <1>3, <1>4 DEF Revoked
<1>6. QED
  BY <1>5 DEF Revoked, RowType

\* The label a worker or a request writes, and what it writes there.
LEMMA CreateMoves ==
    ASSUME TypeInv, NEW l \in Labels, rows[l].st = "absent", NEW role \in Roles, NEW n,
           Fresh(n, role), Create(l, n)
    PROVE  /\ rows' \in [Labels -> RowType] /\ \A k \in Labels : RowMoves(k)
           /\ Born(l) /\ rows'[l].role = role
           /\ \A k \in Labels : k # l => rows'[k] = rows[k]
<1>1. now \in Nat /\ rows \in [Labels -> RowType]
  BY Constants DEF TypeInv
<1>2. n \in RowType /\ n.st = "active" /\ n.made = now /\ n.gone = Never /\ n.role = role
  BY DEF Fresh
<1>3. rows' = [rows EXCEPT ![l] = n]
  BY DEF Create
<1>4. /\ rows' \in [Labels -> RowType] /\ rows'[l] = n
      /\ \A k \in Labels : k # l => rows'[k] = rows[k]
  BY <1>1, <1>2, <1>3
<1>5. Born(l)
  BY <1>2, <1>4 DEF Born
<1>6. QED
  BY <1>2, <1>4, <1>5 DEF RowMoves

LEMMA RevokeMoves ==
    ASSUME TypeInv, NEW l \in Labels, rows' = [rows EXCEPT ![l] = Revoked(@)]
    PROVE  /\ rows' \in [Labels -> RowType] /\ \A k \in Labels : RowMoves(k)
           /\ \A k \in Labels : k # l => rows'[k] = rows[k]
           /\ ~Born(l)
<1>1. now \in Nat /\ rows \in [Labels -> RowType] /\ rows[l] \in RowType
  BY Constants DEF TypeInv
<1>2. PICK n : n = Revoked(rows[l])
  OBVIOUS
<1>3. /\ n \in RowType
      /\ rows[l].st # "active" => n = rows[l]
      /\ rows[l].st = "active" => /\ n.st = "revoked" /\ n.gone = now
                                  /\ n.own = rows[l].own /\ n.role = rows[l].role
                                  /\ n.made = rows[l].made /\ n.exp = rows[l].exp
  BY <1>1, <1>2, RevokedType
<1>4. rows' = [rows EXCEPT ![l] = n]
  BY <1>2
<1>5. /\ rows' \in [Labels -> RowType] /\ rows'[l] = n
      /\ \A k \in Labels : k # l => rows'[k] = rows[k]
  BY <1>1, <1>3, <1>4
<1>6. rows'[l] = rows[l] \/ Died(l)
  BY <1>1, <1>3, <1>5 DEF Died
<1>7. ~Born(l)
  BY <1>6 DEF Born, Died
<1>8. QED
  BY <1>5, <1>6, <1>7 DEF RowMoves

\* What a starting worker does to the table.
LEMMA BootsRows ==
    ASSUME TypeInv, NEW w \in Workers, Boots(w)
    PROVE  \/ rows' = rows
           \/ /\ EnvCreate(w) /\ Head(boot[w].todo) \in Labels
              /\ rows[Head(boot[w].todo)].st = "absent"
              /\ \E role \in Roles : \E n : Fresh(n, role) /\ Create(Head(boot[w].todo), n)
           \/ /\ DashCreate(w) /\ Head(boot[w].todo) \in Labels
              /\ rows[Head(boot[w].todo)].st = "absent"
              /\ \E role \in Roles : \E n : Fresh(n, role) /\ Create(Head(boot[w].todo), n)
           \/ /\ DashRevoke(w) /\ Head(boot[w].todo) \in Labels
              /\ rows' = [rows EXCEPT ![Head(boot[w].todo)] = Revoked(@)]
<1>1. boot[w].phase \in {"envcreate", "dashrevoke", "dashcreate"} => Head(boot[w].todo) \in Labels
  BY DEF TypeInv, BootOK, BootType
<1>2. Never \in Nat /\ "admin" \in Roles /\ "submitter" \in Roles
  BY Constants DEF Roles
<1>3. CASE EnvCreate(w)
  <2>1. CASE Conflict(Head(boot[w].todo))
    BY <1>3, <2>1 DEF EnvCreate
  <2>2. CASE ~Conflict(Head(boot[w].todo))
    <3>1. PICK role \in Roles : role = IF Head(boot[w].todo) = Head(EnvKeys) THEN "admin" ELSE "submitter"
      BY <1>2
    <3>2. Create(Head(boot[w].todo), Row(role, Never)) /\ boot[w].phase = "envcreate"
      BY <1>3, <2>2, <3>1 DEF EnvCreate
    <3>3. Fresh(Row(role, Never), role)
      BY <1>2, RowType1, Constants DEF TypeInv
    <3>4. QED
      BY <1>1, <1>2, <1>3, <2>2, <3>2, <3>3 DEF Conflict
  <2>3. QED
    BY <2>1, <2>2
<1>4. CASE DashCreate(w)
  <2>1. Fresh(Row("submitter", Never), "submitter")
    BY <1>2, RowType1, Constants DEF TypeInv
  <2>2. QED
    BY <1>1, <1>2, <1>4, <2>1 DEF DashCreate, Conflict
<1>5. CASE DashRevoke(w)
  BY <1>1, <1>5 DEF DashRevoke
<1>6. QED
  BY <1>3, <1>4, <1>5 DEF Boots, BootStep, Start, EnvRead, EnvDone, DashRead, Serve

\* What a request does to the table.
LEMMA RequestsRows ==
    ASSUME TypeInv, NEW r \in Reqs, Requests(r)
    PROVE  \/ rows' = rows
           \/ /\ CreateKey(r) /\ req[r].pc = "create" /\ req[r].op.target \in Labels
              /\ rows[req[r].op.target].st = "absent"
              /\ \E role \in Roles : \E n : Fresh(n, role) /\ Create(req[r].op.target, n)
           \/ /\ RevokeUpdate(r) /\ req[r].pc = "update" /\ req[r].op.target \in Labels
              /\ rows' = [rows EXCEPT ![req[r].op.target] = Revoked(@)]
<1>1. now \in Nat
  BY Constants DEF TypeInv
<1>2. CASE CreateKey(r)
  <2>1. req[r].op \in OpType /\ req[r].op.target \in Labels
    BY <1>2, ReqShape DEF CreateKey
  <2>2. req[r].op.role \in Roles /\ now + req[r].op.exp \in Nat
    BY <1>1, <2>1 DEF OpType
  <2>3. CASE Conflict(req[r].op.target)
    BY <1>2, <2>3 DEF CreateKey
  <2>4. CASE ~Conflict(req[r].op.target)
    <3>1. PICK n : n = HandRow(req[r].op.target, req[r].op.role, now + req[r].op.exp)
      OBVIOUS
    <3>2. Create(req[r].op.target, n) /\ Fresh(n, req[r].op.role)
      BY <1>1, <1>2, <2>1, <2>2, <2>4, <3>1, RowType1 DEF CreateKey
    <3>3. QED
      BY <1>2, <2>1, <2>2, <2>4, <3>2 DEF CreateKey, Conflict
  <2>5. QED
    BY <2>3, <2>4
<1>3. CASE RevokeUpdate(r)
  BY <1>3, ReqShape DEF RevokeUpdate
<1>4. QED
  BY <1>2, <1>3
     DEF Requests, RequestStep, Resolve, ReadRow, Resume, LookupFails, CancelLeader, CancelWaiter,
         CancelStranded, RevokeLookup, RevokeCount, Audit, AuditFails, Invalidate

LEMMA RowsMove ==
    ASSUME TypeInv, [AccessNext]_accessVars
    PROVE  rows' \in [Labels -> RowType] /\ \A l \in Labels : RowMoves(l)
<1>1. CASE rows' = rows
  BY <1>1 DEF TypeInv, RowMoves
<1>2. ASSUME NEW w \in Workers, Boots(w)
      PROVE  rows' \in [Labels -> RowType] /\ \A l \in Labels : RowMoves(l)
  BY <1>1, <1>2, BootsRows, CreateMoves, RevokeMoves
<1>3. ASSUME NEW r \in Reqs, Requests(r)
      PROVE  rows' \in [Labels -> RowType] /\ \A l \in Labels : RowMoves(l)
  BY <1>1, <1>3, RequestsRows, CreateMoves, RevokeMoves
<1>4. QED
  BY <1>1, <1>2, <1>3, Steps DEF Tick, Crash, accessVars

----------------------------------------------------------------------------
(* How requests move *)

\* A change of one or two fields leaves a request a request.
LEMMA Gone ==
    ASSUME TypeInv, NEW r \in Reqs, req[r].pc # "idle", NEW pc \in Active, NEW res \in Nat
    PROVE  /\ Goto(r, pc) =>
                \E n \in ReqType : /\ req' = [req EXCEPT ![r] = n] /\ n.pc = pc
                                   /\ n.op = req[r].op /\ n.at = req[r].at /\ n.res = req[r].res
           /\ Reply(r, res) =>
                \E n \in ReqType : /\ req' = [req EXCEPT ![r] = n] /\ n.pc = "done"
                                   /\ n.op = req[r].op /\ n.at = req[r].at /\ n.res = res
<1>1. req[r] \in ReqType /\ req \in [Reqs -> ReqType \cup {Idle}]
  BY ReqShape DEF TypeInv
<1>2. PICK q \in ReqType : q = req[r]
  BY <1>1
<1>3. ASSUME Goto(r, pc)
      PROVE  \E n \in ReqType : /\ req' = [req EXCEPT ![r] = n] /\ n.pc = pc
                                /\ n.op = req[r].op /\ n.at = req[r].at /\ n.res = req[r].res
  <2>1. req' = [req EXCEPT ![r] = [q EXCEPT !.pc = pc]]
    BY <1>1, <1>2, <1>3 DEF Goto
  <2>2. [q EXCEPT !.pc = pc] \in ReqType
    BY DEF ReqType
  <2>3. /\ [q EXCEPT !.pc = pc].pc = pc /\ [q EXCEPT !.pc = pc].op = q.op
        /\ [q EXCEPT !.pc = pc].at = q.at /\ [q EXCEPT !.pc = pc].res = q.res
    BY DEF ReqType
  <2>4. QED
    BY <1>2, <2>1, <2>2, <2>3
<1>4. ASSUME Reply(r, res)
      PROVE  \E n \in ReqType : /\ req' = [req EXCEPT ![r] = n] /\ n.pc = "done"
                                /\ n.op = req[r].op /\ n.at = req[r].at /\ n.res = res
  <2>1. PICK n : n = [q EXCEPT !.pc = "done", !.res = res, !.seen = Absent]
    OBVIOUS
  <2>2. n \in ReqType
    BY <2>1, Constants DEF ReqType, Active
  <2>3. n.pc = "done" /\ n.op = q.op /\ n.at = q.at /\ n.res = res
    BY <2>1 DEF ReqType
  <2>4. req' = [req EXCEPT ![r] = n]
    BY <1>1, <1>2, <1>4, <2>1 DEF Reply
  <2>5. QED
    BY <1>2, <2>2, <2>3, <2>4
<1>5. QED
  BY <1>3, <1>4

\* The endpoints: one request moves on or is answered.
Handles(r) == \/ CreateKey(r) \/ RevokeLookup(r) \/ RevokeCount(r) \/ RevokeUpdate(r)
              \/ Audit(r) \/ AuditFails(r) \/ Invalidate(r)

LEMMA HandlesCases ==
    ASSUME TypeInv, NEW r \in Reqs, Handles(r)
    PROVE  /\ req[r].pc \in {"create", "revoke", "count", "update", "audit", "invalidate"}
           /\ \E n \in ReqType :
                 /\ req' = [req EXCEPT ![r] = n]
                 /\ n.op = req[r].op /\ n.at = req[r].at
                 /\ n.pc \in {"count", "update", "audit", "invalidate", "done"}
                 /\ n.pc # "done" => n.res = req[r].res
                 /\ n.res \in {req[r].res, 200, 400, 404, 409, 500}
<1> DEFINE Becomes(n) ==
                 /\ req' = [req EXCEPT ![r] = n]
                 /\ n.op = req[r].op /\ n.at = req[r].at
                 /\ n.pc \in {"count", "update", "audit", "invalidate", "done"}
                 /\ n.pc # "done" => n.res = req[r].res
                 /\ n.res \in {req[r].res, 200, 400, 404, 409, 500}
<1> DEFINE Goal == \E n \in ReqType : Becomes(n)
<1> HIDE DEF Becomes
<1>1. req[r].pc \in {"create", "revoke", "count", "update", "audit", "invalidate"}
  BY DEF Handles, CreateKey, RevokeLookup, RevokeCount, RevokeUpdate, Audit, AuditFails, Invalidate
<1>2. req[r].pc # "idle"
  BY <1>1
<1>3. ASSUME NEW pc \in {"count", "update", "audit", "invalidate"}, Goto(r, pc) PROVE Goal
  <2>1. pc \in Active /\ 0 \in Nat
    BY DEF Active
  <2>2. PICK n \in ReqType : /\ req' = [req EXCEPT ![r] = n] /\ n.pc = pc
                             /\ n.op = req[r].op /\ n.at = req[r].at /\ n.res = req[r].res
    BY <1>2, <1>3, <2>1, Gone
  <2>3. /\ n.pc \in {"count", "update", "audit", "invalidate", "done"}
        /\ n.pc # "done" => n.res = req[r].res
        /\ n.res \in {req[r].res, 200, 400, 404, 409, 500}
    BY <1>3, <2>2
  <2>4. Becomes(n)
    BY <2>2, <2>3 DEF Becomes
  <2>5. QED
    BY <2>4
<1>4. ASSUME NEW res \in {200, 400, 404, 409, 500}, Reply(r, res) PROVE Goal
  <2>1. res \in Nat /\ "done" \in Active
    BY DEF Active
  <2>2. PICK n \in ReqType : /\ req' = [req EXCEPT ![r] = n] /\ n.pc = "done"
                             /\ n.op = req[r].op /\ n.at = req[r].at /\ n.res = res
    BY <1>2, <1>4, <2>1, Gone
  <2>3. /\ n.pc \in {"count", "update", "audit", "invalidate", "done"}
        /\ n.pc # "done" => n.res = req[r].res
        /\ n.res \in {req[r].res, 200, 400, 404, 409, 500}
    BY <1>4, <2>2
  <2>4. Becomes(n)
    BY <2>2, <2>3 DEF Becomes
  <2>5. QED
    BY <2>4
<1>5. \/ \E pc \in {"count", "update", "audit", "invalidate"} : Goto(r, pc)
      \/ \E res \in {200, 400, 404, 409, 500} : Reply(r, res)
  <2>1. ASSUME RevokeLookup(r)
        PROVE  Goto(r, "count") \/ Goto(r, "update") \/ Reply(r, 404) \/ Reply(r, 400)
    <3>1. CASE rows[req[r].op.target].st # "active"
      BY <2>1, <3>1 DEF RevokeLookup
    <3>2. CASE rows[req[r].op.target].st = "active" /\ req[r].op.target = req[r].op.key
      BY <2>1, <3>2 DEF RevokeLookup
    <3>3. CASE rows[req[r].op.target].st = "active" /\ req[r].op.target # req[r].op.key
      BY <2>1, <3>3 DEF RevokeLookup
    <3>4. QED
      BY <3>1, <3>2, <3>3
  <2>2. CASE CreateKey(r)
    BY <2>2 DEF CreateKey
  <2>3. CASE RevokeCount(r) \/ RevokeUpdate(r)
    BY <2>3 DEF RevokeCount, RevokeUpdate
  <2>4. CASE Audit(r) \/ AuditFails(r) \/ Invalidate(r)
    BY <2>4 DEF Audit, AuditFails, Invalidate
  <2>5. QED
    BY <2>1, <2>2, <2>3, <2>4 DEF Handles
<1>6. Goal
  BY <1>3, <1>4, <1>5
<1>7. QED
  BY <1>1, <1>6 DEF Becomes

\* The leader of a lookup takes those who wait along.
LEMMA ResumeCases ==
    ASSUME TypeInv, NEW r \in Reqs, Resume(r)
    PROVE  \E v \in Entries :
             /\ v = Verdict(req[r].seen) /\ v.at = now /\ v.kind \in {"yes", "no"}
             /\ cache' = [cache EXCEPT ![req[r].op.w][req[r].op.key] = v]
             /\ req' \in [Reqs -> ReqType \cup {Idle}]
             /\ \A q \in Reqs :
                  IF q = r \/ q \in At(req[r].op.w, req[r].op.key, "wait")
                  THEN req[q] \in ReqType /\ req'[q] = Admitted(req[q], v)
                  ELSE req'[q] = req[q]
<1>1. now \in Nat /\ req \in [Reqs -> ReqType \cup {Idle}]
  BY Constants DEF TypeInv
<1>2. req[r].pc = "resume" /\ req[r].seen \in RowType
  BY ReqShape DEF Resume
<1>3. PICK v \in Entries : /\ v = Verdict(req[r].seen) /\ v.at = now /\ v.kind \in {"yes", "no"}
  BY <1>1, <1>2, VerdictType
<1>4. /\ cache' = [cache EXCEPT ![req[r].op.w][req[r].op.key] = v]
      /\ req' = [q \in Reqs |-> IF q = r \/ q \in At(req[r].op.w, req[r].op.key, "wait")
                                THEN Admitted(req[q], v) ELSE req[q]]
  BY <1>3 DEF Resume
<1>5. ASSUME NEW q \in Reqs, q = r \/ q \in At(req[r].op.w, req[r].op.key, "wait")
      PROVE  req[q] \in ReqType /\ Admitted(req[q], v) \in ReqType
  <2>1. req[q].pc # "idle"
    BY <1>2, <1>5 DEF At
  <2>2. req[q] \in ReqType
    BY <2>1, ReqShape
  <2>3. req[q] \in Starting
    BY <2>2 DEF ReqType, Starting
  <2>4. QED
    BY <1>1, <1>3, <2>2, <2>3, AdmittedType
<1>6. req' \in [Reqs -> ReqType \cup {Idle}]
  BY <1>1, <1>4, <1>5
<1>7. QED
  BY <1>3, <1>4, <1>5, <1>6

LEMMA LookupFailsCases ==
    ASSUME TypeInv, NEW r \in Reqs, LookupFails(r)
    PROVE  /\ req' \in [Reqs -> ReqType \cup {Idle}]
           /\ \A q \in Reqs :
                IF q = r \/ q \in At(req[r].op.w, req[r].op.key, "wait")
                THEN /\ req'[q] \in ReqType /\ req'[q].pc = "done" /\ req'[q].res = 500
                     /\ req'[q].op = req[q].op /\ req'[q].at = req[q].at
                     /\ req[q].pc # "idle"
                ELSE req'[q] = req[q]
<1>1. req \in [Reqs -> ReqType \cup {Idle}] /\ req[r].pc = "lookup"
  BY DEF TypeInv, LookupFails
<1>2. req' = [q \in Reqs |-> IF q = r \/ q \in At(req[r].op.w, req[r].op.key, "wait")
                             THEN [req[q] EXCEPT !.pc = "done", !.res = 500, !.since = 0,
                                                 !.cut = FALSE]
                             ELSE req[q]]
  BY DEF LookupFails
<1>3. ASSUME NEW q \in Reqs, q = r \/ q \in At(req[r].op.w, req[r].op.key, "wait")
      PROVE  /\ req'[q] \in ReqType /\ req'[q].pc = "done" /\ req'[q].res = 500
             /\ req'[q].op = req[q].op /\ req'[q].at = req[q].at /\ req[q].pc # "idle"
  <2>1. req[q].pc # "idle"
    BY <1>1, <1>3 DEF At
  <2>2. PICK x \in ReqType : x = req[q]
    BY <2>1, ReqShape
  <2>3. PICK n : n = [x EXCEPT !.pc = "done", !.res = 500, !.since = 0, !.cut = FALSE]
    OBVIOUS
  <2>4. n \in ReqType
    <3>1. PICK y : y = [x EXCEPT !.pc = "done"]
      OBVIOUS
    <3>2. PICK z : z = [y EXCEPT !.res = 500]
      OBVIOUS
    <3>3. y \in ReqType
      BY <3>1 DEF ReqType, Active
    <3>4. z \in ReqType
      BY <3>2, <3>3 DEF ReqType
    <3>5. [z EXCEPT !.since = 0, !.cut = FALSE] \in ReqType
      BY <3>4 DEF ReqType
    <3>6. n = [z EXCEPT !.since = 0, !.cut = FALSE]
      BY <2>3, <3>1, <3>2 DEF ReqType
    <3>7. QED
      BY <3>5, <3>6
  <2>5. n.pc = "done" /\ n.res = 500 /\ n.op = x.op /\ n.at = x.at
    BY <2>3 DEF ReqType
  <2>6. req'[q] = n
    BY <1>2, <1>3, <2>2, <2>3
  <2>7. QED
    BY <2>1, <2>2, <2>4, <2>5, <2>6
<1>4. req' \in [Reqs -> ReqType \cup {Idle}]
  <2>1. ASSUME NEW q \in Reqs PROVE req'[q] \in ReqType \cup {Idle}
    <3>1. CASE q = r \/ q \in At(req[r].op.w, req[r].op.key, "wait")
      BY <1>3, <3>1
    <3>2. CASE ~(q = r \/ q \in At(req[r].op.w, req[r].op.key, "wait"))
      BY <1>1, <1>2, <3>2
    <3>3. QED
      BY <3>1, <3>2
  <2>2. DOMAIN req' = Reqs /\ req' = [q \in Reqs |-> req'[q]]
    BY <1>2, ZenonT(30)
  <2>3. QED
    BY <2>1, <2>2
<1>5. QED
  BY <1>2, <1>3, <1>4, ZenonT(30)

LEMMA ReadRowCases ==
    ASSUME TypeInv, NEW r \in Reqs, ReadRow(r)
    PROVE  \E n \in ReqType :
             /\ req' = [req EXCEPT ![r] = n] /\ n.pc = "resume"
             /\ n.op = req[r].op /\ n.at = req[r].at /\ n.res = req[r].res
             /\ n.since = req[r].since /\ n.seen = rows[req[r].op.key] /\ n.cut = req[r].cut
<1>1. req[r].pc # "idle" /\ req \in [Reqs -> ReqType \cup {Idle}]
  BY DEF ReadRow, TypeInv
<1>2. PICK x \in ReqType : x = req[r] /\ x.op.key \in Labels
  BY <1>1, ReqShape
<1>3. PICK row \in RowType : row = rows[x.op.key]
  BY <1>2 DEF TypeInv
<1>4. PICK n : n = [x EXCEPT !.pc = "resume", !.seen = row]
  OBVIOUS
<1>5. n \in ReqType
  BY <1>4 DEF ReqType, Active
<1>6. /\ n.pc = "resume" /\ n.op = x.op /\ n.at = x.at /\ n.res = x.res
      /\ n.since = x.since /\ n.seen = row /\ n.cut = x.cut
  BY <1>4 DEF ReqType
<1>7. req' = [req EXCEPT ![r] = n]
  BY <1>1, <1>2, <1>3, <1>4 DEF ReadRow
<1>8. QED
  BY <1>2, <1>3, <1>5, <1>6, <1>7

\* What a cancellation does to one request: it is over, stranded, or it leads a
\* lookup whose future was cancelled.
IsOver(q) == /\ req[q].pc # "idle" /\ req'[q] \in ReqType
             /\ req'[q].pc = "done" /\ req'[q].res = 499
             /\ req'[q].op = req[q].op /\ req'[q].at = req[q].at
IsStranded(q) == /\ req[q].pc = "wait" /\ req'[q] \in ReqType
                 /\ req'[q].pc = "stranded" /\ req'[q].res = req[q].res
                 /\ req'[q].op = req[q].op /\ req'[q].at = req[q].at
IsCut(q) == /\ req[q].pc \in {"lookup", "resume"} /\ req'[q] \in ReqType
            /\ req'[q].pc = req[q].pc /\ req'[q].res = req[q].res
            /\ req'[q].op = req[q].op /\ req'[q].at = req[q].at
            /\ req'[q].since = req[q].since /\ req'[q].seen = req[q].seen

LEMMA Stays ==
    ASSUME TypeInv, NEW q \in Reqs, req[q].pc # "idle"
    PROVE  /\ req'[q] = Aborted(req[q]) => IsOver(q)
           /\ req[q].pc \in {"lookup", "resume"} /\ req'[q] = [req[q] EXCEPT !.cut = TRUE] => IsCut(q)
           /\ \A s \in SUBSET Reqs :
                req[q].pc = "wait"
                /\ req'[q] = [req[q] EXCEPT !.pc = "stranded", !.since = 0, !.with = s]
                  => IsStranded(q)
<1>1. PICK x \in ReqType : x = req[q]
  BY ReqShape
<1>2. Aborted(x) \in ReqType /\ Aborted(x).pc = "done" /\ Aborted(x).res = 499
      /\ Aborted(x).op = x.op /\ Aborted(x).at = x.at
  <2>1. x \in Starting
    BY DEF ReqType, Starting
  <2>2. QED
    BY <2>1, AbortedType
<1>3. ASSUME NEW s \in SUBSET Reqs, x.pc = "wait",
             req'[q] = [x EXCEPT !.pc = "stranded", !.since = 0, !.with = s]
      PROVE  IsStranded(q)
  <2>1. PICK n : n = [x EXCEPT !.pc = "stranded", !.since = 0, !.with = s]
    OBVIOUS
  <2>2. n \in ReqType
    BY <2>1 DEF ReqType, Active
  <2>3. n.pc = "stranded" /\ n.op = x.op /\ n.at = x.at /\ n.res = x.res
    BY <2>1 DEF ReqType
  <2>4. QED
    BY <1>1, <1>3, <2>1, <2>2, <2>3 DEF IsStranded
<1>4. ASSUME x.pc \in {"lookup", "resume"}, req'[q] = [x EXCEPT !.cut = TRUE]
      PROVE  IsCut(q)
  <2>1. PICK n : n = [x EXCEPT !.cut = TRUE]
    OBVIOUS
  <2>2. n \in ReqType
    BY <2>1 DEF ReqType
  <2>3. /\ n.pc = x.pc /\ n.op = x.op /\ n.at = x.at /\ n.res = x.res /\ n.since = x.since
        /\ n.seen = x.seen
    BY <2>1 DEF ReqType
  <2>4. QED
    BY <1>1, <1>4, <2>1, <2>2, <2>3 DEF IsCut
<1>5. req'[q] = Aborted(x) => IsOver(q)
  BY <1>1, <1>2 DEF IsOver
<1>6. QED
  BY <1>1, <1>3, <1>4, <1>5

\* The cancelled leader is over and those who waited for it are stranded; a
\* cancelled request takes those who wait with it along.
LEMMA CancelLeaderCases ==
    ASSUME TypeInv, NEW r \in Reqs, CancelLeader(r)
    PROVE  /\ req[r].pc \in {"lookup", "resume"}
           /\ req' = [q \in Reqs |-> req'[q]]
           /\ \A q \in Reqs : IF q = r THEN IsOver(q)
                              ELSE IF q \in At(req[r].op.w, req[r].op.key, "wait")
                              THEN IsStranded(q) ELSE req'[q] = req[q]
<1>1. PICK waiters \in SUBSET Reqs : waiters = At(req[r].op.w, req[r].op.key, "wait")
  BY DEF At
<1>2. /\ req[r].pc \in {"lookup", "resume"}
      /\ req' = [q \in Reqs |->
            CASE q = r -> Aborted(req[q])
              [] q # r /\ q \in waiters ->
                   [req[q] EXCEPT !.pc = "stranded", !.since = 0, !.with = waiters]
              [] OTHER -> req[q]]
  BY <1>1 DEF CancelLeader
<1>3. \A q \in waiters : req[q].pc = "wait"
  BY <1>1 DEF At
<1>4. ASSUME NEW q \in Reqs
      PROVE  IF q = r THEN IsOver(q)
             ELSE IF q \in waiters THEN IsStranded(q) ELSE req'[q] = req[q]
  <2>1. CASE q = r
    <3>1. req'[q] = Aborted(req[q]) /\ req[q].pc # "idle"
      BY <1>2, <2>1
    <3>2. QED
      BY <2>1, <3>1, Stays
  <2>2. CASE q # r /\ q \in waiters
    <3>1. /\ req'[q] = [req[q] EXCEPT !.pc = "stranded", !.since = 0, !.with = waiters]
          /\ req[q].pc = "wait"
      BY <1>2, <1>3, <2>2
    <3>2. QED
      BY <2>2, <3>1, Stays
  <2>3. CASE q # r /\ q \notin waiters
    BY <1>2, <2>3
  <2>4. QED
    BY <2>1, <2>2, <2>3
<1>5. req' = [q \in Reqs |-> req'[q]]
  BY <1>2, ZenonT(30)
<1>6. QED
  BY <1>1, <1>2, <1>4, <1>5

LEMMA CancelWaiterCases ==
    ASSUME TypeInv, NEW r \in Reqs, CancelWaiter(r)
    PROVE  /\ req[r].pc = "wait"
           /\ req' = [q \in Reqs |-> req'[q]]
           /\ \A q \in Reqs : IF q \in At(req[r].op.w, req[r].op.key, "wait") THEN IsOver(q)
                              ELSE IF q \in Leaders(req[r].op.w, req[r].op.key)
                              THEN IsCut(q) ELSE req'[q] = req[q]
<1>1. PICK ws, ls : /\ ws = At(req[r].op.w, req[r].op.key, "wait")
                    /\ ls = Leaders(req[r].op.w, req[r].op.key)
  OBVIOUS
<1>2. /\ req[r].pc = "wait"
      /\ req' = [q \in Reqs |->
             CASE q \in ws -> Aborted(req[q])
               [] q \in ls -> [req[q] EXCEPT !.cut = TRUE]
               [] OTHER -> req[q]]
  BY <1>1 DEF CancelWaiter
<1>3. /\ \A q \in ws : req[q].pc = "wait"
      /\ \A q \in ls : req[q].pc \in {"lookup", "resume"}
  BY <1>1 DEF At, Leaders
<1>4. ASSUME NEW q \in Reqs
      PROVE  IF q \in ws THEN IsOver(q) ELSE IF q \in ls THEN IsCut(q) ELSE req'[q] = req[q]
  <2>1. CASE q \in ws
    <3>1. req'[q] = Aborted(req[q]) /\ req[q].pc # "idle"
      BY <1>2, <1>3, <2>1
    <3>2. QED
      BY <2>1, <3>1, Stays
  <2>2. CASE q \notin ws /\ q \in ls
    <3>1. req'[q] = [req[q] EXCEPT !.cut = TRUE] /\ req[q].pc \in {"lookup", "resume"}
      BY <1>2, <1>3, <2>2
    <3>2. QED
      BY <2>2, <3>1, Stays
  <2>3. CASE q \notin ws /\ q \notin ls
    BY <1>2, <2>3
  <2>4. QED
    BY <2>1, <2>2, <2>3
<1>5. req' = [q \in Reqs |-> req'[q]]
  <2>1. PICK g : g = [q \in Reqs |->
             CASE q \in ws -> Aborted(req[q])
               [] q \in ls -> [req[q] EXCEPT !.cut = TRUE]
               [] OTHER -> req[q]]
    OBVIOUS
  <2>2. g = [q \in Reqs |-> g[q]]
    BY <2>1
  <2>3. req' = g
    BY <1>2, <2>1
  <2>4. QED
    BY <2>2, <2>3
<1>6. QED
  BY <1>1, <1>2, <1>4, <1>5

LEMMA CancelStrandedCases ==
    ASSUME TypeInv, NEW r \in Reqs, CancelStranded(r)
    PROVE  /\ req' = [q \in Reqs |-> req'[q]]
           /\ \A q \in Reqs : req'[q] = req[q] \/ (req[q].pc = "stranded" /\ IsOver(q))
<1>1. PICK ws : ws = {q \in At(req[r].op.w, req[r].op.key, "stranded") : req[q].with = req[r].with}
  OBVIOUS
<1>2. req' = [q \in Reqs |-> IF q \in ws THEN Aborted(req[q]) ELSE req[q]]
  BY <1>1 DEF CancelStranded
<1>3. \A q \in ws : req[q].pc = "stranded"
  BY <1>1 DEF At
<1>4. ASSUME NEW q \in Reqs PROVE req'[q] = req[q] \/ (req[q].pc = "stranded" /\ IsOver(q))
  <2>1. CASE q \in ws
    <3>1. req'[q] = Aborted(req[q]) /\ req[q].pc = "stranded"
      BY <1>2, <1>3, <2>1
    <3>2. QED
      BY <3>1, Stays
  <2>2. CASE q \notin ws
    BY <1>2, <2>2
  <2>3. QED
    BY <2>1, <2>2
<1>5. req' = [q \in Reqs |-> req'[q]]
  BY <1>2, ZenonT(30)
<1>6. QED
  BY <1>4, <1>5

LEMMA CancelsCases ==
    ASSUME TypeInv, NEW r \in Reqs, Cancels(r)
    PROVE  /\ req' \in [Reqs -> ReqType \cup {Idle}]
           /\ \A q \in Reqs : req'[q] = req[q] \/ IsOver(q) \/ IsStranded(q) \/ IsCut(q)
           /\ rows' = rows /\ now' = now
<1>1. req \in [Reqs -> ReqType \cup {Idle}]
  BY DEF TypeInv
<1>2. /\ req' = [q \in Reqs |-> req'[q]]
      /\ \A q \in Reqs : req'[q] = req[q] \/ IsOver(q) \/ IsStranded(q) \/ IsCut(q)
  BY CancelLeaderCases, CancelWaiterCases, CancelStrandedCases DEF Cancels
<1>3. \A q \in Reqs : req'[q] \in ReqType \cup {Idle}
  BY <1>1, <1>2 DEF IsOver, IsStranded, IsCut
<1>4. req' \in [Reqs -> ReqType \cup {Idle}]
  BY <1>2, <1>3
<1>5. rows' = rows /\ now' = now
  BY DEF Cancels, CancelLeader, CancelWaiter, CancelStranded
<1>6. QED
  BY <1>2, <1>4, <1>5

LEMMA RequestCases ==
    ASSUME NEW r, Requests(r)
    PROVE  \/ Handles(r) \/ Resume(r) \/ ReadRow(r) \/ LookupFails(r) \/ Cancels(r)
           \/ \E op \in Ops : Resolve(r, op)
  BY DEF Requests, RequestStep, Handles, Cancels

\* How the caches move: an entry stays, goes, or is the verdict just made.
LEMMA CachesMove ==
    ASSUME TypeInv, [AccessNext]_accessVars
    PROVE  /\ cache' \in [Workers -> [Labels -> Entries]]
           /\ \A w \in Workers, l \in Labels :
                \/ cache'[w][l] = cache[w][l] /\ (Tick => cache[w][l].at + Ttl > now')
                \/ cache'[w][l] = Missing
                \/ \E r \in Reqs : /\ Resume(r) /\ req[r].op.w = w /\ req[r].op.key = l
                                   /\ cache'[w][l] = Verdict(req[r].seen)
<1> DEFINE Goal ==
           /\ cache' \in [Workers -> [Labels -> Entries]]
           /\ \A w \in Workers, l \in Labels :
                \/ cache'[w][l] = cache[w][l] /\ (Tick => cache[w][l].at + Ttl > now')
                \/ cache'[w][l] = Missing
                \/ \E r \in Reqs : /\ Resume(r) /\ req[r].op.w = w /\ req[r].op.key = l
                                   /\ cache'[w][l] = Verdict(req[r].seen)
<1>1. /\ cache \in [Workers -> [Labels -> Entries]] /\ Missing \in Entries /\ now \in Nat
      /\ Ttl \in Nat
  BY Constants DEF TypeInv
<1>2. CASE Tick
  <2>1. /\ cache' = [w \in Workers |-> [l \in Labels |-> Expire(cache[w][l])]]
        /\ now' = now + 1
    BY <1>2 DEF Tick
  <2>2. ASSUME NEW e \in Entries
        PROVE  /\ Expire(e) \in Entries
               /\ Expire(e) = Missing \/ (Expire(e) = e /\ e.at + Ttl > now + 1)
    <3>1. e.at \in Nat
      BY DEF Entries
    <3>2. QED
      BY <1>1, <3>1 DEF Expire
  <2>3. \A w \in Workers, l \in Labels :
           /\ cache[w][l] \in Entries /\ cache'[w][l] = Expire(cache[w][l])
    BY <1>1, <2>1
  <2>4. cache' \in [Workers -> [Labels -> Entries]]
    BY <1>1, <2>1, <2>2
  <2>5. QED
    BY <2>1, <2>2, <2>3, <2>4
<1>3. CASE cache' = cache /\ ~Tick
  BY <1>1, <1>3
<1>4. ASSUME NEW w \in Workers, Crash(w) PROVE Goal
  <2>1. cache' = [cache EXCEPT ![w] = [l \in Labels |-> Missing]] /\ now' = now
    BY <1>4 DEF Crash
  <2>2. ~Tick
    BY <1>1, <2>1 DEF Tick
  <2>3. QED
    BY <1>1, <2>1, <2>2
<1>5. ASSUME NEW r \in Reqs, Requests(r) PROVE Goal
  <2>1. ~Tick
    BY <1>1, <1>5, RequestsKeep DEF Tick
  <2>2. CASE Resume(r)
    <3>1. PICK v \in Entries : /\ v = Verdict(req[r].seen)
                               /\ cache' = [cache EXCEPT ![req[r].op.w][req[r].op.key] = v]
      BY <2>2, ResumeCases
    <3>2. req[r].op.w \in Workers /\ req[r].op.key \in Labels
      BY <2>2, ReqShape DEF Resume
    <3>3. /\ cache' \in [Workers -> [Labels -> Entries]]
          /\ \A w \in Workers, l \in Labels :
               IF w = req[r].op.w /\ l = req[r].op.key THEN cache'[w][l] = v
               ELSE cache'[w][l] = cache[w][l]
      BY <1>1, <3>1, <3>2
    <3>4. QED
      BY <2>1, <2>2, <3>1, <3>3
  <2>3. CASE Invalidate(r)
    <3>1. cache' = [cache EXCEPT ![req[r].op.w][req[r].op.target] = Missing]
      BY <2>3 DEF Invalidate
    <3>2. req[r].op.w \in Workers /\ req[r].op.target \in Labels
      BY <2>3, ReqShape DEF Invalidate
    <3>3. /\ cache' \in [Workers -> [Labels -> Entries]]
          /\ \A w \in Workers, l \in Labels :
               cache'[w][l] = Missing \/ cache'[w][l] = cache[w][l]
      BY <1>1, <3>1, <3>2
    <3>4. QED
      BY <2>1, <3>3
  <2>4. QED
    BY <1>3, <1>5, <2>1, <2>2, <2>3
       DEF Requests, RequestStep, Resolve, ReadRow, LookupFails, CancelLeader, CancelWaiter,
           CancelStranded, CreateKey, RevokeLookup, RevokeCount, RevokeUpdate, Audit, AuditFails
<1>6. ASSUME NEW w \in Workers, Boots(w) PROVE Goal
  <2>1. ~Tick /\ cache' = cache
    BY <1>1, <1>6, BootsKeep DEF Tick
  <2>2. QED
    BY <1>3, <2>1
<1>7. CASE UNCHANGED accessVars
  <2>1. ~Tick /\ cache' = cache
    BY <1>1, <1>7 DEF Tick, accessVars
  <2>2. QED
    BY <1>3, <2>1
<1>8. QED
  BY <1>2, <1>4, <1>5, <1>6, <1>7, Steps

\* How a request moves in any step.
LEMMA ReqsType ==
    ASSUME TypeInv, [AccessNext]_accessVars
    PROVE  req' \in [Reqs -> ReqType \cup {Idle}]
<1>1. req \in [Reqs -> ReqType \cup {Idle}]
  BY DEF TypeInv
<1>2. ASSUME NEW r \in Reqs, NEW n \in ReqType, req' = [req EXCEPT ![r] = n]
      PROVE  req' \in [Reqs -> ReqType \cup {Idle}]
  BY <1>1, <1>2
<1>3. ASSUME NEW r \in Reqs, Requests(r) PROVE req' \in [Reqs -> ReqType \cup {Idle}]
  <2>1. CASE Handles(r)
    BY <1>2, <2>1, HandlesCases
  <2>2. CASE Resume(r)
    BY <2>2, ResumeCases
  <2>3. CASE ReadRow(r)
    BY <1>2, <2>3, ReadRowCases
  <2>4. CASE LookupFails(r)
    BY <2>4, LookupFailsCases
  <2>5. ASSUME NEW o \in Ops, Resolve(r, o) PROVE req' \in [Reqs -> ReqType \cup {Idle}]
    BY <1>2, <2>5, ResolveCases
  <2>6. CASE Cancels(r)
    BY <2>6, CancelsCases
  <2>7. QED
    BY <1>3, <2>1, <2>2, <2>3, <2>4, <2>5, <2>6, RequestCases
<1>4. ASSUME NEW w \in Workers, Crash(w) PROVE req' \in [Reqs -> ReqType \cup {Idle}]
  BY <1>1, <1>4 DEF Crash
<1>5. CASE req' = req
  BY <1>1, <1>5
<1>6. QED
  BY <1>3, <1>4, <1>5, BootsKeep, Steps DEF Tick, accessVars

\* The clock moves on or stands, and it moves alone.
LEMMA TimeMoves ==
    ASSUME TypeInv, [AccessNext]_accessVars
    PROVE  /\ now \in Nat /\ now' \in Nat /\ now <= MaxTime /\ now' <= MaxTime
           /\ now' = now \/ (Tick /\ now' = now + 1 /\ rows' = rows /\ req' = req /\ boot' = boot)
<1>1. CASE Tick
  BY <1>1, Constants DEF Tick, TypeInv
<1>2. CASE now' = now
  BY <1>2, Constants DEF TypeInv
<1>3. QED
  BY <1>1, <1>2, BootsKeep, RequestsKeep, Steps DEF Crash, accessVars

LEMMA TypeStep ==
    ASSUME TypeInv, [AccessNext]_accessVars
    PROVE  TypeInv'
<1>1. now' \in 0..MaxTime
  BY TimeMoves, Constants
<1>2. /\ boot' \in [Workers -> BootType] /\ \A w \in Workers : BootOK(boot'[w])
      /\ boots' \in Nat
  <2>1. ASSUME NEW w \in Workers, NEW b \in BootType, BootOK(b), boot' = [boot EXCEPT ![w] = b]
        PROVE  boot' \in [Workers -> BootType] /\ \A v \in Workers : BootOK(boot'[v])
    BY <2>1 DEF TypeInv
  <2>2. CASE boot' = boot /\ boots' = boots
    BY <2>2 DEF TypeInv
  <2>3. ASSUME NEW w \in Workers, Boots(w)
        PROVE  /\ boot' \in [Workers -> BootType] /\ \A v \in Workers : BootOK(boot'[v])
               /\ boots' \in Nat
    BY <2>1, <2>3, BootsType
  <2>4. ASSUME NEW w \in Workers, Crash(w)
        PROVE  /\ boot' \in [Workers -> BootType] /\ \A v \in Workers : BootOK(boot'[v])
               /\ boots' \in Nat
    <3>1. Down \in BootType /\ BootOK(Down)
      BY Constants DEF BootOK
    <3>2. boot' = [boot EXCEPT ![w] = Down] /\ boots' = boots
      BY <2>4 DEF Crash
    <3>3. QED
      BY <2>1, <3>1, <3>2 DEF TypeInv
  <2>5. QED
    BY <2>2, <2>3, <2>4, RequestsKeep, Steps DEF Tick, accessVars
<1>3. unguarded' \in BOOLEAN
  <2>1. CASE unguarded' = unguarded
    BY <2>1 DEF TypeInv
  <2>2. ASSUME NEW r \in Reqs, RevokeCount(r) PROVE unguarded' \in BOOLEAN
    BY <2>2 DEF RevokeCount
  <2>3. ASSUME NEW r \in Reqs, Requests(r) PROVE unguarded' \in BOOLEAN
    BY <2>1, <2>2, <2>3
       DEF Requests, RequestStep, Resolve, ReadRow, Resume, LookupFails, CancelLeader, CancelWaiter,
           CancelStranded, CreateKey, RevokeLookup, RevokeUpdate, Audit, AuditFails, Invalidate
  <2>4. ASSUME NEW w \in Workers, Boots(w) PROVE unguarded' \in BOOLEAN
    <3>1. CASE DashRevoke(w)
      BY <3>1 DEF DashRevoke
    <3>2. QED
      BY <2>1, <2>4, <3>1, BootsKeep
  <2>5. QED
    BY <2>1, <2>3, <2>4, Steps DEF Tick, Crash, accessVars
<1>4. raced' \in SUBSET Labels
  <2>1. CASE raced' = raced
    BY <2>1 DEF TypeInv
  <2>2. ASSUME NEW r \in Reqs, CreateKey(r) PROVE raced' \in SUBSET Labels
    <3>1. req[r].op.target \in Labels
      BY <2>2, ReqShape DEF CreateKey
    <3>2. QED
      BY <2>2, <3>1 DEF CreateKey, TypeInv
  <2>3. ASSUME NEW r \in Reqs, Requests(r) PROVE raced' \in SUBSET Labels
    BY <2>1, <2>2, <2>3
       DEF Requests, RequestStep, Resolve, ReadRow, Resume, LookupFails, CancelLeader, CancelWaiter,
           CancelStranded, RevokeLookup, RevokeCount, RevokeUpdate, Audit, AuditFails, Invalidate
  <2>4. QED
    BY <2>1, <2>3, BootsKeep, Steps DEF Tick, Crash, accessVars
<1>5. QED
  BY <1>1, <1>2, <1>3, <1>4, RowsMove, CachesMove, ReqsType DEF TypeInv

LEMMA InitType == AccessInit => TypeInv
<1> SUFFICES ASSUME AccessInit PROVE TypeInv
  OBVIOUS
<1>1. rows \in [Labels -> RowType]
  BY TableAssumption DEF AccessInit
<1>2. Down \in BootType /\ BootOK(Down) /\ Missing \in Entries
  BY Constants DEF BootOK
<1>3. /\ boot \in [Workers -> BootType] /\ \A w \in Workers : boot[w] = Down
      /\ cache \in [Workers -> [Labels -> Entries]]
      /\ req \in [Reqs -> ReqType \cup {Idle}]
  <2>1. boot = [w \in Workers |-> Down] /\ req = [r \in Reqs |-> Idle]
    BY DEF AccessInit
  <2>2. cache = [w \in Workers |-> [l \in Labels |-> Missing]]
    BY DEF AccessInit
  <2>3. boot \in [Workers -> BootType] /\ \A w \in Workers : boot[w] = Down
    BY <1>2, <2>1
  <2>4. req \in [Reqs -> ReqType \cup {Idle}]
    BY <2>1
  <2>5. cache \in [Workers -> [Labels -> Entries]]
    BY <1>2, <2>2
  <2>6. QED
    BY <2>3, <2>4, <2>5
<1>4. now \in 0..MaxTime /\ boots \in Nat /\ unguarded \in BOOLEAN /\ raced \in SUBSET Labels
  <2>1. now \in 0..MaxTime /\ boots \in Nat
    BY Constants DEF AccessInit
  <2>2. unguarded \in BOOLEAN /\ raced \in SUBSET Labels
    BY DEF AccessInit
  <2>3. QED
    BY <2>1, <2>2
<1>5. QED
  BY <1>1, <1>2, <1>3, <1>4 DEF TypeInv

----------------------------------------------------------------------------
(* The table's history *)

LEMMA RowsStep ==
    ASSUME TypeInv, RowsInv, [AccessNext]_accessVars
    PROVE  RowsInv'
<1>1. SUFFICES ASSUME NEW l \in Labels
               PROVE  /\ rows'[l].st = "absent" => rows'[l] = Absent
                      /\ rows'[l].st # "absent" => rows'[l].made <= now'
                      /\ rows'[l].st = "active" => rows'[l].gone = Never
                      /\ rows'[l].st = "revoked" => rows'[l].gone <= now'
  BY DEF RowsInv
<1>2. /\ rows[l].st = "absent" => rows[l] = Absent
      /\ rows[l].st # "absent" => rows[l].made <= now
      /\ rows[l].st = "active" => rows[l].gone = Never
      /\ rows[l].st = "revoked" => rows[l].gone <= now
  BY DEF RowsInv
<1>3. rows[l] \in RowType /\ rows[l].made \in Nat /\ rows[l].gone \in Nat
  BY DEF TypeInv, RowType
<1>4. CASE rows'[l] = rows[l]
  BY <1>2, <1>3, <1>4, TimeMoves
<1>5. CASE Born(l)
  BY <1>5, TimeMoves DEF Born
<1>6. CASE Died(l)
  BY <1>2, <1>3, <1>6, TimeMoves DEF Died
<1>7. QED
  BY <1>4, <1>5, <1>6, RowsMove DEF RowMoves

\* What was so before t stays so.
LEMMA PastStays ==
    ASSUME TypeInv, RowsInv, [AccessNext]_accessVars, NEW l \in Labels, NEW t \in Nat, t <= now
    PROVE  /\ Was(l, t) => Was(l, t)'
           /\ WasNot(l, t) => WasNot(l, t)'
<1>1. /\ rows[l] \in RowType /\ rows[l].made \in Nat /\ rows[l].gone \in Nat /\ rows[l].exp \in Nat
      /\ now \in Nat /\ now <= MaxTime /\ MaxLookup \in Nat /\ Never \in Nat /\ Never > MaxTime
      /\ MaxTime \in Nat
  BY Constants DEF TypeInv, RowType
<1>2. /\ rows[l].st = "absent" => rows[l].own /\ rows[l].gone = Never /\ rows[l].exp = Never
      /\ rows[l].st = "active" => rows[l].gone = Never
  BY DEF RowsInv, Absent
<1>3. CASE rows'[l] = rows[l]
  BY <1>3 DEF Was, WasNot
<1>4. CASE Born(l)
  <2>1. t <= now + MaxLookup
    BY <1>1
  <2>2. QED
    BY <1>4, <2>1 DEF Born, Was, WasNot
<1>5. CASE Died(l)
  <2>1. t <= now + MaxLookup /\ ~(Never <= t)
    BY <1>1
  <2>2. QED
    BY <1>2, <1>5, <2>1 DEF Died, Was, WasNot
<1>6. QED
  BY <1>3, <1>4, <1>5, RowsMove DEF RowMoves

\* What a lookup makes of the row it has read was so.
LEMMA VerdictIsRecent ==
    ASSUME TypeInv, RowsInv, LookupInv, NEW r \in Reqs, req[r].pc = "resume"
    PROVE  /\ Verdict(req[r].seen).kind = "yes" => Was(req[r].op.key, now)
           /\ Verdict(req[r].seen).kind = "no" => WasNot(req[r].op.key, now)
<1>1. PICK x \in ReqType : x = req[r]
  BY ReqShape
<1>2. PICK row \in RowType : row = rows[x.op.key]
  BY <1>1, ReqShape DEF TypeInv
<1>3. /\ x.seen \in RowType /\ x.since \in Nat /\ now \in Nat /\ MaxLookup \in Nat
      /\ x.op.key \in Labels
  BY <1>1, ReqShape, Constants DEF TypeInv
<1>4. /\ row.made \in Nat /\ row.gone \in Nat /\ row.exp \in Nat
      /\ x.seen.st \in {"absent", "active", "revoked"} /\ x.seen.exp \in Nat
  BY <1>3 DEF RowType
<1>5. /\ now \in x.since .. x.since + MaxLookup
      /\ x.seen.st = "active" => /\ row.st # "absent" /\ row.own = x.seen.own
                                 /\ row.exp = x.seen.exp /\ row.gone >= x.since
      /\ x.seen.st = "absent" => row.st = "absent" \/ row.made >= x.since
      /\ x.seen.st = "revoked" => row = x.seen
  BY <1>1, <1>2 DEF LookupInv, Pending
<1>6. row.st = "revoked" => row.gone <= now
  BY <1>2, <1>3 DEF RowsInv
<1>7. Verdict(x.seen).kind = "yes" <=> x.seen.st = "active" /\ x.seen.own /\ ~ x.seen.exp < now
  BY <1>3, VerdictType
<1>8. ASSUME Verdict(x.seen).kind = "yes" PROVE Was(x.op.key, now)
  BY <1>2, <1>3, <1>4, <1>5, <1>7, <1>8 DEF Was
<1>9. ASSUME Verdict(x.seen).kind = "no" PROVE WasNot(x.op.key, now)
  <2>1. CASE x.seen.st = "active"
    BY <1>2, <1>3, <1>4, <1>5, <1>7, <1>9, <2>1 DEF WasNot
  <2>2. CASE x.seen.st = "absent"
    BY <1>2, <1>3, <1>4, <1>5, <2>2 DEF WasNot
  <2>3. CASE x.seen.st = "revoked"
    BY <1>2, <1>3, <1>4, <1>5, <1>6, <2>3 DEF WasNot
  <2>4. QED
    BY <1>4, <2>1, <2>2, <2>3
<1>10. QED
  BY <1>1, <1>8, <1>9

LEMMA CacheStep ==
    ASSUME TypeInv, RowsInv, LookupInv, CacheInv, CacheFresh, [AccessNext]_accessVars
    PROVE  CacheInv' /\ CacheFresh'
<1>1. SUFFICES ASSUME NEW w \in Workers, NEW l \in Labels
               PROVE  /\ cache'[w][l].kind = "yes" => Was(l, cache[w][l].at)'
                      /\ cache'[w][l].kind = "no" => WasNot(l, cache[w][l].at)'
                      /\ cache'[w][l].kind # "missing" =>
                            now' \in cache'[w][l].at .. cache'[w][l].at + Ttl - 1
  BY DEF CacheInv, CacheFresh
<1>2. /\ cache[w][l] \in Entries /\ cache[w][l].at \in Nat /\ now \in Nat /\ Ttl \in Nat \ {0}
      /\ cache[w][l].kind \in {"missing", "yes", "no"}
  BY Constants DEF TypeInv, Entries
<1>3. CASE cache'[w][l] = Missing
  BY <1>3 DEF Missing
<1>4. CASE cache'[w][l] = cache[w][l] /\ (Tick => cache[w][l].at + Ttl > now')
  <2>1. CASE cache[w][l].kind = "missing"
    BY <1>4, <2>1
  <2>2. CASE cache[w][l].kind # "missing"
    <3>1. PICK t \in Nat : t = cache[w][l].at
      BY <1>2
    <3>2. t <= now /\ now <= t + Ttl - 1
      BY <1>2, <2>2, <3>1 DEF CacheFresh
    <3>3. /\ Was(l, t) => Was(l, t)'
          /\ WasNot(l, t) => WasNot(l, t)'
      BY <3>1, <3>2, PastStays
    <3>4. /\ cache[w][l].kind = "yes" => Was(l, t)
          /\ cache[w][l].kind = "no" => WasNot(l, t)
      BY <3>1 DEF CacheInv
    <3>5. cache'[w][l].at = t
      BY <1>4, <3>1
    <3>6. now' \in t .. t + Ttl - 1
      BY <1>2, <1>4, <3>1, <3>2, TimeMoves
    <3>7. QED
      BY <1>4, <3>3, <3>4, <3>5, <3>6 DEF Was, WasNot
  <2>3. QED
    BY <2>1, <2>2
<1>5. ASSUME NEW r \in Reqs, Resume(r), req[r].op.w = w, req[r].op.key = l,
             cache'[w][l] = Verdict(req[r].seen)
      PROVE  /\ cache'[w][l].kind = "yes" => Was(l, cache[w][l].at)'
             /\ cache'[w][l].kind = "no" => WasNot(l, cache[w][l].at)'
             /\ now' \in cache'[w][l].at .. cache'[w][l].at + Ttl - 1
  <2>1. req[r].pc = "resume" /\ req[r].seen \in RowType
    BY <1>5, ReqShape DEF Resume
  <2>2. Verdict(req[r].seen).at = now
    BY <1>2, <2>1, VerdictType
  <2>3. /\ Verdict(req[r].seen).kind = "yes" => Was(l, now)
        /\ Verdict(req[r].seen).kind = "no" => WasNot(l, now)
    BY <1>5, <2>1, VerdictIsRecent
  <2>4. rows' = rows /\ now' = now
    BY <1>5 DEF Resume
  <2>5. cache'[w][l].at = now
    BY <1>5, <2>2
  <2>6. QED
    BY <1>2, <1>5, <2>3, <2>4, <2>5 DEF Was, WasNot
<1>6. QED
  BY <1>3, <1>4, <1>5, CachesMove

----------------------------------------------------------------------------
(* Lookups *)

\* What one step does to one request.
LEMMA ReqMoves ==
    ASSUME TypeInv, LookupInv, [AccessNext]_accessVars, NEW q \in Reqs
    PROVE  \/ req'[q] = req[q]
           \/ req'[q] = Idle
           \/ /\ req'[q] \in ReqType /\ now' = now   \* handled or failed
              /\ req[q].pc # "idle" /\ req'[q].op = req[q].op /\ req'[q].at = req[q].at
              /\ req'[q].pc \in {"count", "update", "audit", "invalidate", "done"}
              /\ req'[q].pc # "done" => req'[q].res = 200
              /\ req'[q].res \in {200, 400, 404, 409, 499, 500}
              /\ req'[q].res = 200 => req[q].res = 200
           \/ now' = now /\ rows' = rows /\ (IsStranded(q) \/ IsCut(q))
           \/ /\ req'[q] \in ReqType /\ rows' = rows /\ now' = now   \* reads its row
              /\ req[q].pc = "lookup" /\ req'[q].pc = "resume"
              /\ req'[q].op = req[q].op /\ req'[q].at = req[q].at /\ req'[q].res = req[q].res
              /\ req'[q].since = req[q].since /\ req'[q].seen = rows[req[q].op.key]
           \/ /\ req'[q] \in ReqType /\ rows' = rows /\ now' = now   \* begins
              /\ req'[q].pc \in {"wait", "lookup"} /\ req'[q].since = now
              /\ req'[q].at = 0 /\ req'[q].res = 0
           \/ /\ req'[q] \in ReqType /\ now' = now   \* is cancelled at once
              /\ req'[q].pc = "done" /\ req'[q].at = 0 /\ req'[q].res = 499
           \/ /\ req'[q] \in ReqType /\ rows' = rows /\ now' = now   \* is admitted
              /\ \E v \in Entries, x \in Starting :
                   /\ req'[q] = Admitted(x, v) /\ v.kind # "missing" /\ x.op.key \in Labels
                   /\ \/ \E w \in Workers : v = cache[w][x.op.key]
                      \/ \E r \in Reqs : /\ req[r].pc = "resume" /\ req[r].op.key = x.op.key
                                         /\ v = Verdict(req[r].seen)
<1>1. req \in [Reqs -> ReqType \cup {Idle}]
  BY DEF TypeInv
<1>2. ASSUME NEW r \in Reqs, Handles(r), req'[q] # req[q]
      PROVE  /\ req'[q] \in ReqType
             /\ req[q].pc # "idle" /\ req'[q].op = req[q].op /\ req'[q].at = req[q].at
             /\ req'[q].pc \in {"count", "update", "audit", "invalidate", "done"}
             /\ req'[q].pc # "done" => req'[q].res = 200
             /\ req'[q].res \in {200, 400, 404, 409, 500}
             /\ req'[q].res = 200 => req[q].res = 200
  <2>1. /\ req[r].pc \in {"create", "revoke", "count", "update", "audit", "invalidate"}
        /\ \E n \in ReqType :
              /\ req' = [req EXCEPT ![r] = n]
              /\ n.op = req[r].op /\ n.at = req[r].at
              /\ n.pc \in {"count", "update", "audit", "invalidate", "done"}
              /\ n.pc # "done" => n.res = req[r].res
              /\ n.res \in {req[r].res, 200, 400, 404, 409, 500}
    BY <1>2, HandlesCases
  <2>2. q = r /\ req[r].res = 200
    BY <1>1, <1>2, <2>1 DEF LookupInv
  <2>3. QED
    BY <1>1, <2>1, <2>2
<1>3. ASSUME NEW r \in Reqs, LookupFails(r), req'[q] # req[q]
      PROVE  /\ req'[q] \in ReqType
             /\ req[q].pc # "idle" /\ req'[q].op = req[q].op /\ req'[q].at = req[q].at
             /\ req'[q].pc = "done" /\ req'[q].res = 500
  BY <1>3, LookupFailsCases
<1>4. ASSUME NEW r \in Reqs, ReadRow(r), req'[q] # req[q]
      PROVE  /\ req'[q] \in ReqType /\ rows' = rows /\ now' = now
             /\ req[q].pc = "lookup" /\ req'[q].pc = "resume"
             /\ req'[q].op = req[q].op /\ req'[q].at = req[q].at /\ req'[q].res = req[q].res
             /\ req'[q].since = req[q].since /\ req'[q].seen = rows[req[q].op.key]
  <2>1. q = r
    BY <1>1, <1>4, ReadRowCases
  <2>2. rows' = rows /\ now' = now /\ req[q].pc = "lookup"
    BY <1>4, <2>1 DEF ReadRow
  <2>3. QED
    BY <1>1, <1>4, <2>1, <2>2, ReadRowCases
<1>5. ASSUME NEW r \in Reqs, Resume(r), req'[q] # req[q]
      PROVE  /\ req'[q] \in ReqType /\ rows' = rows /\ now' = now
             /\ \E v \in Entries, x \in Starting :
                  /\ req'[q] = Admitted(x, v) /\ v.kind # "missing" /\ x.op.key \in Labels
                  /\ req[r].pc = "resume" /\ req[r].op.key = x.op.key
                  /\ v = Verdict(req[r].seen)
  <2>1. PICK v \in Entries :
             /\ v = Verdict(req[r].seen) /\ v.kind \in {"yes", "no"}
             /\ req' \in [Reqs -> ReqType \cup {Idle}]
             /\ \A p \in Reqs :
                  IF p = r \/ p \in At(req[r].op.w, req[r].op.key, "wait")
                  THEN req[p] \in ReqType /\ req'[p] = Admitted(req[p], v)
                  ELSE req'[p] = req[p]
    BY <1>5, ResumeCases
  <2>2. q = r \/ q \in At(req[r].op.w, req[r].op.key, "wait")
    BY <1>5, <2>1
  <2>3. PICK x \in ReqType : x = req[q]
    BY <2>1, <2>2
  <2>4. x \in Starting /\ x.op.key \in Labels
    BY <2>3 DEF ReqType, Starting, OpType
  <2>5. rows' = rows /\ now' = now /\ req[r].pc = "resume" /\ now \in Nat
    BY <1>5, TimeMoves DEF Resume
  <2>6. req'[q] = Admitted(x, v)
    BY <2>1, <2>2, <2>3
  <2>7. req'[q] \in ReqType
    BY <2>1, <2>4, <2>5, <2>6, AdmittedType
  <2>8. req[r].op.key = x.op.key
    BY <2>2, <2>3 DEF At
  <2>9. v.kind # "missing"
    BY <2>1
  <2>10. QED
    BY <2>1, <2>4, <2>5, <2>6, <2>7, <2>8, <2>9
<1>6. ASSUME NEW r \in Reqs, NEW o \in Ops, Resolve(r, o), req'[q] # req[q]
      PROVE  /\ req'[q] \in ReqType /\ rows' = rows /\ now' = now
             /\ \/ /\ req'[q].pc \in {"wait", "lookup"} /\ req'[q].since = now
                   /\ req'[q].at = 0 /\ req'[q].res = 0
                \/ req'[q].pc = "done" /\ req'[q].at = 0 /\ req'[q].res = 499
                \/ \E v \in Entries, x \in Starting, w \in Workers :
                     /\ req'[q] = Admitted(x, v) /\ v.kind # "missing" /\ x.op.key \in Labels
                     /\ v = cache[w][x.op.key]
  <2>1. rows' = rows /\ now' = now
    BY <1>6 DEF Resolve
  <2>2. PICK op \in OpType, x \in Starting, n \in ReqType :
             /\ req' = [req EXCEPT ![r] = n] /\ n.op = op
             /\ x.op = op
             /\ \/ /\ cache[op.w][op.key].kind # "missing"
                   /\ n = Admitted(x, cache[op.w][op.key])
                \/ n.pc = "wait" /\ n.since = now /\ n.at = 0 /\ n.res = 0
                \/ n.pc = "done" /\ n.at = 0 /\ n.res = 499
                \/ n.pc = "lookup" /\ n.since = now /\ n.at = 0 /\ n.res = 0
    BY <1>6, ResolveCases
  <2>3. q = r /\ req'[q] = n
    BY <1>1, <1>6, <2>2
  <2>4. op.w \in Workers /\ op.key \in Labels
    BY DEF OpType
  <2>5. cache[op.w][op.key] \in Entries
    BY <2>4 DEF TypeInv
  <2>6. QED
    BY <2>1, <2>2, <2>3, <2>4, <2>5
<1>7. ASSUME NEW w \in Workers, Crash(w) PROVE req'[q] \in {req[q], Idle}
  BY <1>1, <1>7 DEF Crash
<1>8. \A r \in Reqs : Requests(r) => now' = now
  BY RequestsKeep
<1>9. CASE req' = req
  BY <1>9
<1>10. ASSUME NEW r \in Reqs, Cancels(r), req'[q] # req[q]
       PROVE  /\ now' = now /\ rows' = rows /\ (IsStranded(q) \/ IsCut(q) \/ IsOver(q))
  BY <1>10, CancelsCases
<1>11. ASSUME IsOver(q)
       PROVE  /\ req'[q] \in ReqType /\ req[q].pc # "idle"
              /\ req'[q].op = req[q].op /\ req'[q].at = req[q].at
              /\ req'[q].pc = "done" /\ req'[q].res = 499
  BY <1>11 DEF IsOver
<1>12. QED
  BY <1>2, <1>3, <1>4, <1>5, <1>6, <1>7, <1>8, <1>9, <1>10, <1>11, RequestCases, BootsKeep, Steps
     DEF Tick, accessVars

LEMMA LookupStep ==
    ASSUME TypeInv, RowsInv, LookupInv, [AccessNext]_accessVars
    PROVE  LookupInv'
<1> DEFINE Handling == {"create", "revoke", "count", "update", "audit", "invalidate"}
           Sees(row, seen, since) ==
             /\ seen.st = "active" => /\ row.st # "absent" /\ row.own = seen.own
                                      /\ row.exp = seen.exp /\ row.gone >= since
             /\ seen.st = "absent" => row.st = "absent" \/ row.made >= since
             /\ seen.st = "revoked" => row = seen
<1>1. SUFFICES ASSUME NEW q \in Reqs
               PROVE  /\ req'[q].pc \in {"lookup", "resume", "wait"} =>
                            now' \in req'[q].since .. req'[q].since + MaxLookup
                      /\ req'[q].pc = "resume" =>
                            Sees(rows'[req'[q].op.key], req'[q].seen, req'[q].since)
                      /\ req'[q].pc # "idle" => req'[q].at <= now'
                      /\ req'[q].pc \in Handling => req'[q].res = 200
  BY DEF LookupInv, Pending
<1>2. /\ req[q].pc \in {"lookup", "resume", "wait"} =>
            now \in req[q].since .. req[q].since + MaxLookup
      /\ req[q].pc = "resume" => Sees(rows[req[q].op.key], req[q].seen, req[q].since)
      /\ req[q].pc # "idle" => req[q].at <= now
      /\ req[q].pc \in Handling => req[q].res = 200
  BY DEF LookupInv, Pending
<1>3. /\ now \in Nat /\ now' \in Nat /\ now <= now' /\ MaxLookup \in Nat /\ now <= MaxTime
      /\ Never \in Nat /\ Never > MaxTime /\ MaxTime \in Nat
  BY TimeMoves, Constants
<1>4. CASE req'[q] = req[q]
  <2>1. CASE req[q].pc = "idle"
    BY <1>4, <2>1
  <2>2. CASE req[q].pc # "idle"
    <3>1. PICK x \in ReqType : /\ x = req[q] /\ x.since \in Nat /\ x.at \in Nat
                               /\ x.op.key \in Labels
      BY <2>2, ReqShape
    <3>2. x.pc \in {"lookup", "resume", "wait"} => now' \in x.since .. x.since + MaxLookup
      <4>1. CASE now' = now
        BY <1>2, <3>1, <4>1
      <4>2. CASE Tick /\ now' = now + 1
        BY <1>2, <1>3, <3>1, <4>2 DEF Tick
      <4>3. QED
        BY <4>1, <4>2, TimeMoves
    <3>3. ASSUME x.pc = "resume" PROVE Sees(rows'[x.op.key], x.seen, x.since)
      <4>1. PICK l \in Labels : l = x.op.key
        BY <3>1
      <4>2. Sees(rows[l], x.seen, x.since) /\ x.since <= now
        BY <1>2, <1>3, <3>1, <3>3, <4>1
      <4>3. CASE rows'[l] = rows[l]
        BY <4>1, <4>2, <4>3
      <4>4. CASE Born(l)
        <5>1. rows[l].st = "absent" /\ rows'[l].st = "active" /\ rows'[l].made = now
          BY <4>4 DEF Born
        <5>2. x.seen.st # "active" /\ x.seen.st # "revoked"
          BY <4>2, <5>1
        <5>3. QED
          BY <1>3, <3>1, <4>1, <4>2, <5>1, <5>2
      <4>5. CASE Died(l)
        <5>1. /\ rows[l].st = "active" /\ rows'[l].st = "revoked" /\ rows'[l].gone = now
              /\ rows'[l].own = rows[l].own /\ rows'[l].made = rows[l].made
              /\ rows'[l].exp = rows[l].exp
          BY <4>5 DEF Died
        <5>2. x.seen.st # "revoked"
          BY <4>2, <5>1
        <5>3. QED
          BY <1>3, <3>1, <4>1, <4>2, <5>1, <5>2
      <4>6. QED
        BY <4>3, <4>4, <4>5, RowsMove DEF RowMoves
    <3>4. x.at <= now'
      BY <1>2, <1>3, <2>2, <3>1
    <3>5. QED
      BY <1>2, <1>4, <3>1, <3>2, <3>3, <3>4
  <2>3. QED
    BY <2>1, <2>2
<1>5. CASE req'[q] = Idle
  BY <1>5 DEF Idle
<1>6. CASE /\ req'[q] \in ReqType /\ now' = now
           /\ req[q].pc # "idle" /\ req'[q].op = req[q].op /\ req'[q].at = req[q].at
           /\ req'[q].pc \in {"count", "update", "audit", "invalidate", "done"}
           /\ req'[q].pc # "done" => req'[q].res = 200
  BY <1>2, <1>6
<1>7. CASE /\ req'[q] \in ReqType /\ rows' = rows /\ now' = now
           /\ req[q].pc = "lookup" /\ req'[q].pc = "resume"
           /\ req'[q].op = req[q].op /\ req'[q].at = req[q].at /\ req'[q].res = req[q].res
           /\ req'[q].since = req[q].since /\ req'[q].seen = rows[req[q].op.key]
  <2>1. req[q].op.key \in Labels /\ req[q].since \in Nat
    BY <1>7, ReqShape
  <2>2. PICK l \in Labels : l = req[q].op.key
    BY <2>1
  <2>3. rows[l].st = "active" => rows[l].gone >= req[q].since
    BY <1>2, <1>3, <1>7, <2>1 DEF RowsInv
  <2>4. Sees(rows[l], rows[l], req[q].since)
    BY <2>3
  <2>5. QED
    BY <1>2, <1>7, <2>2, <2>4
<1>8. CASE /\ req'[q] \in ReqType /\ rows' = rows /\ now' = now
           /\ req'[q].pc \in {"wait", "lookup"} /\ req'[q].since = now
           /\ req'[q].at = 0 /\ req'[q].res = 0
  BY <1>3, <1>8
<1>9. ASSUME now' = now, NEW v \in Entries, NEW x \in Starting, v.kind # "missing",
             req'[q] = Admitted(x, v)
      PROVE  /\ req'[q].pc \notin {"lookup", "resume", "wait", "idle"}
             /\ req'[q].at <= now'
             /\ req'[q].pc \in Handling => req'[q].res = 200
  <2>1. /\ Admitted(x, v).pc \in {"done", "create", "revoke"} /\ Admitted(x, v).at = now
        /\ Admitted(x, v).pc # "done" => Admitted(x, v).res = 200
    BY <1>3, <1>9, AdmittedType
  <2>2. QED
    BY <1>3, <1>9, <2>1
<1>10. CASE now' = now /\ IsStranded(q)
  BY <1>2, <1>10 DEF IsStranded
<1>11. CASE now' = now /\ rows' = rows /\ IsCut(q)
  <2>1. PICK x, y : x = req[q] /\ y = req'[q]
    OBVIOUS
  <2>2. /\ y.pc = x.pc /\ y.op = x.op /\ y.at = x.at /\ y.since = x.since /\ y.seen = x.seen
        /\ x.pc \in {"lookup", "resume"}
    BY <1>11, <2>1 DEF IsCut
  <2>3. QED
    BY <1>2, <1>11, <2>1, <2>2
<1>12. CASE /\ req'[q] \in ReqType /\ now' = now
            /\ req'[q].pc = "done" /\ req'[q].at = 0 /\ req'[q].res = 499
  BY <1>3, <1>12
<1> HIDE DEF Sees, Handling
<1>13. QED
  BY <1>4, <1>5, <1>6, <1>7, <1>8, <1>9, <1>10, <1>11, <1>12, ReqMoves

\* The two halves of AnswersAreRecent, for one answer given at time t.
Accepted(l, t) == rows[l].own /\ t < rows[l].gone + Window /\ t < rows[l].exp + Window
Refused(l, t) == \/ rows[l].st = "absent" \/ ~rows[l].own \/ t < rows[l].made + Window
                 \/ rows[l].gone <= t \/ rows[l].exp < t

\* An answer from the cache, or from a lookup, is of the recent past.
LEMMA AnswerIsRecent ==
    ASSUME TypeInv, NEW l \in Labels, NEW t \in Nat, t <= now, now < t + Ttl
    PROVE  /\ Was(l, t) => Accepted(l, now)
           /\ WasNot(l, t) => Refused(l, now)
<1>1. /\ rows[l].made \in Nat /\ rows[l].gone \in Nat /\ rows[l].exp \in Nat
      /\ now \in Nat /\ MaxLookup \in Nat /\ Ttl \in Nat
  BY Constants DEF TypeInv, RowType
<1>2. QED
  BY <1>1 DEF Was, WasNot, Accepted, Refused, Window

\* It stays so while rows come and go.
LEMMA AnswerStays ==
    ASSUME TypeInv, RowsInv, [AccessNext]_accessVars, NEW l \in Labels, NEW t \in Nat, t <= now
    PROVE  /\ rows[l].st # "absent" /\ Accepted(l, t) => rows'[l].st # "absent" /\ Accepted(l, t)'
           /\ Refused(l, t) => Refused(l, t)'
<1>1. /\ rows[l] \in RowType /\ rows[l].made \in Nat /\ rows[l].gone \in Nat /\ rows[l].exp \in Nat
      /\ now \in Nat /\ now <= MaxTime /\ MaxLookup \in Nat /\ Never \in Nat /\ Never > MaxTime
      /\ MaxTime \in Nat /\ Ttl \in Nat \ {0}
  BY Constants DEF TypeInv, RowType
<1>2. /\ rows[l].st = "absent" => rows[l].own /\ rows[l].gone = Never /\ rows[l].exp = Never
      /\ rows[l].st = "active" => rows[l].gone = Never
  BY DEF RowsInv, Absent
<1>3. t < now + Window /\ ~(Never <= t)
  BY <1>1 DEF Window
<1>4. CASE rows'[l] = rows[l]
  BY <1>4 DEF Accepted, Refused, Window
<1>5. CASE Born(l)
  BY <1>3, <1>5 DEF Born, Accepted, Refused, Window
<1>6. CASE Died(l)
  BY <1>2, <1>3, <1>6 DEF Died, Accepted, Refused, Window
<1>7. QED
  BY <1>4, <1>5, <1>6, RowsMove DEF RowMoves

AnswersInv ==
    \A r \in Reqs :
        /\ req[r].pc # "idle" /\ req[r].res \in {200, 403} =>
             rows[req[r].op.key].st # "absent" /\ Accepted(req[r].op.key, req[r].at)
        /\ req[r].pc = "done" /\ req[r].res = 401 => Refused(req[r].op.key, req[r].at)

LEMMA AnswersStep ==
    ASSUME TypeInv, RowsInv, LookupInv, CacheInv, CacheFresh, AnswersInv, [AccessNext]_accessVars
    PROVE  AnswersInv'
<1>1. SUFFICES ASSUME NEW q \in Reqs
               PROVE  /\ req'[q].pc # "idle" /\ req'[q].res \in {200, 403} =>
                           /\ rows'[req'[q].op.key].st # "absent"
                           /\ Accepted(req[q].op.key, req[q].at)'
                      /\ req'[q].pc = "done" /\ req'[q].res = 401 =>
                           Refused(req[q].op.key, req[q].at)'
  BY DEF AnswersInv
<1>2. /\ req[q].pc # "idle" /\ req[q].res \in {200, 403} =>
            rows[req[q].op.key].st # "absent" /\ Accepted(req[q].op.key, req[q].at)
      /\ req[q].pc = "done" /\ req[q].res = 401 => Refused(req[q].op.key, req[q].at)
      /\ req[q].pc # "idle" => req[q].at <= now
  BY DEF AnswersInv, LookupInv
<1> DEFINE OK(l, t) == rows[l].st # "absent" /\ Accepted(l, t)
<1>3. ASSUME req[q].pc # "idle", req'[q].op = req[q].op, req'[q].at = req[q].at
      PROVE  /\ OK(req[q].op.key, req[q].at) => OK(req[q].op.key, req[q].at)'
             /\ Refused(req[q].op.key, req[q].at) => Refused(req[q].op.key, req[q].at)'
  <2>1. PICK l \in Labels, t \in Nat : l = req[q].op.key /\ t = req[q].at
    BY <1>3, ReqShape
  <2>2. /\ OK(l, t) => rows'[l].st # "absent" /\ Accepted(l, t)'
        /\ Refused(l, t) => Refused(l, t)'
    BY <1>2, <1>3, <2>1, AnswerStays
  <2>3. req'[q].op.key = l /\ req'[q].at = t
    BY <1>3, <2>1
  <2>4. QED
    BY <2>1, <2>2, <2>3 DEF Accepted, Refused
<1>4. CASE req'[q] = req[q]
  <2>1. CASE req[q].pc = "idle"
    BY <1>4, <2>1
  <2>2. CASE req[q].pc # "idle"
    BY <1>2, <1>3, <1>4, <2>2
  <2>3. QED
    BY <2>1, <2>2
<1>5. CASE req'[q] = Idle
  BY <1>5 DEF Idle
<1>6. CASE /\ req[q].pc # "idle" /\ req'[q].op = req[q].op /\ req'[q].at = req[q].at
           /\ req'[q].res \in {200, 400, 404, 409, 499, 500}
           /\ req'[q].res = 200 => req[q].res = 200
  <2>1. req'[q].res # 401 /\ (req'[q].res \in {200, 403} => req[q].res = 200)
    BY <1>6
  <2>2. QED
    BY <1>2, <1>3, <1>6, <2>1
<1>7. CASE /\ req[q].pc = "lookup" /\ req'[q].pc = "resume"
           /\ req'[q].op = req[q].op /\ req'[q].at = req[q].at /\ req'[q].res = req[q].res
  BY <1>2, <1>3, <1>7
<1>8. CASE req'[q].res \in {0, 499}
  BY <1>8
<1>9. ASSUME rows' = rows, now' = now, NEW v \in Entries, NEW x \in Starting,
             req'[q] = Admitted(x, v), v.kind # "missing", x.op.key \in Labels,
             \/ \E w \in Workers : v = cache[w][x.op.key]
             \/ \E r \in Reqs : /\ req[r].pc = "resume" /\ req[r].op.key = x.op.key
                                /\ v = Verdict(req[r].seen)
      PROVE  /\ req'[q].pc # "idle" /\ req'[q].res \in {200, 403} =>
                  /\ rows'[req'[q].op.key].st # "absent"
                  /\ Accepted(req[q].op.key, req[q].at)'
             /\ req'[q].pc = "done" /\ req'[q].res = 401 =>
                  Refused(req[q].op.key, req[q].at)'
  <2>1. PICK l \in Labels : l = x.op.key
    BY <1>9
  <2>2. /\ now \in Nat /\ Ttl \in Nat \ {0} /\ v.at \in Nat /\ v.kind \in {"yes", "no"}
    BY <1>9, TimeMoves, Constants DEF Entries
  <2>3. /\ v.at <= now /\ now < v.at + Ttl
        /\ v.kind = "yes" => Was(l, v.at)
        /\ v.kind = "no" => WasNot(l, v.at)
    <3>1. ASSUME NEW w \in Workers, v = cache[w][l]
          PROVE  /\ v.at <= now /\ now < v.at + Ttl
                 /\ v.kind = "yes" => Was(l, v.at)
                 /\ v.kind = "no" => WasNot(l, v.at)
      BY <1>9, <2>2, <3>1 DEF CacheInv, CacheFresh
    <3>2. ASSUME NEW r \in Reqs, req[r].pc = "resume", req[r].op.key = l, v = Verdict(req[r].seen)
          PROVE  /\ v.at <= now /\ now < v.at + Ttl
                 /\ v.kind = "yes" => Was(l, v.at)
                 /\ v.kind = "no" => WasNot(l, v.at)
      <4>1. v.at = now
        BY <2>2, <3>2, VerdictType, ReqShape
      <4>2. /\ v.kind = "yes" => Was(l, now)
            /\ v.kind = "no" => WasNot(l, now)
        BY <3>2, VerdictIsRecent
      <4>3. QED
        BY <2>2, <4>1, <4>2
    <3>3. QED
      BY <1>9, <2>1, <3>1, <3>2
  <2>4. /\ v.kind = "yes" => rows[l].st # "absent" /\ Accepted(l, now)
        /\ v.kind = "no" => Refused(l, now)
    <3>1. /\ Was(l, v.at) => Accepted(l, now)
          /\ WasNot(l, v.at) => Refused(l, now)
      BY <2>2, <2>3, AnswerIsRecent
    <3>2. QED
      BY <2>3, <3>1 DEF Was
  <2>5. /\ Admitted(x, v).op = x.op /\ Admitted(x, v).at = now
        /\ v.kind = "no" => Admitted(x, v).res = 401
        /\ v.kind = "yes" => Admitted(x, v).res \in {200, 403}
    BY <1>9, <2>2, AdmittedType
  <2>6. req'[q].op.key = l /\ req'[q].at = now
    BY <1>9, <2>1, <2>5
  <2>7. /\ req'[q].res \in {200, 403} => v.kind = "yes"
        /\ req'[q].res = 401 => v.kind = "no"
    BY <1>9, <2>2, <2>5
  <2>8. QED
    BY <1>9, <2>4, <2>6, <2>7 DEF Accepted, Refused
<1>10. CASE IsStranded(q) \/ IsCut(q)
  <2>1. /\ req[q].pc # "idle" /\ req'[q].pc # "done"
        /\ req'[q].op = req[q].op /\ req'[q].at = req[q].at /\ req'[q].res = req[q].res
    BY <1>10 DEF IsStranded, IsCut
  <2>2. QED
    BY <1>2, <1>3, <2>1
<1> HIDE DEF OK
<1>11. QED
  BY <1>4, <1>5, <1>6, <1>7, <1>8, <1>9, <1>10, ReqMoves

----------------------------------------------------------------------------
(* One lookup at a time *)

Leads(r) == req[r].pc \in {"lookup", "resume"}

\* LeadersInv, spelt out.
LEMMA LeadersMean ==
    LeadersInv <=>
      /\ \A r, q \in Reqs : Leads(r) /\ Leads(q) /\ req[r].op.w = req[q].op.w
                            /\ req[r].op.key = req[q].op.key => r = q
      /\ \A r \in Reqs : req[r].pc = "wait" =>
            \E q \in Reqs : Leads(q) /\ req[r].op.w = req[q].op.w /\ req[r].op.key = req[q].op.key
  BY DEF LeadersInv, Leads, Leaders, At, InFlight

LEMMA LeadersMeanNext ==
    LeadersInv' <=>
      /\ \A r, q \in Reqs : Leads(r)' /\ Leads(q)' /\ req'[r].op.w = req'[q].op.w
                            /\ req'[r].op.key = req'[q].op.key => r = q
      /\ \A r \in Reqs : req'[r].pc = "wait" =>
            \E q \in Reqs : Leads(q)' /\ req'[r].op.w = req'[q].op.w
                            /\ req'[r].op.key = req'[q].op.key
  BY DEF LeadersInv, Leads, Leaders, At, InFlight

\* A step that gives nobody a new lookup, and ends none.
LEMMA LeadersKept ==
    ASSUME LeadersInv,
           \A q \in Reqs : \/ req'[q] = req[q]
                           \/ req'[q].pc \notin {"lookup", "resume", "wait"} /\ ~Leads(q)
    PROVE  LeadersInv'
  BY LeadersMean, LeadersMeanNext DEF Leads

\* A new request joins the lookup of its key, or begins one when there is none.
LEMMA LeadersBegin ==
    ASSUME LeadersInv, NEW r \in Reqs, ~Leads(r),
           \A q \in Reqs : q # r => req'[q] = req[q],
           \/ req'[r].pc = "wait" /\ InFlight(req'[r].op.w, req'[r].op.key)
           \/ req'[r].pc = "lookup" /\ ~InFlight(req'[r].op.w, req'[r].op.key)
    PROVE  LeadersInv'
<1>1. InFlight(req'[r].op.w, req'[r].op.key) <=>
        \E q \in Reqs : Leads(q) /\ req'[r].op.w = req[q].op.w /\ req'[r].op.key = req[q].op.key
  BY DEF InFlight, Leaders, At, Leads
<1>2. CASE req'[r].pc = "wait" /\ InFlight(req'[r].op.w, req'[r].op.key)
  BY <1>1, <1>2, LeadersMean, LeadersMeanNext DEF Leads
<1>3. CASE req'[r].pc = "lookup" /\ ~InFlight(req'[r].op.w, req'[r].op.key)
  BY <1>1, <1>3, LeadersMean, LeadersMeanNext DEF Leads
<1>4. QED
  BY <1>2, <1>3

\* A lookup ends with everybody who waited for it.
LEMMA LeadersEnd ==
    ASSUME LeadersInv, NEW r \in Reqs, Leads(r),
           \A q \in Reqs : IF q = r \/ q \in At(req[r].op.w, req[r].op.key, "wait")
                           THEN req'[q].pc \notin {"lookup", "resume", "wait"}
                           ELSE req'[q] = req[q]
    PROVE  LeadersInv'
<1>1. \A q \in Reqs : q \in At(req[r].op.w, req[r].op.key, "wait") <=>
         req[q].pc = "wait" /\ req[q].op.w = req[r].op.w /\ req[q].op.key = req[r].op.key
  BY DEF At
<1>2. QED
  BY <1>1, LeadersMean, LeadersMeanNext DEF Leads

\* A worker's lookups die with everybody who waited for them.
LEMMA LeadersCrash ==
    ASSUME LeadersInv, NEW w,
           \A q \in Reqs : IF req[q].pc # "idle" /\ req[q].op.w = w
                           THEN req'[q].pc = "idle" ELSE req'[q] = req[q]
    PROVE  LeadersInv'
  BY LeadersMean, LeadersMeanNext DEF Leads

LEMMA LeadersStep ==
    ASSUME TypeInv, LeadersInv, [AccessNext]_accessVars
    PROVE  LeadersInv'
<1>1. req \in [Reqs -> ReqType \cup {Idle}] /\ now \in Nat
  BY Constants DEF TypeInv
<1>2. CASE req' = req
  BY <1>2, LeadersKept
<1>3. ASSUME NEW r \in Reqs, NEW n, req' = [req EXCEPT ![r] = n], ~Leads(r),
             n.pc \notin {"lookup", "resume", "wait"}
      PROVE  LeadersInv'
  <2>1. \A q \in Reqs : \/ req'[q] = req[q]
                        \/ req'[q].pc \notin {"lookup", "resume", "wait"} /\ ~Leads(q)
    BY <1>1, <1>3
  <2>2. QED
    BY <2>1, LeadersKept
<1>4. ASSUME NEW r \in Reqs, Handles(r) PROVE LeadersInv'
  <2>1. ~Leads(r)
    BY <1>4, HandlesCases DEF Leads
  <2>2. PICK n \in ReqType : /\ req' = [req EXCEPT ![r] = n]
                             /\ n.pc \in {"count", "update", "audit", "invalidate", "done"}
    BY <1>4, HandlesCases
  <2>3. QED
    BY <1>3, <2>1, <2>2
<1>5. ASSUME NEW r \in Reqs, ReadRow(r) PROVE LeadersInv'
  <2>1. PICK n \in ReqType : /\ req' = [req EXCEPT ![r] = n] /\ n.pc = "resume"
                             /\ n.op = req[r].op
    BY <1>5, ReadRowCases
  <2>2. /\ \A q \in Reqs : req'[q].op = req[q].op /\ (Leads(q)' <=> Leads(q))
        /\ \A q \in Reqs : req'[q].pc = "wait" => req[q].pc = "wait"
    BY <1>1, <1>5, <2>1 DEF ReadRow, Leads
  <2>3. QED
    BY <2>2, LeadersMean, LeadersMeanNext
<1>6. ASSUME NEW r \in Reqs, Resume(r) PROVE LeadersInv'
  <2>1. PICK v \in Entries :
           /\ v.kind \in {"yes", "no"}
           /\ \A q \in Reqs : IF q = r \/ q \in At(req[r].op.w, req[r].op.key, "wait")
                              THEN req[q] \in ReqType /\ req'[q] = Admitted(req[q], v)
                              ELSE req'[q] = req[q]
    BY <1>6, ResumeCases
  <2>2. ASSUME NEW q \in Reqs, req[q] \in ReqType
        PROVE  Admitted(req[q], v).pc \in {"done", "create", "revoke"}
    <3>1. req[q] \in Starting /\ v.kind # "missing"
      BY <2>1, <2>2 DEF ReqType, Starting
    <3>2. QED
      BY <1>1, <3>1, AdmittedType
  <2>3. \A q \in Reqs : IF q = r \/ q \in At(req[r].op.w, req[r].op.key, "wait")
                        THEN req'[q].pc \notin {"lookup", "resume", "wait"}
                        ELSE req'[q] = req[q]
    BY <2>1, <2>2
  <2>4. Leads(r)
    BY <1>6 DEF Resume, Leads
  <2>5. QED
    BY <2>3, <2>4, LeadersEnd
<1>7. ASSUME NEW r \in Reqs, LookupFails(r) PROVE LeadersInv'
  <2>1. \A q \in Reqs : IF q = r \/ q \in At(req[r].op.w, req[r].op.key, "wait")
                        THEN req'[q].pc \notin {"lookup", "resume", "wait"}
                        ELSE req'[q] = req[q]
    BY <1>7, LookupFailsCases
  <2>2. Leads(r)
    BY <1>7 DEF LookupFails, Leads
  <2>3. QED
    BY <2>1, <2>2, LeadersEnd
<1>8. ASSUME NEW r \in Reqs, NEW o \in Ops, Resolve(r, o) PROVE LeadersInv'
  <2>1. ~Leads(r)
    BY <1>8 DEF Resolve, Leads
  <2>2. PICK op \in OpType, x \in Starting, n \in ReqType :
             /\ req' = [req EXCEPT ![r] = n] /\ n.op = op
             /\ \/ /\ cache[op.w][op.key].kind # "missing"
                   /\ n = Admitted(x, cache[op.w][op.key])
                \/ n.pc = "wait" /\ InFlight(op.w, op.key)
                \/ n.pc = "done"
                \/ n.pc = "lookup" /\ ~InFlight(op.w, op.key)
    BY <1>8, ResolveCases
  <2>3. CASE /\ cache[op.w][op.key].kind # "missing"
             /\ n = Admitted(x, cache[op.w][op.key])
    <3>1. cache[op.w][op.key] \in Entries
      BY DEF TypeInv, OpType
    <3>2. n.pc \in {"done", "create", "revoke"}
      BY <1>1, <2>3, <3>1, AdmittedType
    <3>3. QED
      BY <1>3, <2>1, <2>2, <3>2
  <2>4. CASE \/ n.pc = "wait" /\ InFlight(op.w, op.key)
             \/ n.pc = "lookup" /\ ~InFlight(op.w, op.key)
    <3>1. req'[r] = n /\ \A q \in Reqs : q # r => req'[q] = req[q]
      BY <1>1, <2>2
    <3>2. QED
      BY <2>1, <2>2, <2>4, <3>1, LeadersBegin
  <2>5. CASE n.pc = "done"
    BY <1>3, <2>1, <2>2, <2>5
  <2>6. QED
    BY <2>2, <2>3, <2>4, <2>5
<1>9. ASSUME NEW w \in Workers, Crash(w) PROVE LeadersInv'
  <2>1. \A q \in Reqs : IF req[q].pc # "idle" /\ req[q].op.w = w
                        THEN req'[q].pc = "idle" ELSE req'[q] = req[q]
    BY <1>1, <1>9 DEF Crash, Idle
  <2>2. QED
    BY <2>1, LeadersCrash
<1>10. ASSUME NEW r \in Reqs, CancelLeader(r) PROVE LeadersInv'
  <2>1. \A q \in Reqs : IF q = r \/ q \in At(req[r].op.w, req[r].op.key, "wait")
                        THEN req'[q].pc \notin {"lookup", "resume", "wait"}
                        ELSE req'[q] = req[q]
    BY <1>10, CancelLeaderCases DEF IsOver, IsStranded
  <2>2. Leads(r)
    BY <1>10 DEF CancelLeader, Leads
  <2>3. QED
    BY <2>1, <2>2, LeadersEnd
<1>11. ASSUME NEW r \in Reqs, CancelWaiter(r) PROVE LeadersInv'
  <2>1. ASSUME NEW q \in Reqs
        PROVE  \/ req'[q] = req[q]
               \/ req[q].pc = "wait" /\ req'[q].pc = "done"
               \/ /\ Leads(q) /\ req'[q].op = req[q].op /\ req'[q].pc = req[q].pc
    BY <1>11, CancelWaiterCases DEF IsOver, IsCut, At, Leads
  <2>2. /\ \A q \in Reqs : /\ Leads(q)' <=> Leads(q)
                           /\ Leads(q) => req'[q].op = req[q].op
        /\ \A q \in Reqs : req'[q].pc = "wait" => req'[q] = req[q]
    BY <2>1 DEF Leads
  <2>3. QED
    BY <2>2, LeadersMean, LeadersMeanNext
<1>12. ASSUME NEW r \in Reqs, CancelStranded(r) PROVE LeadersInv'
  <2>1. \A q \in Reqs : \/ req'[q] = req[q]
                        \/ req'[q].pc \notin {"lookup", "resume", "wait"} /\ ~Leads(q)
    BY <1>12, CancelStrandedCases DEF IsOver, Leads
  <2>2. QED
    BY <2>1, LeadersKept
<1>13. QED
  BY <1>2, <1>4, <1>5, <1>6, <1>7, <1>8, <1>9, <1>10, <1>11, <1>12, RequestCases, BootsKeep, Steps
     DEF Cancels, Tick, accessVars

\* FlightInv, spelt out.
LEMMA FlightMeans ==
    FlightInv <=> \A r, q \in Reqs :
        req[r].pc = "wait" /\ Leads(q) /\ req[r].op.w = req[q].op.w /\ req[r].op.key = req[q].op.key
          => ~req[q].cut
  BY DEF FlightInv, CutFlight, Leaders, At, Leads

LEMMA FlightMeansNext ==
    FlightInv' <=> \A r, q \in Reqs :
        req'[r].pc = "wait" /\ Leads(q)' /\ req'[r].op.w = req'[q].op.w
        /\ req'[r].op.key = req'[q].op.key => ~req'[q].cut
  BY DEF FlightInv, CutFlight, Leaders, At, Leads

\* A step after which nobody waits or leads who did not.
LEMMA FlightKept ==
    ASSUME FlightInv,
           \A q \in Reqs : req'[q] = req[q] \/ req'[q].pc \notin {"lookup", "resume", "wait"}
    PROVE  FlightInv'
  BY FlightMeans, FlightMeansNext DEF Leads

LEMMA FlightStep ==
    ASSUME TypeInv, LeadersInv, FlightInv, [AccessNext]_accessVars
    PROVE  FlightInv'
<1>1. req \in [Reqs -> ReqType \cup {Idle}] /\ now \in Nat
  BY Constants DEF TypeInv
<1>2. CASE req' = req
  BY <1>2, FlightKept
<1>3. ASSUME NEW r \in Reqs, NEW n, req' = [req EXCEPT ![r] = n],
             n.pc \notin {"lookup", "resume", "wait"}
      PROVE  FlightInv'
  BY <1>1, <1>3, FlightKept
<1>4. ASSUME NEW r \in Reqs, Handles(r) PROVE FlightInv'
  BY <1>3, <1>4, HandlesCases
<1>5. ASSUME NEW r \in Reqs, ReadRow(r) PROVE FlightInv'
  <2>1. PICK n \in ReqType : /\ req' = [req EXCEPT ![r] = n] /\ n.pc = "resume"
                             /\ n.op = req[r].op /\ n.cut = req[r].cut
    BY <1>5, ReadRowCases
  <2>2. /\ \A q \in Reqs : /\ req'[q].op = req[q].op /\ req'[q].cut = req[q].cut
                           /\ Leads(q)' <=> Leads(q)
        /\ \A q \in Reqs : req'[q].pc = "wait" => req[q].pc = "wait"
    BY <1>1, <1>5, <2>1 DEF ReadRow, Leads
  <2>3. QED
    BY <2>2, FlightMeans, FlightMeansNext
<1>6. ASSUME NEW r \in Reqs, Resume(r) PROVE FlightInv'
  <2>1. PICK v \in Entries :
           /\ v.kind \in {"yes", "no"}
           /\ \A q \in Reqs : IF q = r \/ q \in At(req[r].op.w, req[r].op.key, "wait")
                              THEN req[q] \in ReqType /\ req'[q] = Admitted(req[q], v)
                              ELSE req'[q] = req[q]
    BY <1>6, ResumeCases
  <2>2. ASSUME NEW q \in Reqs, req[q] \in ReqType
        PROVE  Admitted(req[q], v).pc \in {"done", "create", "revoke"}
    <3>1. req[q] \in Starting /\ v.kind # "missing"
      BY <2>1, <2>2 DEF ReqType, Starting
    <3>2. QED
      BY <1>1, <3>1, AdmittedType
  <2>3. QED
    BY <2>1, <2>2, FlightKept
<1>7. ASSUME NEW r \in Reqs, LookupFails(r) PROVE FlightInv'
  BY <1>7, LookupFailsCases, FlightKept
<1>8. ASSUME NEW r \in Reqs, NEW o \in Ops, Resolve(r, o) PROVE FlightInv'
  <2>1. PICK op \in OpType, x \in Starting, n \in ReqType :
             /\ req' = [req EXCEPT ![r] = n] /\ n.op = op
             /\ \/ /\ cache[op.w][op.key].kind # "missing"
                   /\ n = Admitted(x, cache[op.w][op.key])
                \/ n.pc = "wait" /\ ~CutFlight(op.w, op.key)
                \/ n.pc = "done"
                \/ n.pc = "lookup" /\ ~InFlight(op.w, op.key)
    BY <1>8, ResolveCases
  <2>2. ~Leads(r) /\ req[r].pc # "wait"
    BY <1>8 DEF Resolve, Leads
  <2>3. req'[r] = n /\ \A q \in Reqs : q # r => req'[q] = req[q]
    BY <1>1, <2>1
  <2>4. CASE /\ cache[op.w][op.key].kind # "missing"
             /\ n = Admitted(x, cache[op.w][op.key])
    <3>1. cache[op.w][op.key] \in Entries
      BY DEF TypeInv, OpType
    <3>2. n.pc \in {"done", "create", "revoke"}
      BY <1>1, <2>4, <3>1, AdmittedType
    <3>3. QED
      BY <1>3, <2>1, <3>2
  <2>5. CASE n.pc = "wait" /\ ~CutFlight(op.w, op.key)
    <3>1. \A q \in Reqs : Leads(q) /\ op.w = req[q].op.w /\ op.key = req[q].op.key => ~req[q].cut
      BY <2>5 DEF CutFlight, Leaders, At, Leads
    <3>2. ~Leads(r)'
      BY <2>3, <2>5 DEF Leads
    <3>3. QED
      BY <2>1, <2>3, <2>5, <3>1, <3>2, FlightMeans, FlightMeansNext DEF Leads
  <2>6. CASE n.pc = "lookup" /\ ~InFlight(op.w, op.key)
    <3>1. \A q \in Reqs : ~(req[q].pc = "wait" /\ req[q].op.w = op.w /\ req[q].op.key = op.key)
      BY <2>6 DEF LeadersInv
    <3>2. QED
      BY <2>1, <2>3, <2>6, <3>1, FlightMeans, FlightMeansNext DEF Leads
  <2>7. CASE n.pc = "done"
    BY <1>3, <2>1, <2>7
  <2>8. QED
    BY <2>1, <2>4, <2>5, <2>6, <2>7
<1>9. ASSUME NEW w \in Workers, Crash(w) PROVE FlightInv'
  <2>1. \A q \in Reqs : req'[q] = req[q] \/ req'[q].pc = "idle"
    BY <1>1, <1>9 DEF Crash, Idle
  <2>2. QED
    BY <2>1, FlightKept
<1>10. ASSUME NEW r \in Reqs, CancelLeader(r) PROVE FlightInv'
  BY <1>10, CancelLeaderCases, FlightKept DEF IsOver, IsStranded
<1>11. ASSUME NEW r \in Reqs, CancelWaiter(r) PROVE FlightInv'
  <2>1. PICK w, k : w = req[r].op.w /\ k = req[r].op.key
    OBVIOUS
  <2>2. ASSUME NEW q \in Reqs
        PROVE  \/ req'[q] = req[q] /\ ~(req[q].pc = "wait" /\ req[q].op.w = w /\ req[q].op.key = k)
               \/ req'[q].pc = "done"
               \/ /\ req'[q].pc \in {"lookup", "resume"}
                  /\ req'[q].op.w = w /\ req'[q].op.key = k
    BY <1>11, <2>1, CancelWaiterCases DEF IsOver, IsCut, At, Leaders
  <2>3. QED
    BY <2>2, FlightMeans, FlightMeansNext DEF Leads
<1>12. ASSUME NEW r \in Reqs, CancelStranded(r) PROVE FlightInv'
  BY <1>12, CancelStrandedCases, FlightKept DEF IsOver
<1>13. QED
  BY <1>2, <1>4, <1>5, <1>6, <1>7, <1>8, <1>9, <1>10, <1>11, <1>12, RequestCases, BootsKeep, Steps
     DEF Cancels, Tick, accessVars

----------------------------------------------------------------------------
(* The resolver *)

ResolverInductive ==
    TypeInv /\ RowsInv /\ CacheInv /\ CacheFresh /\ LookupInv /\ AnswersInv /\ LeadersInv
    /\ FlightInv

LEMMA ResolverInit == AccessInit => ResolverInductive
<1> SUFFICES ASSUME AccessInit PROVE ResolverInductive
  OBVIOUS
<1>1. TypeInv
  BY InitType
<1>2. RowsInv
  <2>1. now = 0 /\ rows \in InitRows
    BY DEF AccessInit
  <2>2. \A l \in Labels :
            /\ rows[l].st = "absent" => rows[l] = Absent
            /\ rows[l].st # "absent" => rows[l].made = 0
            /\ rows[l].st = "active" => rows[l].gone = Never
            /\ rows[l].st = "revoked" => rows[l].gone = 0
    BY <2>1, TableAssumption
  <2>3. QED
    BY <2>1, <2>2 DEF RowsInv
<1>3. \A r \in Reqs : req[r] = Idle
  BY DEF AccessInit
<1>4. \A w \in Workers, l \in Labels : cache[w][l] = Missing
  BY DEF AccessInit
<1>5. CacheInv /\ CacheFresh
  BY <1>4 DEF CacheInv, CacheFresh, Missing
<1>6. LookupInv
  BY <1>3 DEF LookupInv, Pending, Idle
<1>7. AnswersInv
  BY <1>3 DEF AnswersInv, Idle
<1>8. LeadersInv /\ FlightInv
  BY <1>3, LeadersMean, FlightMeans DEF Leads, Idle
<1>9. QED
  BY <1>1, <1>2, <1>5, <1>6, <1>7, <1>8 DEF ResolverInductive

LEMMA ResolverMeans == ResolverInductive => ResolverInv
<1> SUFFICES ASSUME ResolverInductive PROVE ResolverInv
  OBVIOUS
<1>1. SingleFlight
  <2>1. SUFFICES ASSUME NEW w \in Workers, NEW k \in Labels
                 PROVE  /\ Cardinality(Leaders(w, k)) <= 1
                        /\ At(w, k, "wait") # {} => InFlight(w, k) /\ ~CutFlight(w, k)
    BY DEF SingleFlight
  <2>2. PICK L : L = Leaders(w, k)
    OBVIOUS
  <2>3. \A r, q \in L : r = q
    BY <2>2 DEF ResolverInductive, LeadersInv, Leaders, At
  <2>4. Cardinality(L) <= 1
    <3>1. CASE L = {}
      BY <3>1, FS_EmptySet
    <3>2. ASSUME NEW x \in L PROVE Cardinality(L) <= 1
      <4>1. L = {x}
        BY <2>3, <3>2
      <4>2. Cardinality({x}) = 1
        BY FS_Singleton
      <4>3. Cardinality(L) = 1
        BY <4>1, <4>2
      <4>4. QED
        BY <4>3
    <3>3. QED
      BY <3>1, <3>2
  <2>5. At(w, k, "wait") # {} => InFlight(w, k) /\ ~CutFlight(w, k)
    BY DEF ResolverInductive, LeadersInv, FlightInv, At
  <2>6. QED
    BY <2>2, <2>4, <2>5
<1>2. AnswersAreRecent
  BY DEF ResolverInductive, AnswersInv, AnswersAreRecent, Accepted, Refused
<1>3. QED
  BY <1>1, <1>2 DEF ResolverInv

\* Whatever workers, requests, revocations and cancellations interleave, a key's
\* row is read once for all who ask together, nobody waits for a future that was
\* cancelled nor, before its leader is cancelled, for a read that is over, and no
\* answer is older than one cache lifetime and one database read
\* (DBKeyResolver.resolve).
THEOREM AnswersAreBoundedlyStale == AccessSpec => []ResolverInv
<1>1. ResolverInductive /\ [AccessNext]_accessVars => ResolverInductive'
  BY TypeStep, RowsStep, CacheStep, LookupStep, AnswersStep, LeadersStep, FlightStep
     DEF ResolverInductive
<1>2. QED
  BY <1>1, ResolverInit, ResolverMeans, PTL DEF AccessSpec

----------------------------------------------------------------------------
(* Start-up *)

Goes(w, ph, td) == /\ boot'[w].phase = ph /\ boot'[w].todo = td
                   /\ \A v \in Workers : v # w => boot'[v] = boot[v]

\* Where every step of a start-up leads.
LEMMA BootGoes ==
    ASSUME TypeInv, NEW w \in Workers, Boots(w)
    PROVE  \/ /\ boot[w].phase = "down" /\ Goes(w, "env", EnvKeys) /\ rows' = rows
           \/ /\ boot[w].phase = "env" /\ boot[w].todo # << >> /\ rows' = rows
              /\ \/ Conflict(Head(boot[w].todo)) /\ Goes(w, "env", Tail(boot[w].todo))
                 \/ ~Conflict(Head(boot[w].todo)) /\ Goes(w, "envcreate", boot[w].todo)
           \/ /\ boot[w].phase = "envcreate" /\ Conflict(Head(boot[w].todo))
              /\ Goes(w, "dash", DashKeys) /\ rows' = rows
           \/ /\ boot[w].phase = "envcreate" /\ ~Conflict(Head(boot[w].todo))
              /\ Goes(w, "env", Tail(boot[w].todo))
              /\ \E role \in Roles : \E n : Fresh(n, role) /\ Create(Head(boot[w].todo), n)
           \/ /\ boot[w].phase = "env" /\ boot[w].todo = << >>
              /\ Goes(w, "dash", DashKeys) /\ rows' = rows
           \/ /\ boot[w].phase = "dash" /\ boot[w].todo # << >> /\ rows' = rows
              /\ \/ Goes(w, "dashcreate", boot[w].todo)
                 \/ Goes(w, "dash", Tail(boot[w].todo))
                 \/ /\ Goes(w, "dashrevoke", boot[w].todo)
                    /\ rows[Head(boot[w].todo)].st = "active"
                    /\ ~rows[Head(boot[w].todo)].own
           \/ /\ boot[w].phase = "dashrevoke" /\ Goes(w, "dashcreate", boot[w].todo)
              /\ rows' = [rows EXCEPT ![Head(boot[w].todo)] = Revoked(@)]
           \/ /\ boot[w].phase = "dashcreate" /\ Goes(w, "dash", Tail(boot[w].todo))
              /\ \/ rows' = rows
                 \/ /\ ~Conflict(Head(boot[w].todo))
                    /\ \E role \in Roles : \E n : Fresh(n, role) /\ Create(Head(boot[w].todo), n)
           \/ Goes(w, "up", << >>) /\ boot[w].phase = "dash" /\ rows' = rows
<1>1. boot \in [Workers -> BootType] /\ boot[w] \in BootType
  BY DEF TypeInv
<1>2. Never \in Nat /\ "admin" \in Roles /\ "submitter" \in Roles /\ now \in Nat
  BY Constants DEF Roles, TypeInv
<1>3. CASE Start(w)
  BY <1>1, <1>3 DEF Start, Goes
<1>4. CASE EnvRead(w)
  <2>1. CASE Conflict(Head(boot[w].todo))
    <3>1. boot' = [boot EXCEPT ![w] = [boot[w] EXCEPT !.todo = Tail(boot[w].todo)]]
      BY <1>4, <2>1 DEF EnvRead
    <3>2. QED
      BY <1>1, <1>4, <2>1, <3>1 DEF EnvRead, Goes, BootType
  <2>2. CASE ~Conflict(Head(boot[w].todo))
    <3>1. boot' = [boot EXCEPT ![w] = [boot[w] EXCEPT !.phase = "envcreate"]]
      BY <1>4, <2>2 DEF EnvRead
    <3>2. QED
      BY <1>1, <1>4, <2>2, <3>1 DEF EnvRead, Goes, BootType
  <2>3. QED
    BY <2>1, <2>2
<1>5. CASE EnvCreate(w)
  <2>1. CASE Conflict(Head(boot[w].todo))
    BY <1>1, <1>5, <2>1 DEF EnvCreate, Goes
  <2>2. CASE ~Conflict(Head(boot[w].todo))
    <3>1. PICK role \in Roles : role = IF Head(boot[w].todo) = Head(EnvKeys) THEN "admin" ELSE "submitter"
      BY <1>2
    <3>2. Create(Head(boot[w].todo), Row(role, Never)) /\ boot[w].phase = "envcreate"
      BY <1>5, <2>2, <3>1 DEF EnvCreate
    <3>3. boot' = [boot EXCEPT ![w].phase = "env", ![w].todo = Tail(@)]
      BY <1>5, <2>2 DEF EnvCreate
    <3>4. Goes(w, "env", Tail(boot[w].todo))
      BY <1>1, <3>3 DEF Goes, BootType
    <3>5. Fresh(Row(role, Never), role)
      BY <1>2, RowType1
    <3>6. QED
      BY <1>2, <2>2, <3>2, <3>4, <3>5
  <2>3. QED
    BY <2>1, <2>2
<1>6. CASE EnvDone(w)
  BY <1>1, <1>6 DEF EnvDone, Goes
<1>7. CASE DashRead(w)
  <2>1. PICK row : row = rows[Head(boot[w].todo)]
    OBVIOUS
  <2>2. boot' = [boot EXCEPT ![w] =
                CASE row.st # "active" -> [boot[w] EXCEPT !.phase = "dashcreate"]
                  [] row.st = "active" /\ ~row.own -> [boot[w] EXCEPT !.phase = "dashrevoke"]
                  [] OTHER -> [boot[w] EXCEPT !.todo = Tail(boot[w].todo)]]
    BY <1>7, <2>1 DEF DashRead
  <2>3. boot[w].phase = "dash" /\ boot[w].todo # << >> /\ rows' = rows
    BY <1>7 DEF DashRead
  <2>4. CASE row.st # "active"
    <3>1. boot' = [boot EXCEPT ![w] = [boot[w] EXCEPT !.phase = "dashcreate"]]
      BY <2>2, <2>4
    <3>2. QED
      BY <1>1, <2>3, <3>1 DEF Goes, BootType
  <2>5. CASE row.st = "active" /\ ~row.own
    <3>1. boot' = [boot EXCEPT ![w] = [boot[w] EXCEPT !.phase = "dashrevoke"]]
      BY <2>2, <2>5
    <3>2. QED
      BY <1>1, <2>1, <2>3, <2>5, <3>1 DEF Goes, BootType
  <2>6. CASE row.st = "active" /\ row.own
    <3>1. boot' = [boot EXCEPT ![w] = [boot[w] EXCEPT !.todo = Tail(boot[w].todo)]]
      BY <2>2, <2>6
    <3>2. QED
      BY <1>1, <2>3, <3>1 DEF Goes, BootType
  <2>7. QED
    BY <2>4, <2>5, <2>6
<1>8. CASE DashRevoke(w)
  <2>1. Goes(w, "dashcreate", boot[w].todo)
    BY <1>1, <1>8 DEF DashRevoke, Goes, BootType
  <2>2. QED
    BY <1>8, <2>1 DEF DashRevoke
<1>9. CASE DashCreate(w)
  <2>1. boot' = [boot EXCEPT ![w].phase = "dash", ![w].todo = Tail(@)]
    BY <1>9 DEF DashCreate
  <2>2. Goes(w, "dash", Tail(boot[w].todo))
    BY <1>1, <2>1 DEF Goes, BootType
  <2>3. Fresh(Row("submitter", Never), "submitter")
    BY <1>2, RowType1
  <2>4. QED
    BY <1>2, <1>9, <2>2, <2>3 DEF DashCreate
<1>10. CASE Serve(w)
  BY <1>1, <1>10 DEF Serve, Goes
<1>11. QED
  BY <1>3, <1>4, <1>5, <1>6, <1>7, <1>8, <1>9, <1>10 DEF Boots, BootStep

Dashing == {"dash", "dashrevoke", "dashcreate"}

\* A worker that has imported the environment is busy with dashboard labels.
DashInv ==
    \A w \in Workers : boot[w].phase \in Dashing =>
        \A n \in 1..Len(boot[w].todo) : \E j \in 1..Len(DashKeys) : boot[w].todo[n] = DashKeys[j]

\* A row stays, and stays whose it is.
LEMMA RowStays ==
    ASSUME TypeInv, [AccessNext]_accessVars, NEW l \in Labels, rows[l].st # "absent"
    PROVE  /\ rows'[l].st # "absent" /\ rows'[l].own = rows[l].own
           /\ rows'[l].role = rows[l].role
  BY RowsMove DEF RowMoves, Born, Died

LEMMA DashStep ==
    ASSUME TypeInv, DashInv, [AccessNext]_accessVars
    PROVE  DashInv'
<1> DEFINE Ours(td) == \A n \in 1..Len(td) : \E j \in 1..Len(DashKeys) : td[n] = DashKeys[j]
<1>1. SUFFICES ASSUME NEW v \in Workers, boot'[v].phase \in Dashing PROVE Ours(boot'[v].todo)
  BY DEF DashInv
<1>2. boot[v].phase \in Dashing => Ours(boot[v].todo)
  BY DEF DashInv
<1>3. /\ boot[v].todo \in Seq(Labels)
      /\ boot[v].phase \in {"dashrevoke", "dashcreate"} => boot[v].todo # << >>
  BY DEF TypeInv, BootOK, BootType
<1>4. CASE boot'[v] = boot[v]
  BY <1>1, <1>2, <1>4
<1>5. Ours(DashKeys)
  OBVIOUS
<1>6. ASSUME boot[v].todo # << >>, Ours(boot[v].todo) PROVE Ours(Tail(boot[v].todo))
  <2>1. PICK td \in Seq(Labels) : td = boot[v].todo
    BY <1>3
  <2>2. /\ Len(Tail(td)) = Len(td) - 1 /\ Len(td) \in Nat
        /\ \A n \in 1..Len(Tail(td)) : Tail(td)[n] = td[n + 1]
    BY <1>6, <2>1, RestOf
  <2>3. \A n \in 1..Len(Tail(td)) : n + 1 \in 1..Len(td)
    BY <2>2
  <2>4. QED
    BY <1>6, <2>1, <2>2, <2>3
<1>7. ASSUME Boots(v) PROVE Ours(boot'[v].todo)
  <2> HIDE DEF Ours
  <2>1. \/ boot'[v].todo = DashKeys
        \/ boot[v].phase \in Dashing /\ boot'[v].todo = boot[v].todo
        \/ /\ boot[v].phase \in Dashing /\ boot'[v].todo = Tail(boot[v].todo)
           /\ boot[v].todo # << >>
    BY <1>1, <1>3, <1>7, BootGoes DEF Goes, Dashing
  <2>2. QED
    BY <1>2, <1>5, <1>6, <2>1
<1>8. ASSUME NEW w \in Workers, Boots(w) \/ Crash(w) PROVE boot'[v] = boot[v] \/ v = w
  <2>1. \E b : boot' = [boot EXCEPT ![w] = b]
    BY <1>8, BootsType DEF Crash
  <2>2. QED
    BY <2>1 DEF TypeInv
<1>9. ~Crash(v)
  BY <1>1 DEF Crash, TypeInv, Down, Dashing
<1> HIDE DEF Ours
<1>10. QED
  BY <1>4, <1>7, <1>8, <1>9, Steps, RequestsKeep DEF Tick, accessVars

----------------------------------------------------------------------------
(* The last admin key *)

Admin(l) == rows[l].st = "active" /\ rows[l].role = "admin"

\* AdminsInv, spelt out.
LEMMA AdminsMean ==
    AdminsInv <=>
      /\ \A r \in Reqs : req[r].pc \in {"count", "update"} => rows[req[r].op.target].st # "absent"
      /\ ~unguarded =>
           /\ (\E l \in Labels : Admin(l)) \/ \A l \in Labels : rows[l].role # "admin"
           /\ \A r, q \in Reqs : Revoking(r) /\ Revoking(q) => r = q
           /\ \A r \in Reqs : Revoking(r) => \E l \in Labels : Admin(l) /\ l # req[r].op.target
  BY DEF AdminsInv, LastAdminStays, ActiveAdmins, Admin

LEMMA AdminsMeanNext ==
    AdminsInv' <=>
      /\ \A r \in Reqs : req'[r].pc \in {"count", "update"} =>
            rows'[req'[r].op.target].st # "absent"
      /\ ~unguarded' =>
           /\ (\E l \in Labels : Admin(l)') \/ \A l \in Labels : rows'[l].role # "admin"
           /\ \A r, q \in Reqs : Revoking(r)' /\ Revoking(q)' => r = q
           /\ \A r \in Reqs : Revoking(r)' => \E l \in Labels : Admin(l)' /\ l # req'[r].op.target
  BY DEF AdminsInv, LastAdminStays, ActiveAdmins, Admin

\* A step that revokes no admin key and lets nobody past the count.
LEMMA AdminsKept ==
    ASSUME AdminsInv, unguarded => unguarded',
           \A l \in Labels : Admin(l) => Admin(l)',
           \A l \in Labels : rows'[l].role = "admin" => rows[l].role = "admin" \/ Admin(l)',
           \A r \in Reqs : req'[r].pc \in {"count", "update"} =>
                              rows'[req'[r].op.target].st # "absent",
           \A r \in Reqs : Revoking(r)' => Revoking(r) /\ req'[r].op.target = req[r].op.target
    PROVE  AdminsInv'
  BY AdminsMean, AdminsMeanNext

\* What a request that is past the lookup was, and is, about to do.
LEMMA RevocationsMove ==
    ASSUME TypeInv, AdminsInv, [AccessNext]_accessVars, NEW q \in Reqs,
           req'[q].pc \in {"count", "update"}, ~RevokeCount(q)
    PROVE  /\ req[q].pc # "idle" /\ req'[q].op = req[q].op /\ req[q].op.target \in Labels
           /\ rows[req[q].op.target].st # "absent"
           /\ \/ req'[q].pc = req[q].pc
              \/ req'[q].pc = "count"
              \/ rows' = rows /\ rows[req[q].op.target].role # "admin"
  <1>0. req \in [Reqs -> ReqType \cup {Idle}] /\ now \in Nat
    BY Constants DEF TypeInv
  <1>1. CASE req'[q] = req[q]
    <2>1. req[q].pc \in {"count", "update"} /\ req[q].pc # "idle"
      BY <1>1
    <2>2. req[q].op.target \in Labels
      BY <2>1, ReqShape
    <2>3. QED
      BY <1>1, <2>1, <2>2, AdminsMean
  <1>2. CASE req'[q].pc \notin {"count", "update"}
    BY <1>2
  <1>3. ASSUME NEW r \in Reqs, Handles(r), req'[q] # req[q] PROVE q = r
    BY <1>0, <1>3, HandlesCases
  <1>4. ASSUME Handles(q), req'[q] # req[q] PROVE RevokeLookup(q)
    <2>1. ASSUME NEW pc, Goto(q, pc) PROVE req'[q].pc = pc
      BY <1>0, <2>1 DEF Goto, ReqType, Idle
    <2>2. ASSUME NEW res, Reply(q, res) PROVE req'[q].pc = "done"
      BY <1>0, <2>2 DEF Reply, ReqType, Idle
    <2>3. \/ RevokeLookup(q) \/ Goto(q, "audit") \/ Goto(q, "invalidate") \/ \E res : Reply(q, res)
      BY <1>4 DEF Handles, CreateKey, RevokeUpdate, Audit, AuditFails, Invalidate
    <2>4. QED
      BY <2>1, <2>2, <2>3
  <1>5. CASE RevokeLookup(q)
    <2>1. req[q].pc = "revoke" /\ rows' = rows
      BY <1>5 DEF RevokeLookup
    <2>2. req[q] \in ReqType /\ req[q].op.target \in Labels
      BY <2>1, ReqShape
    <2>3. ASSUME NEW pc, Goto(q, pc) PROVE req'[q].pc = pc /\ req'[q].op = req[q].op
      BY <1>0, <2>2, <2>3 DEF Goto, ReqType
    <2>4. ASSUME NEW res, Reply(q, res) PROVE req'[q].pc = "done"
      BY <1>0, <2>2, <2>4 DEF Reply, ReqType
    <2>5. PICK row : row = rows[req[q].op.target]
      OBVIOUS
    <2>6. \/ \E res : Reply(q, res)
          \/ row.st = "active" /\ Goto(q, IF row.role = "admin" THEN "count" ELSE "update")
      <3>1. CASE row.st # "active"
        BY <1>5, <2>5, <3>1 DEF RevokeLookup
      <3>2. CASE row.st = "active" /\ req[q].op.target = req[q].op.key
        BY <1>5, <2>5, <3>2 DEF RevokeLookup
      <3>3. CASE row.st = "active" /\ req[q].op.target # req[q].op.key
        BY <1>5, <2>5, <3>3 DEF RevokeLookup
      <3>4. QED
        BY <3>1, <3>2, <3>3
    <2>7. row.st = "active" /\ Goto(q, IF row.role = "admin" THEN "count" ELSE "update")
      BY <2>4, <2>6
    <2>8. row.role = "admin" => req'[q].pc = "count"
      BY <2>3, <2>7
    <2>9. req'[q].op = req[q].op
      BY <2>3, <2>7
    <2>10. QED
      BY <2>1, <2>2, <2>5, <2>7, <2>8, <2>9
  <1>6. ASSUME NEW v \in Entries, NEW x \in Starting, v.kind # "missing", req'[q] = Admitted(x, v)
        PROVE  FALSE
    <2>1. Admitted(x, v).pc \in {"done", "create", "revoke"}
      BY <1>0, <1>6, AdmittedType
    <2>2. QED
      BY <1>6, <2>1
  <1>7. ASSUME NEW r \in Reqs, Resume(r) PROVE req'[q] = req[q]
    <2>1. PICK v \in Entries :
             /\ v.kind \in {"yes", "no"}
             /\ \A p \in Reqs : IF p = r \/ p \in At(req[r].op.w, req[r].op.key, "wait")
                                THEN req[p] \in ReqType /\ req'[p] = Admitted(req[p], v)
                                ELSE req'[p] = req[p]
      BY <1>7, ResumeCases
    <2>2. req[q] \in ReqType => req[q] \in Starting
      BY DEF ReqType, Starting
    <2>3. v.kind # "missing"
      BY <2>1
    <2>4. QED
      BY <1>6, <2>1, <2>2, <2>3
  <1>8. ASSUME NEW r \in Reqs, ReadRow(r) PROVE req'[q] = req[q]
    BY <1>0, <1>8, ReadRowCases
  <1>9. ASSUME NEW r \in Reqs, LookupFails(r) PROVE req'[q] = req[q]
    BY <1>9, LookupFailsCases
  <1>10. ASSUME NEW r \in Reqs, NEW o \in Ops, Resolve(r, o) PROVE req'[q] = req[q]
    <2>1. PICK op \in OpType, x \in Starting, n \in ReqType :
               /\ req' = [req EXCEPT ![r] = n]
               /\ \/ /\ cache[op.w][op.key].kind # "missing"
                     /\ n = Admitted(x, cache[op.w][op.key])
                  \/ n.pc \in {"wait", "done", "lookup"}
      BY <1>10, ResolveCases
    <2>2. cache[op.w][op.key] \in Entries
      BY DEF TypeInv, OpType
    <2>3. q = r => req'[q] = n
      BY <1>0, <2>1
    <2>4. q # r => req'[q] = req[q]
      BY <1>0, <2>1
    <2>5. QED
      BY <1>6, <2>1, <2>2, <2>3, <2>4
  <1>11. ASSUME NEW w \in Workers, Crash(w) PROVE req'[q] = req[q]
    BY <1>0, <1>11 DEF Crash, Idle
  <1>12. ASSUME NEW r \in Reqs, Cancels(r) PROVE req'[q] = req[q]
    BY <1>12, CancelsCases DEF IsOver, IsStranded, IsCut
  <1>13. QED
    BY <1>1, <1>3, <1>4, <1>5, <1>7, <1>8, <1>9, <1>10, <1>11, <1>12, RequestCases, BootsKeep, Steps
       DEF Tick, accessVars

LEMMA AdminsStep ==
    ASSUME TypeInv, AdminsInv, [AccessNext]_accessVars
    PROVE  AdminsInv'
<1>1. req \in [Reqs -> ReqType \cup {Idle}] /\ unguarded \in BOOLEAN
  BY DEF TypeInv
<1> DEFINE Quiet == \A r \in Reqs : ~RevokeCount(r)
\* Whoever may revoke an admin key could do so before.
<1>2. ASSUME Quiet
      PROVE  \A r \in Reqs : /\ req'[r].pc \in {"count", "update"} =>
                                  rows'[req'[r].op.target].st # "absent"
                             /\ Revoking(r)' => /\ Revoking(r)
                                                /\ req'[r].op.target = req[r].op.target
  <2>1. SUFFICES ASSUME NEW r \in Reqs, req'[r].pc \in {"count", "update"}
                 PROVE  /\ rows'[req'[r].op.target].st # "absent"
                        /\ req'[r].pc = "update" /\ rows'[req'[r].op.target].role = "admin" =>
                              /\ req[r].pc = "update" /\ rows[req[r].op.target].role = "admin"
                              /\ req'[r].op.target = req[r].op.target
    BY DEF Revoking
  <2>2. /\ req'[r].op = req[r].op /\ req[r].op.target \in Labels
        /\ rows[req[r].op.target].st # "absent"
        /\ \/ req'[r].pc = req[r].pc
           \/ req'[r].pc = "count"
           \/ rows' = rows /\ rows[req[r].op.target].role # "admin"
    BY <1>2, <2>1, RevocationsMove
  <2>3. PICK t \in Labels : t = req[r].op.target
    BY <2>2
  <2>4. rows'[t].st # "absent" /\ rows'[t].role = rows[t].role
    BY <2>2, <2>3, RowStays
  <2>5. QED
    BY <2>1, <2>2, <2>3, <2>4
<1>3. unguarded => unguarded'
  <2>1. ASSUME NEW w \in Workers, Boots(w) PROVE unguarded => unguarded'
    <3>1. DashRevoke(w) => (unguarded => unguarded')
      BY DEF DashRevoke
    <3>2. QED
      BY <2>1, <3>1, BootsKeep
  <2>2. ASSUME NEW r \in Reqs, Requests(r) PROVE unguarded => unguarded'
    <3>1. RevokeCount(r) => (unguarded => unguarded')
      BY DEF RevokeCount
    <3>2. ~RevokeCount(r) => unguarded' = unguarded
      BY <2>2, ZenonT(60)
         DEF Requests, RequestStep, Resolve, ReadRow, Resume, LookupFails, CancelLeader,
             CancelWaiter, CancelStranded, CreateKey, RevokeLookup, RevokeUpdate, Audit, AuditFails,
             Invalidate
    <3>3. QED
      BY <3>1, <3>2
  <2>3. QED
    BY <2>1, <2>2, Steps DEF Tick, Crash, accessVars
\* Rows are made, and other keys than an admin's revoked.
<1>4. ASSUME Quiet, \A l \in Labels : Died(l) => rows[l].role # "admin"
      PROVE  AdminsInv'
  <2>1. ASSUME NEW l \in Labels
        PROVE  /\ Admin(l) => Admin(l)'
               /\ rows'[l].role = "admin" => rows[l].role = "admin" \/ Admin(l)'
    <3>1. CASE rows'[l] = rows[l]
      BY <3>1 DEF Admin
    <3>2. CASE Born(l)
      BY <3>2 DEF Born, Admin
    <3>3. CASE Died(l)
      BY <1>4, <3>3 DEF Died, Admin
    <3>4. QED
      BY <3>1, <3>2, <3>3, RowsMove DEF RowMoves
  <2>2. unguarded => unguarded'
    BY <1>3, <1>4
  <2>3. QED
    BY <1>2, <1>4, <2>1, <2>2, AdminsKept
<1>5. ASSUME NEW r \in Reqs, RevokeCount(r) PROVE AdminsInv'
  <2>1. /\ req[r].pc = "count" /\ rows' = rows
        /\ unguarded' = (unguarded \/ \E q \in Reqs \ {r} : Revoking(q))
    BY <1>5 DEF RevokeCount, Revoking
  <2>2. req[r] \in ReqType /\ req[r].op.target \in Labels
    BY <2>1, ReqShape
  <2>3. /\ \A q \in Reqs : q # r => req'[q] = req[q]
        /\ \/ req'[r].pc = "done"
           \/ /\ ~(Cardinality(ActiveAdmins) <= 1)
              /\ req'[r].pc = "update" /\ req'[r].op = req[r].op
    <3>1. CASE Cardinality(ActiveAdmins) <= 1
      <4>1. Reply(r, 400)
        BY <1>5, <3>1 DEF RevokeCount
      <4>2. QED
        BY <1>1, <2>2, <4>1 DEF Reply, ReqType
    <3>2. CASE ~(Cardinality(ActiveAdmins) <= 1)
      <4>1. Goto(r, "update")
        BY <1>5, <3>2 DEF RevokeCount
      <4>2. QED
        BY <1>1, <2>2, <3>2, <4>1 DEF Goto, ReqType
    <3>3. QED
      BY <3>1, <3>2
  <2>4. rows[req[r].op.target].st # "absent"
    BY <2>1, AdminsMean
  <2>5. \A l : Admin(l)' <=> Admin(l)
    BY <2>1 DEF Admin
  <2>6. \A q \in Reqs : q # r => /\ Revoking(q)' <=> Revoking(q)
                                 /\ req'[q].op = req[q].op /\ req'[q].pc = req[q].pc
    BY <2>1, <2>3 DEF Revoking
  <2>7. unguarded => unguarded'
    BY <2>1
  <2>8. CASE req'[r].pc = "done"
    <3>1. ~Revoking(r)'
      BY <2>8 DEF Revoking
    <3>2. \A q \in Reqs : /\ Revoking(q)' => Revoking(q) /\ req'[q].op.target = req[q].op.target
                          /\ req'[q].pc \in {"count", "update"} =>
                                 rows'[req'[q].op.target].st # "absent"
      BY <2>1, <2>6, <2>8, <3>1, AdminsMean
    <3>3. QED
      BY <2>1, <2>5, <2>7, <3>2, AdminsKept
  <2>9. CASE /\ ~(Cardinality(ActiveAdmins) <= 1)
             /\ req'[r].pc = "update" /\ req'[r].op = req[r].op
    <3>1. PICK t \in Labels : t = req[r].op.target
      BY <2>2
    <3>2. PICK A : A = ActiveAdmins
      OBVIOUS
    <3>3. A # {} /\ A # {t}
      <4>1. Cardinality({}) = 0 /\ Cardinality({t}) = 1
        BY FS_EmptySet, FS_Singleton
      <4>2. A = {} \/ A = {t} => Cardinality(A) \in {0, 1}
        BY <4>1
      <4>3. ~(Cardinality(A) <= 1)
        BY <2>9, <3>2
      <4>4. QED
        BY <4>2, <4>3
    <3>4. \E l \in A : l # t
      BY <3>3
    <3>5. \E l \in Labels : Admin(l) /\ l # t
      BY <3>2, <3>4 DEF ActiveAdmins, Admin
    <3>6. \A q \in Reqs : req'[q].pc \in {"count", "update"} => rows'[req'[q].op.target].st # "absent"
      BY <2>1, <2>4, <2>6, <2>9, AdminsMean
    <3>7. ASSUME ~unguarded'
          PROVE  /\ (\E l \in Labels : Admin(l)') \/ \A l \in Labels : rows'[l].role # "admin"
                 /\ \A p, q \in Reqs : Revoking(p)' /\ Revoking(q)' => p = q
                 /\ \A q \in Reqs : Revoking(q)' =>
                        \E l \in Labels : Admin(l)' /\ l # req'[q].op.target
      <4>1. ~unguarded /\ \A q \in Reqs : q # r => ~Revoking(q)
        BY <2>1, <3>7
      <4>2. \A q \in Reqs : Revoking(q)' => q = r
        BY <2>6, <4>1
      <4>3. req'[r].op.target = t
        BY <2>9, <3>1
      <4>4. QED
        BY <2>5, <3>5, <4>2, <4>3
    <3>8. QED
      BY <3>6, <3>7, AdminsMeanNext
  <2>10. QED
    BY <2>3, <2>8, <2>9
<1>6. ASSUME NEW r \in Reqs, RevokeUpdate(r), Quiet PROVE AdminsInv'
  <2>1. /\ req[r].pc = "update" /\ Goto(r, "audit")
        /\ rows' = [rows EXCEPT ![req[r].op.target] = Revoked(@)]
    BY <1>6 DEF RevokeUpdate
  <2>2. req[r] \in ReqType /\ req[r].op.target \in Labels
    BY <2>1, ReqShape
  <2>3. PICK t \in Labels : t = req[r].op.target
    BY <2>2
  <2>4. /\ \A k \in Labels : k # t => rows'[k] = rows[k]
        /\ \A k \in Labels : RowMoves(k)
    <3>1. rows' = [rows EXCEPT ![t] = Revoked(@)]
      BY <2>1, <2>3
    <3>2. QED
      BY <3>1, RevokeMoves
  <2>5. CASE ~(Died(t) /\ rows[t].role = "admin")
    <3>1. \A l \in Labels : Died(l) => rows[l].role # "admin"
      BY <2>4, <2>5 DEF Died
    <3>2. QED
      BY <1>4, <1>6, <3>1
  <2>6. CASE Died(t) /\ rows[t].role = "admin"
    <3>1. Revoking(r)
      BY <2>1, <2>3, <2>6 DEF Revoking
    <3>2. req'[r].pc = "audit"
      BY <1>1, <2>1, <2>2 DEF Goto, ReqType
    <3>3. ~Revoking(r)' 
      BY <3>2 DEF Revoking
    <3>4. ASSUME ~unguarded'
          PROVE  /\ \E l \in Labels : Admin(l)'
                 /\ \A q \in Reqs : ~Revoking(q)'
      <4>1. ~unguarded
        BY <1>3, <1>6, <3>4
      <4>2. \A q \in Reqs : Revoking(q) => q = r
        BY <3>1, <4>1, AdminsMean
      <4>3. \A q \in Reqs : ~Revoking(q)'
        BY <1>2, <1>6, <3>3, <4>2
      <4>4. PICK l \in Labels : Admin(l) /\ l # t
        BY <2>3, <3>1, <4>1, AdminsMean
      <4>5. Admin(l)'
        BY <2>4, <4>4 DEF Admin
      <4>6. QED
        BY <4>3, <4>5
    <3>5. QED
      BY <1>2, <1>6, <3>4, AdminsMeanNext
  <2>7. QED
    BY <2>5, <2>6
\* A start-up that revokes an admin key counts nothing.
<1>7. ASSUME NEW w \in Workers, Boots(w), Quiet PROVE AdminsInv'
  <2>1. CASE \A l \in Labels : Died(l) => rows[l].role # "admin"
    BY <1>4, <1>7, <2>1
  <2>2. ASSUME NEW l \in Labels, Died(l), rows[l].role = "admin" PROVE AdminsInv'
    <3>1. rows' # rows /\ ~Born(l)
      BY <2>2 DEF Died, Born
    <3>2. ASSUME NEW k \in Labels, rows[k].st = "absent", NEW role \in Roles, NEW n,
                 Fresh(n, role), Create(k, n)
          PROVE  FALSE
      BY <2>2, <3>1, <3>2, CreateMoves DEF Died
    <3>3. /\ DashRevoke(w) /\ Head(boot[w].todo) \in Labels
          /\ rows' = [rows EXCEPT ![Head(boot[w].todo)] = Revoked(@)]
      BY <1>7, <3>1, <3>2, BootsRows
    <3>4. PICK k \in Labels : k = Head(boot[w].todo)
      BY <3>3
    <3>5. k = l
      <4>1. rows' = [rows EXCEPT ![k] = Revoked(@)]
        BY <3>3, <3>4
      <4>2. \A j \in Labels : j # k => rows'[j] = rows[j]
        BY <4>1, RevokeMoves
      <4>3. QED
        BY <2>2, <4>2 DEF Died
    <3>6. l \in ActiveAdmins
      BY <2>2 DEF Died, ActiveAdmins
    <3>7. unguarded'
      BY <3>3, <3>4, <3>5, <3>6 DEF DashRevoke
    <3>8. QED
      BY <1>2, <1>7, <3>7, AdminsMeanNext
  <2>3. QED
    BY <2>1, <2>2
<1>8. CASE Quiet /\ \A l \in Labels : ~Died(l)
  BY <1>4, <1>8
<1>9. ASSUME rows' = rows PROVE \A l \in Labels : ~Died(l)
  BY <1>9 DEF Died
<1>10. ASSUME NEW r \in Reqs, Requests(r), Quiet PROVE AdminsInv'
  <2>1. CASE rows' = rows
    BY <1>8, <1>9, <1>10, <2>1
  <2>2. ASSUME NEW k \in Labels, rows[k].st = "absent", NEW role \in Roles, NEW n,
               Fresh(n, role), Create(k, n)
        PROVE  AdminsInv'
    <3>1. \A l \in Labels : ~Died(l)
      BY <2>2, CreateMoves DEF Died
    <3>2. QED
      BY <1>8, <1>10, <3>1
  <2>3. CASE RevokeUpdate(r)
    BY <1>6, <1>10, <2>3
  <2>4. QED
    BY <1>10, <2>1, <2>2, <2>3, RequestsRows
<1> HIDE DEF Quiet
<1>11. CASE Quiet
  BY <1>7, <1>8, <1>9, <1>10, <1>11, Steps DEF Tick, Crash, accessVars
<1>12. QED
  BY <1>5, <1>11 DEF Quiet

----------------------------------------------------------------------------
(* The import of the environment's keys *)

Importing == {"env", "envcreate"}

LEMMA ImportPlace ==
    ASSUME TypeInv, NEW w \in Workers, NEW i \in 1..(Len(EnvKeys) + 1), ImportsFrom(w, i)
    PROVE  /\ Len(EnvKeys) \in Nat /\ boot[w].phase \in Importing
           /\ \A j \in 1..(Len(EnvKeys) + 1) : ImportsFrom(w, j) => j = i
           /\ boot[w].todo = << >> => i = Len(EnvKeys) + 1
           /\ boot[w].todo # << >> =>
                /\ i \in 1..Len(EnvKeys) /\ Head(boot[w].todo) = EnvKeys[i]
                /\ Len(Tail(boot[w].todo)) = Len(EnvKeys) + 1 - (i + 1)
                /\ \A n \in 1..Len(Tail(boot[w].todo)) :
                      Tail(boot[w].todo)[n] = EnvKeys[(i + 1) + n - 1]
<1>1. Len(EnvKeys) \in Nat
  BY KeysAssumption
<1>2. PICK td \in Seq(Labels) : td = boot[w].todo
  BY DEF TypeInv, BootType
<1>3. /\ boot[w].phase \in Importing /\ Len(td) = Len(EnvKeys) + 1 - i
      /\ \A n \in 1..Len(td) : td[n] = EnvKeys[i + n - 1]
  BY <1>2 DEF ImportsFrom, Importing
<1>4. ASSUME NEW j \in 1..(Len(EnvKeys) + 1), ImportsFrom(w, j) PROVE j = i
  <2>1. Len(td) = Len(EnvKeys) + 1 - j
    BY <1>2, <1>4 DEF ImportsFrom
  <2>2. QED
    BY <1>1, <1>3, <2>1
<1>5. td = << >> => i = Len(EnvKeys) + 1
  BY <1>1, <1>3
<1>6. ASSUME td # << >>
      PROVE  /\ i \in 1..Len(EnvKeys) /\ Head(td) = EnvKeys[i]
             /\ Len(Tail(td)) = Len(EnvKeys) + 1 - (i + 1)
             /\ \A n \in 1..Len(Tail(td)) : Tail(td)[n] = EnvKeys[(i + 1) + n - 1]
  <2>1. /\ Head(td) = td[1] /\ Len(td) \in Nat /\ Len(td) >= 1 /\ Len(Tail(td)) = Len(td) - 1
        /\ \A n \in 1..Len(Tail(td)) : Tail(td)[n] = td[n + 1]
    BY <1>6, RestOf
  <2>2. i \in 1..Len(EnvKeys) /\ Len(Tail(td)) = Len(EnvKeys) + 1 - (i + 1)
    BY <1>1, <1>3, <2>1
  <2>3. td[1] = EnvKeys[i + 1 - 1] /\ i + 1 - 1 = i
    BY <1>3, <2>1
  <2>4. ASSUME NEW n \in 1..Len(Tail(td)) PROVE Tail(td)[n] = EnvKeys[(i + 1) + n - 1]
    <3>1. n + 1 \in 1..Len(td) /\ i + (n + 1) - 1 = (i + 1) + n - 1
      BY <2>1
    <3>2. td[n + 1] = EnvKeys[i + (n + 1) - 1]
      BY <1>3, <3>1
    <3>3. QED
      BY <2>1, <3>1, <3>2
  <2>5. QED
    BY <2>1, <2>2, <2>3, <2>4
<1>7. QED
  BY <1>1, <1>2, <1>3, <1>4, <1>5, <1>6

EnvAbsent(i) == rows[EnvKeys[i]].st = "absent"

\* A worker that moves on by one key.
LEMMA ImportsOn ==
    ASSUME TypeInv, NEW w \in Workers, NEW i \in 1..(Len(EnvKeys) + 1), ImportsFrom(w, i),
           boot[w].todo # << >>, Goes(w, "env", Tail(boot[w].todo))
    PROVE  i + 1 \in 1..(Len(EnvKeys) + 1) /\ ImportsFrom(w, i + 1)'
<1>1. /\ Len(EnvKeys) \in Nat /\ i \in 1..Len(EnvKeys)
      /\ Len(Tail(boot[w].todo)) = Len(EnvKeys) + 1 - (i + 1)
      /\ \A n \in 1..Len(Tail(boot[w].todo)) : Tail(boot[w].todo)[n] = EnvKeys[(i + 1) + n - 1]
  BY ImportPlace
<1>2. boot'[w].phase = "env" /\ boot'[w].todo = Tail(boot[w].todo)
  BY DEF Goes
<1>3. QED
  BY <1>1, <1>2 DEF ImportsFrom

LEMMA ImportMean ==
    ImportInv <=>
      /\ \A w \in Workers : boot[w].phase \in Importing =>
           \E i \in 1..(Len(EnvKeys) + 1) :
              ImportsFrom(w, i) /\ \A n \in 1..(i - 1) : ~EnvAbsent(n)
      /\ \A i \in 1..Len(EnvKeys) :
           EnvAbsent(i) => (\E w \in Workers : Takes(w, i)) \/ Displaced(i)
  BY DEF ImportInv, Importing, EnvAbsent

LEMMA ImportMeanNext ==
    ImportInv' <=>
      /\ \A w \in Workers : boot'[w].phase \in Importing =>
           \E i \in 1..(Len(EnvKeys) + 1) :
              ImportsFrom(w, i)' /\ \A n \in 1..(i - 1) : ~EnvAbsent(n)'
      /\ \A i \in 1..Len(EnvKeys) :
           EnvAbsent(i)' => (\E w \in Workers : Takes(w, i)') \/ Displaced(i)'
  BY DEF ImportInv, Importing, EnvAbsent

\* What a worker that does not move goes on to do.
LEMMA ImportsStay ==
    ASSUME NEW w, boot'[w] = boot[w]
    PROVE  \A i : ImportsFrom(w, i)' <=> ImportsFrom(w, i)
  BY DEF ImportsFrom

LEMMA TakesStays ==
    ASSUME NEW w, boot'[w] = boot[w], NEW i \in 1..Len(EnvKeys), Takes(w, i),
           \A j \in 1..i : EnvAbsent(j) => EnvAbsent(j)'
    PROVE  Takes(w, i)'
  BY ImportsStay DEF Takes, EnvAbsent

LEMMA DisplacedStays ==
    ASSUME [AccessNext]_accessVars
    PROVE  raced \subseteq raced' /\ \A i : Displaced(i) => Displaced(i)'
<1>1. ASSUME NEW r \in Reqs, Requests(r) PROVE raced \subseteq raced'
  <2>1. CreateKey(r) => raced \subseteq raced'
    BY DEF CreateKey
  <2>2. ~CreateKey(r) => raced' = raced
    BY <1>1, ZenonT(60)
       DEF Requests, RequestStep, Resolve, ReadRow, Resume, LookupFails, CancelLeader, CancelWaiter,
           CancelStranded, RevokeLookup, RevokeCount, RevokeUpdate, Audit, AuditFails, Invalidate
  <2>3. QED
    BY <2>1, <2>2
<1>2. raced \subseteq raced'
  BY <1>1, BootsKeep, Steps DEF Tick, Crash, accessVars
<1>3. QED
  BY <1>2 DEF Displaced

\* A step in which nobody who imports moves, and no row appears for the environment.
LEMMA ImportKept ==
    ASSUME ImportInv, \A i \in 1..Len(EnvKeys) : EnvAbsent(i)' <=> EnvAbsent(i),
           \A w \in Workers : \/ boot'[w] = boot[w]
                              \/ boot[w].phase \in Dashing /\ boot'[w].phase \notin Importing,
           Len(EnvKeys) \in Nat, [AccessNext]_accessVars
    PROVE  ImportInv'
<1>1. ASSUME NEW w \in Workers, boot'[w].phase \in Importing
      PROVE  \E i \in 1..(Len(EnvKeys) + 1) :
                ImportsFrom(w, i)' /\ \A n \in 1..(i - 1) : ~EnvAbsent(n)'
  <2>1. boot'[w] = boot[w]
    BY <1>1
  <2>2. PICK i \in 1..(Len(EnvKeys) + 1) :
           ImportsFrom(w, i) /\ \A n \in 1..(i - 1) : ~EnvAbsent(n)
    BY <1>1, <2>1, ImportMean
  <2>3. \A n \in 1..(i - 1) : n \in 1..Len(EnvKeys)
    OBVIOUS
  <2>4. \A n \in 1..(i - 1) : ~EnvAbsent(n)'
    BY <2>2, <2>3
  <2>5. QED
    BY <2>1, <2>2, <2>4, ImportsStay
<1>2. ASSUME NEW i \in 1..Len(EnvKeys), EnvAbsent(i)'
      PROVE  (\E w \in Workers : Takes(w, i)') \/ Displaced(i)'
  <2>0. SUFFICES ASSUME ~Displaced(i) PROVE \E w \in Workers : Takes(w, i)'
    BY DisplacedStays
  <2>1. PICK w \in Workers : Takes(w, i)
    BY <1>2, <2>0, ImportMean
  <2>2. boot[w].phase \notin Dashing
    BY <2>1 DEF Takes, ImportsFrom, Dashing
  <2>3. boot'[w] = boot[w]
    BY <2>2
  <2>4. \A j \in 1..i : EnvAbsent(j) => EnvAbsent(j)'
    OBVIOUS
  <2>5. QED
    BY <2>1, <2>3, <2>4, TakesStays
<1>3. QED
  BY <1>1, <1>2, ImportMeanNext

LEMMA EnvLabels ==
    ASSUME NEW i \in 1..Len(EnvKeys)
    PROVE  /\ EnvKeys[i] \in Labels /\ EnvKeys[i] \in Configured
           /\ \A j \in 1..Len(DashKeys) : EnvKeys[i] # DashKeys[j]
<1>1. EnvKeys \in Seq(Labels) /\ \A j \in 1..Len(DashKeys) : EnvKeys[i] # DashKeys[j]
  BY KeysAssumption
<1>2. EnvKeys[i] \in Labels
  BY <1>1
<1>3. QED
  BY <1>1, <1>2 DEF Configured

\* A worker that is past the import, and a request that makes no key, leave the
\* environment's keys as they are.
LEMMA EnvRowsStay ==
    ASSUME TypeInv, DashInv, [AccessNext]_accessVars,
           \/ \E w \in Workers : Boots(w) /\ boot[w].phase \in Dashing
           \/ \E r \in Reqs : Requests(r) /\ ~CreateKey(r)
    PROVE  \A i \in 1..Len(EnvKeys) : EnvAbsent(i)' <=> EnvAbsent(i)
<1>1. SUFFICES ASSUME NEW i \in 1..Len(EnvKeys) PROVE EnvAbsent(i)' <=> EnvAbsent(i)
  OBVIOUS
<1>2. PICK l \in Labels : l = EnvKeys[i]
  BY EnvLabels
<1>3. ASSUME rows' = rows PROVE ~Born(l)
  BY <1>3 DEF Born
<1>4. ASSUME NEW k \in Labels, rows[k].st = "absent", NEW role \in Roles, NEW n,
             Fresh(n, role), Create(k, n), k # l
      PROVE  ~Born(l)
  <2>1. rows'[l] = rows[l]
    BY <1>4, CreateMoves
  <2>2. QED
    BY <2>1 DEF Born
<1>5. ASSUME NEW k \in Labels, rows' = [rows EXCEPT ![k] = Revoked(@)]
      PROVE  ~Born(l)
  <2>1. l # k => rows'[l] = rows[l]
    BY <1>5, RevokeMoves
  <2>2. l = k => ~Born(l)
    BY <1>5, RevokeMoves
  <2>3. QED
    BY <2>1, <2>2 DEF Born
<1>6. ASSUME NEW w \in Workers, Boots(w), boot[w].phase \in Dashing PROVE ~Born(l)
  <2>1. ASSUME DashCreate(w) PROVE Head(boot[w].todo) # l
    <3>1. boot[w].phase = "dashcreate" /\ boot[w].todo \in Seq(Labels) /\ boot[w].todo # << >>
      BY <2>1 DEF DashCreate, TypeInv, BootOK, BootType
    <3>2. 1 \in 1..Len(boot[w].todo) /\ Head(boot[w].todo) = boot[w].todo[1]
      BY <3>1, RestOf
    <3>3. \E j \in 1..Len(DashKeys) : boot[w].todo[1] = DashKeys[j]
      BY <3>1, <3>2 DEF DashInv, Dashing
    <3>4. QED
      BY <1>2, <3>2, <3>3, EnvLabels
  <2>2. ~EnvCreate(w)
    BY <1>6 DEF EnvCreate, Dashing
  <2>3. QED
    BY <1>3, <1>4, <1>5, <1>6, <2>1, <2>2, BootsRows
<1>7. ASSUME NEW r \in Reqs, Requests(r), ~CreateKey(r) PROVE ~Born(l)
  BY <1>3, <1>5, <1>7, RequestsRows
<1>8. ~Born(l)
  BY <1>6, <1>7
<1>9. rows'[l].st = "absent" <=> rows[l].st = "absent"
  BY <1>8, RowsMove DEF RowMoves, Born, Died
<1>10. QED
  BY <1>2, <1>9 DEF EnvAbsent

\* A key made by hand: whoever was about to make it for the environment is not
\* counted on for those after it.
LEMMA ImportRaced ==
    ASSUME TypeInv, ImportInv, [AccessNext]_accessVars, NEW r \in Reqs, CreateKey(r),
           NEW i \in 1..Len(EnvKeys), EnvAbsent(i)'
    PROVE  (\E w \in Workers : Takes(w, i)') \/ Displaced(i)'
<1>1. Len(EnvKeys) \in Nat
  BY KeysAssumption
<1>2. req[r].op.target \in Labels /\ boot' = boot
  BY ReqShape DEF CreateKey
<1>3. PICK t \in Labels : t = req[r].op.target
  BY <1>2
<1>4. raced' = raced \cup {l \in {t} : ImportRaces(l)}
  BY <1>3 DEF CreateKey
<1>5. \A l \in Labels : l # t => rows'[l] = rows[l]
  <2>1. CASE Conflict(t)
    BY <1>3, <2>1 DEF CreateKey
  <2>2. CASE ~Conflict(t)
    <3>1. \E n : rows' = [rows EXCEPT ![t] = n]
      BY <1>3, <2>2 DEF CreateKey, Create
    <3>2. QED
      BY <3>1 DEF TypeInv
  <2>3. QED
    BY <2>1, <2>2
<1>6. EnvAbsent(i)
  <2>1. PICK l \in Labels : l = EnvKeys[i]
    BY EnvLabels
  <2>2. rows'[l].st = "absent"
    BY <2>1 DEF EnvAbsent
  <2>3. rows[l].st = "absent"
    BY <2>2, RowStays
  <2>4. QED
    BY <2>1, <2>3 DEF EnvAbsent
<1>7. SUFFICES ASSUME ~Displaced(i)' PROVE \E w \in Workers : Takes(w, i)'
  OBVIOUS
<1>8. PICK w \in Workers : Takes(w, i)
  BY <1>6, <1>7, ImportMean, DisplacedStays
<1>9. CASE boot[w].phase = "down"
  BY <1>2, <1>8, <1>9 DEF Takes
<1>10. CASE boot[w].phase # "down"
  <2>1. PICK j \in 1..i : /\ ImportsFrom(w, j)
                          /\ boot[w].phase = "envcreate" => EnvAbsent(j)
    BY <1>8, <1>10 DEF Takes, EnvAbsent
  <2>2. j \in 1..Len(EnvKeys) /\ j \in 1..(Len(EnvKeys) + 1)
    BY <1>1
  <2>3. ASSUME boot[w].phase = "envcreate" PROVE EnvAbsent(j)'
    <3>1. PICK l \in Labels : l = EnvKeys[j]
      BY <2>2, EnvLabels
    <3>2. CASE l # t
      <4>1. rows'[l] = rows[l]
        BY <1>5, <3>2
      <4>2. QED
        BY <2>1, <2>3, <3>1, <4>1 DEF EnvAbsent
    <3>3. CASE l = t /\ EnvKeys[i] # t
      <4>1. boot[w].todo # << >>
        BY <2>3 DEF TypeInv, BootOK
      <4>2. Head(boot[w].todo) = t
        BY <2>1, <2>2, <3>1, <3>3, <4>1, ImportPlace
      <4>3. t \in raced'
        BY <1>4, <2>3, <4>2 DEF ImportRaces
      <4>4. j \in 1..(i - 1)
        <5>1. j # i
          BY <3>1, <3>3
        <5>2. i \in Nat /\ j \in Nat /\ 1 <= j /\ j <= i
          BY <1>1
        <5>3. QED
          BY <5>1, <5>2
      <4>5. Displaced(i)'
        BY <3>1, <3>3, <4>3, <4>4 DEF Displaced
      <4>6. QED
        BY <1>7, <4>5
    <3>4. CASE l = t /\ EnvKeys[i] = t
      BY <3>1, <3>4 DEF EnvAbsent
    <3>5. QED
      BY <3>2, <3>3, <3>4
  <2>4. ImportsFrom(w, j)' /\ (boot'[w].phase = "envcreate" => EnvAbsent(j)')
    BY <1>2, <2>1, <2>3, ImportsStay
  <2>5. QED
    BY <2>4 DEF Takes, EnvAbsent
<1>11. QED
  BY <1>9, <1>10

LEMMA ImportStep ==
    ASSUME TypeInv, DashInv, ImportInv, [AccessNext]_accessVars
    PROVE  ImportInv'
<1>1. Len(EnvKeys) \in Nat
  BY KeysAssumption
<1>2. \A n \in 1..Len(EnvKeys) : ~EnvAbsent(n) => ~EnvAbsent(n)'
  <2>1. SUFFICES ASSUME NEW n \in 1..Len(EnvKeys), ~EnvAbsent(n) PROVE ~EnvAbsent(n)'
    OBVIOUS
  <2>2. PICK l \in Labels : l = EnvKeys[n]
    BY EnvLabels
  <2>3. rows'[l].st # "absent"
    BY <2>1, <2>2, RowStays DEF EnvAbsent
  <2>4. QED
    BY <2>2, <2>3 DEF EnvAbsent
\* One worker moves; where the others are is as before.
<1>3. ASSUME NEW w \in Workers, \A v \in Workers : v # w => boot'[v] = boot[v],
             boot'[w].phase \in Importing =>
                \E i \in 1..(Len(EnvKeys) + 1) :
                   ImportsFrom(w, i)' /\ \A n \in 1..(i - 1) : ~EnvAbsent(n)',
             \A i \in 1..Len(EnvKeys) :
                EnvAbsent(i)' => (\E v \in Workers : Takes(v, i)') \/ Displaced(i)'
      PROVE  ImportInv'
  <2>1. ASSUME NEW v \in Workers, v # w, boot'[v].phase \in Importing
        PROVE  \E i \in 1..(Len(EnvKeys) + 1) :
                  ImportsFrom(v, i)' /\ \A n \in 1..(i - 1) : ~EnvAbsent(n)'
    <3>1. boot'[v] = boot[v]
      BY <1>3, <2>1
    <3>2. PICK i \in 1..(Len(EnvKeys) + 1) :
             ImportsFrom(v, i) /\ \A n \in 1..(i - 1) : ~EnvAbsent(n)
      BY <2>1, <3>1, ImportMean
    <3>3. \A n \in 1..(i - 1) : n \in 1..Len(EnvKeys)
      BY <1>1
    <3>4. \A n \in 1..(i - 1) : ~EnvAbsent(n)'
      BY <1>2, <3>2, <3>3
    <3>5. QED
      BY <3>1, <3>2, <3>4, ImportsStay
  <2>2. QED
    BY <1>3, <2>1, ImportMeanNext
\* It goes on with the import: it takes every key without a row itself.
<1>4. ASSUME NEW w \in Workers, \A v \in Workers : v # w => boot'[v] = boot[v],
             NEW i \in 1..(Len(EnvKeys) + 1), ImportsFrom(w, i)',
             \A n \in 1..(i - 1) : ~EnvAbsent(n)',
             boot'[w].phase = "envcreate" => EnvAbsent(i)'
      PROVE  ImportInv'
  <2>1. ASSUME NEW k \in 1..Len(EnvKeys), EnvAbsent(k)' PROVE Takes(w, k)'
    <3>1. i \in 1..k
      BY <1>1, <1>4, <2>1
    <3>2. boot'[w].phase = "envcreate" => rows'[EnvKeys[i]].st = "absent"
      BY <1>4 DEF EnvAbsent
    <3>3. QED
      BY <1>4, <3>1, <3>2 DEF Takes
  <2>2. QED
    BY <1>3, <1>4, <2>1
\* It leaves the import: it would have taken no key.
<1>5. ASSUME NEW w \in Workers, \A v \in Workers : v # w => boot'[v] = boot[v],
             boot'[w].phase \notin Importing, rows' = rows,
             \A k \in 1..Len(EnvKeys) : ~Takes(w, k)
      PROVE  ImportInv'
  <2>1. \A j : EnvAbsent(j)' <=> EnvAbsent(j)
    BY <1>5 DEF EnvAbsent
  <2>2. ASSUME NEW k \in 1..Len(EnvKeys), EnvAbsent(k)', ~Displaced(k)'
        PROVE  \E v \in Workers : Takes(v, k)'
    <3>1. PICK v \in Workers : Takes(v, k)
      BY <2>1, <2>2, ImportMean, DisplacedStays
    <3>2. boot'[v] = boot[v]
      BY <1>5, <3>1
    <3>3. QED
      BY <2>1, <3>1, <3>2, TakesStays
  <2>3. QED
    BY <1>3, <1>5, <2>2
<1>6. ASSUME NEW w \in Workers, Boots(w), boot[w].phase \in Importing
      PROVE  ImportInv'
  <2>1. PICK i \in 1..(Len(EnvKeys) + 1) :
           ImportsFrom(w, i) /\ \A n \in 1..(i - 1) : ~EnvAbsent(n)
    BY <1>6, ImportMean
  <2>2. \A n \in 1..(i - 1) : ~EnvAbsent(n)'
    BY <1>1, <1>2, <2>1
  <2>3. \A j \in 1..(Len(EnvKeys) + 1) : ImportsFrom(w, j) => j = i
    BY <2>1, ImportPlace
  <2>4. boot[w].phase = "envcreate" => boot[w].todo # << >>
    BY DEF TypeInv, BootOK
  <2>5. boot[w].todo # << >> => i \in 1..Len(EnvKeys) /\ Head(boot[w].todo) = EnvKeys[i]
    BY <2>1, ImportPlace
  <2>6. boot[w].todo # << >> => (Conflict(Head(boot[w].todo)) <=> ~EnvAbsent(i))
    BY <2>5 DEF Conflict, EnvAbsent
  <2>7. ASSUME boot[w].todo # << >>, Goes(w, "env", Tail(boot[w].todo)), ~EnvAbsent(i)'
        PROVE  ImportInv'
    <3>1. i + 1 \in 1..(Len(EnvKeys) + 1) /\ ImportsFrom(w, i + 1)'
      BY <2>1, <2>7, ImportsOn
    <3>2. \A n \in 1..((i + 1) - 1) : ~EnvAbsent(n)'
      <4>1. \A n \in 1..((i + 1) - 1) : n \in 1..(i - 1) \/ n = i
        BY <1>1
      <4>2. QED
        BY <2>2, <2>7, <4>1
    <3>3. boot'[w].phase # "envcreate" /\ \A v \in Workers : v # w => boot'[v] = boot[v]
      BY <2>7 DEF Goes
    <3>4. QED
      BY <1>4, <3>1, <3>2, <3>3
  <2>8. CASE /\ boot[w].phase = "env" /\ boot[w].todo # << >> /\ rows' = rows
             /\ Conflict(Head(boot[w].todo)) /\ Goes(w, "env", Tail(boot[w].todo))
    BY <1>2, <2>5, <2>6, <2>7, <2>8
  <2>9. CASE /\ boot[w].phase = "env" /\ boot[w].todo # << >> /\ rows' = rows
             /\ ~Conflict(Head(boot[w].todo)) /\ Goes(w, "envcreate", boot[w].todo)
    <3>1. ImportsFrom(w, i)'
      BY <2>1, <2>9 DEF Goes, ImportsFrom
    <3>2. EnvAbsent(i)'
      BY <2>6, <2>9 DEF EnvAbsent
    <3>3. \A v \in Workers : v # w => boot'[v] = boot[v]
      BY <2>9 DEF Goes
    <3>4. QED
      BY <1>4, <2>2, <3>1, <3>2, <3>3
  <2>10. CASE /\ boot[w].phase = "envcreate" /\ ~Conflict(Head(boot[w].todo))
              /\ Goes(w, "env", Tail(boot[w].todo))
              /\ \E role \in Roles : \E n : Fresh(n, role) /\ Create(Head(boot[w].todo), n)
    <3>1. PICK l \in Labels : l = Head(boot[w].todo) /\ l = EnvKeys[i]
      BY <2>4, <2>5, <2>10, EnvLabels
    <3>2. PICK role \in Roles : \E n : Fresh(n, role) /\ Create(l, n)
      BY <2>10, <3>1
    <3>3. rows[l].st = "absent"
      BY <2>10, <3>1 DEF Conflict
    <3>4. Born(l)
      BY <3>2, <3>3, CreateMoves
    <3>5. ~EnvAbsent(i)'
      BY <3>1, <3>4 DEF Born, EnvAbsent
    <3>6. QED
      BY <2>4, <2>7, <2>10, <3>5
  <2>11. CASE /\ boot[w].phase = "envcreate" /\ Conflict(Head(boot[w].todo))
              /\ Goes(w, "dash", DashKeys) /\ rows' = rows
    <3>1. ASSUME NEW k \in 1..Len(EnvKeys), Takes(w, k) PROVE FALSE
      <4>1. PICK j \in 1..k : ImportsFrom(w, j) /\ EnvAbsent(j)
        BY <2>11, <3>1 DEF Takes, EnvAbsent
      <4>2. j \in 1..(Len(EnvKeys) + 1)
        BY <1>1
      <4>3. j = i
        BY <2>3, <4>1, <4>2
      <4>4. QED
        BY <2>4, <2>6, <2>11, <4>1, <4>3
    <3>2. boot'[w].phase \notin Importing /\ \A v \in Workers : v # w => boot'[v] = boot[v]
      BY <2>11 DEF Goes, Importing
    <3>3. QED
      BY <1>5, <2>11, <3>1, <3>2
  <2>12. CASE /\ boot[w].phase = "env" /\ boot[w].todo = << >>
              /\ Goes(w, "dash", DashKeys) /\ rows' = rows
    <3>1. i = Len(EnvKeys) + 1
      BY <2>1, <2>12, ImportPlace
    <3>2. ASSUME NEW k \in 1..Len(EnvKeys), Takes(w, k) PROVE FALSE
      <4>1. PICK j \in 1..k : ImportsFrom(w, j)
        BY <2>12, <3>2 DEF Takes
      <4>2. j \in 1..(Len(EnvKeys) + 1) /\ j # Len(EnvKeys) + 1
        BY <1>1
      <4>3. QED
        BY <2>3, <3>1, <4>1, <4>2
    <3>3. boot'[w].phase \notin Importing /\ \A v \in Workers : v # w => boot'[v] = boot[v]
      BY <2>12 DEF Goes, Importing
    <3>4. QED
      BY <1>5, <2>12, <3>2, <3>3
  <2>13. QED
    BY <1>6, <2>8, <2>9, <2>10, <2>11, <2>12, BootGoes DEF Importing
<1>7. ASSUME NEW w \in Workers, Boots(w), boot[w].phase \in Dashing
      PROVE  ImportInv'
  <2>1. /\ \A v \in Workers : v # w => boot'[v] = boot[v]
        /\ boot'[w].phase \notin Importing
    BY <1>7, BootGoes DEF Goes, Dashing, Importing
  <2>2. \A i \in 1..Len(EnvKeys) : EnvAbsent(i)' <=> EnvAbsent(i)
    BY <1>7, EnvRowsStay
  <2>3. QED
    BY <1>1, <1>7, <2>1, <2>2, ImportKept
<1>8. ASSUME NEW w \in Workers, Boots(w), boot[w].phase = "down" PROVE ImportInv'
  <2>1. Goes(w, "env", EnvKeys)
    BY <1>8, BootGoes
  <2>2. 1 \in 1..(Len(EnvKeys) + 1) /\ ImportsFrom(w, 1)'
    BY <1>1, <2>1 DEF Goes, ImportsFrom
  <2>3. boot'[w].phase # "envcreate" /\ \A v \in Workers : v # w => boot'[v] = boot[v]
    BY <2>1 DEF Goes
  <2>4. QED
    BY <1>4, <2>2, <2>3
<1>9. ASSUME NEW w \in Workers, Crash(w) PROVE ImportInv'
  <2>1. boot'[w].phase = "down" /\ \A v \in Workers : v # w => boot'[v] = boot[v]
    BY <1>9 DEF Crash, TypeInv, Down
  <2>2. \A i : Takes(w, i)'
    BY <2>1 DEF Takes
  <2>3. boot'[w].phase \notin Importing
    BY <2>1 DEF Importing
  <2>4. QED
    BY <1>3, <2>1, <2>2, <2>3
<1>10. ASSUME boot' = boot, rows' = rows PROVE ImportInv'
  <2>1. \A i \in 1..Len(EnvKeys) : EnvAbsent(i)' <=> EnvAbsent(i)
    BY <1>10 DEF EnvAbsent
  <2>2. QED
    BY <1>1, <1>10, <2>1, ImportKept
<1>11. ASSUME NEW r \in Reqs, Requests(r), ~CreateKey(r) PROVE ImportInv'
  <2>1. \A i \in 1..Len(EnvKeys) : EnvAbsent(i)' <=> EnvAbsent(i)
    BY <1>11, EnvRowsStay
  <2>2. boot' = boot
    BY <1>11, RequestsKeep
  <2>3. QED
    BY <1>1, <2>1, <2>2, ImportKept
<1>12. ASSUME NEW r \in Reqs, CreateKey(r) PROVE ImportInv'
  <2>1. PICK w \in Workers : TRUE
    BY KeysAssumption
  <2>2. boot' = boot
    BY <1>12 DEF CreateKey
  <2>3. ASSUME boot'[w].phase \in Importing
        PROVE  \E i \in 1..(Len(EnvKeys) + 1) :
                  ImportsFrom(w, i)' /\ \A n \in 1..(i - 1) : ~EnvAbsent(n)'
    <3>1. PICK i \in 1..(Len(EnvKeys) + 1) :
             ImportsFrom(w, i) /\ \A n \in 1..(i - 1) : ~EnvAbsent(n)
      BY <2>2, <2>3, ImportMean
    <3>2. \A n \in 1..(i - 1) : n \in 1..Len(EnvKeys)
      BY <1>1
    <3>3. \A n \in 1..(i - 1) : ~EnvAbsent(n)'
      BY <1>2, <3>1, <3>2
    <3>4. QED
      BY <2>2, <3>1, <3>3, ImportsStay
  <2>4. \A i \in 1..Len(EnvKeys) :
           EnvAbsent(i)' => (\E v \in Workers : Takes(v, i)') \/ Displaced(i)'
    BY <1>12, ImportRaced
  <2>5. QED
    BY <1>3, <2>2, <2>3, <2>4
<1>13. ASSUME NEW w \in Workers, Boots(w)
       PROVE  boot[w].phase \in Importing \cup Dashing \cup {"down"}
  BY <1>13, BootGoes DEF Importing, Dashing
<1>14. QED
  BY <1>6, <1>7, <1>8, <1>9, <1>10, <1>11, <1>12, <1>13, Steps DEF Tick, accessVars

----------------------------------------------------------------------------
(* The key table *)

TableInductive ==
    ResolverInductive /\ DashInv /\ AdminsInv /\ ImportInv

LEMMA TableInit == AccessInit => TableInductive
<1> SUFFICES ASSUME AccessInit PROVE TableInductive
  OBVIOUS
<1>1. ResolverInductive
  BY ResolverInit
<1>2. /\ \A w \in Workers : boot[w].phase = "down"
      /\ \A r \in Reqs : req[r].pc = "idle"
  BY DEF AccessInit, Down, Idle
<1>3. DashInv
  BY <1>2 DEF DashInv, Dashing
<1>4. AdminsInv
  <2>1. LastAdminStays
    BY TableAssumption DEF AccessInit, LastAdminStays, ActiveAdmins
  <2>2. QED
    BY <1>2, <2>1 DEF AdminsInv, Revoking
<1>5. ImportInv
  <2>1. PICK w \in Workers : TRUE
    BY KeysAssumption
  <2>2. \A i : Takes(w, i)
    BY <1>2 DEF Takes
  <2>3. QED
    BY <1>2, <2>2, ImportMean DEF Importing
<1>6. QED
  BY <1>1, <1>3, <1>4, <1>5 DEF TableInductive

LEMMA TableMeans == TableInductive => KeyTableInv
<1> SUFFICES ASSUME TableInductive PROVE KeyTableInv
  OBVIOUS
<1>1. TypeInv /\ CacheFresh /\ AdminsInv /\ ImportInv
  BY DEF TableInductive, ResolverInductive
<1>2. AccessTypeOK
  <2>1. now \in 0..MaxTime /\ rows \in [Labels -> RowType] /\ cache \in [Workers -> [Labels -> Entries]]
    BY <1>1 DEF TypeInv
  <2>2. \A w \in Workers : boot[w].phase \in
         {"down", "env", "envcreate", "dash", "dashrevoke", "dashcreate", "up"}
    BY <1>1 DEF TypeInv, BootType, Phase
  <2>3. \A r \in Reqs : req[r].pc \in {"idle", "wait", "lookup", "resume", "stranded", "create",
                                      "revoke", "count", "update", "audit", "invalidate", "done"}
    BY <1>1 DEF TypeInv, ReqType, Active, Idle
  <2>4. QED
    BY <1>1, <2>1, <2>2, <2>3 DEF AccessTypeOK, CacheFresh
<1>3. AdminRemains
  BY <1>1 DEF AdminsInv, LastAdminStays, AdminRemains
<1>4. EnvKeysImported
  <2>1. SUFFICES ASSUME \A w \in Workers : boot[w].phase = "up",
                        NEW i \in 1..Len(EnvKeys), rows[EnvKeys[i]].st = "absent", ~Displaced(i)
                 PROVE  FALSE
    BY DEF EnvKeysImported
  <2>2. PICK w \in Workers : Takes(w, i)
    BY <1>1, <2>1 DEF ImportInv
  <2>3. QED
    BY <2>1, <2>2 DEF Takes, ImportsFrom
<1>5. QED
  BY <1>2, <1>3, <1>4 DEF KeyTableInv

\* However many workers start, race and crash while admins create and revoke
\* keys: an admin key remains unless two revocations overlap or a start-up
\* replaces a hand-made one, and every key of the environment has its row once
\* all workers are up, unless a hand-made one cut an import short (sync_to_db,
\* revoke_api_key).
THEOREM KeyTableIsKept == AccessSpec => []KeyTableInv
<1>1. TableInductive /\ [AccessNext]_accessVars => TableInductive'
  <2>1. ResolverInductive /\ [AccessNext]_accessVars => ResolverInductive'
    BY TypeStep, RowsStep, CacheStep, LookupStep, AnswersStep, LeadersStep, FlightStep
       DEF ResolverInductive
  <2>2. QED
    BY <2>1, DashStep, AdminsStep, ImportStep DEF TableInductive, ResolverInductive
<1>2. QED
  BY <1>1, TableInit, TableMeans, PTL DEF AccessSpec

(***************************************************************************)
(* The token buckets.  What a key was granted since any of its grants is   *)
(* paid for by the burst and by what accrued until the bucket's last       *)
(* refill, less what the bucket still holds; a bucket that was dropped had *)
(* been idle for so long that a full one owes nothing.  A worker whose     *)
(* clock is behind takes tokens back, never more than MaxSkew seconds'     *)
(* worth beyond an empty bucket.                                           *)
(***************************************************************************)

BucketRec == [tokens : Int, last : Nat, used : Nat]
HintRec   == [at : Int, by : LWorkers]
Times     == Seq(Nat)
Accrued(x) == x * RatePerMin

RateTypes ==
    /\ clock \in Nat
    /\ skew \in [LWorkers -> 0 .. MaxSkew]
    /\ backend = "memory" => \A w \in LWorkers : skew[w] = 0
    /\ bucket \in [Keys -> BucketRec \cup {None}]
    /\ grants \in [Keys -> Times]
    /\ hint \in [Keys -> HintRec \cup {NoHint}]

\* Since the i-th grant: granted and still held, against burst and accrual.
Covered(tokens, last, g) ==
    \A i \in 1 .. Len(g) :
      (Len(g) - i + 1) * Unit + tokens <= Burst * Unit + Accrued(last - g[i])

\* No lower than a clock that is behind can take it.
Floored(tokens, last, used) ==
    /\ used <= last /\ last <= used + MaxSkew
    /\ Accrued(last) - Accrued(used + MaxSkew) <= tokens

\* A full bucket at this time would owe nothing.
Rested(g, time) == \A i \in 1 .. Len(g) : (Len(g) - i + 1) * Unit <= Accrued(time - g[i])

\* The span of any two grants.
Within(g) ==
    \A i, j \in 1 .. Len(g) :
      i <= j => (j - i + 1) * Unit <= Burst * Unit + Accrued(g[j] - g[i] + MaxSkew)

\* A refusal left the bucket as the hint was computed from it.
Told(b, h, sk) ==
    /\ h.by \in LWorkers /\ b.tokens < Unit
    /\ b.last = b.used + sk[h.by]
    /\ h.at = b.used + RetryAfter(b.tokens)

Sound(b, g, time) ==
    /\ b.used <= time
    /\ Covered(b.tokens, b.last, g)
    /\ Floored(b.tokens, b.last, b.used)

KeyOk(b, g, h, time, sk) ==
    /\ b # None => Sound(b, g, time)
    /\ b = None => Rested(g, time)
    /\ Within(g)
    /\ b # None /\ h # NoHint => Told(b, h, sk)

KeyInv(k) == KeyOk(bucket[k], grants[k], hint[k], clock, skew)

TablesInv ==
    backend = "memory" =>
      /\ order \in Seq(Keys) /\ Len(order) <= LruCap
      /\ \A i, j \in 1 .. Len(order) : order[i] = order[j] => i = j
      /\ locks = Range(order)
      /\ locks = {k \in Keys : Has(k)}

RateIInv == RateTypes /\ TablesInv /\ \A k \in Keys : KeyInv(k)

-----------------------------------------------------------------------------

\* Accrual is linear in time.
LEMMA AccruedIs ==
    /\ \A x \in Int : Accrued(x) \in Int
    /\ \A x, y \in Int : Accrued(x + y) = Accrued(x) + Accrued(y)
    /\ \A x, y \in Int : Accrued(x - y) = Accrued(x) - Accrued(y)
    /\ \A x, y \in Int : x <= y => Accrued(x) <= Accrued(y)
    /\ \A x \in Nat : 0 <= Accrued(x)
<1>0. PICK r \in Nat \ {0} : r = RatePerMin
  BY RateAssumption
<1>1. \A x \in Int : Accrued(x) = x * r
  BY <1>0 DEF Accrued
<1>2. \A x, y \in Int : (x + y) * r = x * r + y * r /\ (x - y) * r = x * r - y * r
  BY <1>0
<1>3. \A x, y \in Int : x <= y => x * r <= y * r
  BY <1>0
<1>4. \A x \in Int : x * r \in Int
  BY <1>0
<1>5. \A x \in Nat : 0 <= x * r
  BY <1>0
<1>6. QED
  BY <1>1, <1>2, <1>3, <1>4, <1>5

LEMMA AccruedInt == ASSUME NEW x \in Int PROVE Accrued(x) \in Int
  BY AccruedIs

LEMMA AccruedDiff ==
    ASSUME NEW x \in Int, NEW y \in Int PROVE Accrued(x - y) = Accrued(x) - Accrued(y)
  BY AccruedIs

LEMMA AccruedSum ==
    ASSUME NEW x \in Int, NEW y \in Int PROVE Accrued(x + y) = Accrued(x) + Accrued(y)
  BY AccruedIs

LEMMA AccruedGrows == ASSUME NEW x \in Int, NEW y \in Int, x <= y PROVE Accrued(x) <= Accrued(y)
  BY AccruedIs

LEMMA IdleIsFull ==
    /\ Burst * Unit \in Nat /\ Unit <= Burst * Unit
    /\ Burst * Unit + Accrued(MaxSkew) + Accrued(MaxSkew) <= Accrued(IdleTtl)
<1>1. PICK c \in Nat : c = MaxSkew
  BY RateAssumption
<1>2. PICK d \in Nat : d = IdleTtl
  BY RateAssumption
<1>3. Accrued(d - 2 * c) >= Burst * Unit
  BY <1>1, <1>2, RateAssumption DEF Accrued, Unit
<1>4. d - 2 * c = d - (c + c) /\ c + c \in Int /\ d \in Int
  OBVIOUS
<1>5. Accrued(d - 2 * c) = Accrued(d) - (Accrued(c) + Accrued(c))
  BY <1>4, AccruedIs
<1>6. Accrued(c) \in Int /\ Accrued(d) \in Int
  BY AccruedIs
<1>7. Burst * Unit \in Nat /\ Unit <= Burst * Unit
  BY RateAssumption DEF Unit
<1>8. QED
  BY <1>1, <1>2, <1>3, <1>5, <1>6, <1>7

\* What an acquire at time t finds in a bucket that was there.
LEMMA RefilledHas ==
    ASSUME NEW tokens \in Int, NEW last \in Nat, NEW used \in Nat, NEW g \in Times,
           Covered(tokens, last, g), Floored(tokens, last, used),
           NEW moment \in Nat, used <= moment, NEW t \in Nat, moment <= t, t <= moment + MaxSkew,
           NEW x \in Int, x <= Burst * Unit, x <= tokens + Accrued(t - last),
           x = Burst * Unit \/ x = tokens + Accrued(t - last)
    PROVE  Covered(x, t, g) /\ Floored(x, t, moment)
<1>0. PICK f \in Nat : f = Burst * Unit
  BY IdleIsFull
<1>1. PICK c \in Nat : c = MaxSkew
  BY RateAssumption
<1>2. Covered(x, t, g)
  <2> SUFFICES ASSUME NEW i \in 1 .. Len(g)
               PROVE  (Len(g) - i + 1) * Unit + x <= Burst * Unit + Accrued(t - g[i])
    BY DEF Covered
  <2>1. PICK n \in Nat : n = Len(g)
    BY DEF Times
  <2>2. PICK y \in Nat : y = g[i]
    BY DEF Times
  <2>3. (n - i + 1) * Unit + tokens <= f + Accrued(last - y)
    BY <1>0, <2>1, <2>2 DEF Covered
  <2>4. PICK at \in Int, ay \in Int, al \in Int :
               at = Accrued(t) /\ ay = Accrued(y) /\ al = Accrued(last)
    <3>1. t \in Int /\ y \in Int /\ last \in Int
      OBVIOUS
    <3>2. Accrued(t) \in Int /\ Accrued(y) \in Int /\ Accrued(last) \in Int
      BY <3>1, AccruedInt
    <3>3. QED
      BY <3>2
  <2>5. Accrued(t - y) = at - ay /\ Accrued(last - y) = al - ay /\ Accrued(t - last) = at - al
    BY <2>4, AccruedDiff, SMTT(30)
  <2>6. (n - i + 1) * Unit + x <= f + Accrued(t - y)
    <3>1. (n - i + 1) * 60 + tokens <= f + (al - ay) /\ x <= tokens + (at - al)
      BY <2>3, <2>5 DEF Unit
    <3>2. (n - i + 1) * 60 + x <= f + (at - ay)
      BY <3>1
    <3>3. QED
      BY <3>2, <2>5 DEF Unit
  <2>7. QED
    BY <1>0, <2>1, <2>2, <2>6
<1>3. Floored(x, t, moment)
  <2>1. Accrued(last) - Accrued(used + c) <= tokens
    BY <1>1 DEF Floored
  <2>2. /\ Accrued(used + c) <= Accrued(moment + c) /\ Accrued(t) <= Accrued(moment + c)
        /\ Accrued(t - last) = Accrued(t) - Accrued(last)
        /\ Accrued(t) \in Int /\ Accrued(last) \in Int /\ Accrued(moment + c) \in Int
        /\ Accrued(used + c) \in Int
    <3>1. used + c \in Int /\ moment + c \in Int /\ used + c <= moment + c /\ t <= moment + c
      BY <1>1
    <3>2. t \in Int /\ last \in Int
      OBVIOUS
    <3>3. Accrued(used + c) <= Accrued(moment + c) /\ Accrued(t) <= Accrued(moment + c)
      BY <3>1, <3>2, AccruedGrows
    <3>4. Accrued(t - last) = Accrued(t) - Accrued(last)
      BY <3>2, AccruedDiff
    <3>5. QED
      BY <3>1, <3>2, <3>3, <3>4, AccruedInt
  <2>3. Accrued(t) - Accrued(moment + c) <= x
    <3>1. CASE x = f
      BY <2>2, <3>1
    <3>2. CASE x = tokens + Accrued(t - last)
      BY <2>1, <2>2, <3>2
    <3>3. QED
      BY <1>0, <3>1, <3>2
  <2>4. QED
    BY <1>1, <2>3 DEF Floored
<1>4. QED
  BY <1>2, <1>3

\* A new bucket is full; the key owes nothing any more.
LEMMA RefilledNew ==
    ASSUME NEW g \in Times, NEW moment \in Nat, Rested(g, moment),
           NEW t \in Nat, moment <= t, t <= moment + MaxSkew
    PROVE  Covered(Burst * Unit, t, g) /\ Floored(Burst * Unit, t, moment)
<1>0. PICK f \in Nat : f = Burst * Unit
  BY IdleIsFull
<1>1. PICK c \in Nat : c = MaxSkew
  BY RateAssumption
<1>2. ASSUME NEW i \in 1 .. Len(g)
      PROVE  (Len(g) - i + 1) * Unit + f <= f + Accrued(t - g[i])
  <2>1. PICK n \in Nat : n = Len(g)
    BY DEF Times
  <2>2. PICK y \in Nat : y = g[i]
    BY DEF Times
  <2>3. (n - i + 1) * Unit <= Accrued(moment - y)
    BY <2>1, <2>2 DEF Rested
  <2>4. Accrued(moment - y) <= Accrued(t - y) /\ Accrued(moment - y) \in Int /\ Accrued(t - y) \in Int
    <3>1. moment - y \in Int /\ t - y \in Int /\ moment - y <= t - y
      OBVIOUS
    <3>2. QED
      BY <3>1, AccruedInt, AccruedGrows
  <2>5. (n - i + 1) * Unit \in Int
    BY <2>1 DEF Unit
  <2>6. (n - i + 1) * Unit + f <= f + Accrued(t - y)
    <3>1. PICK u \in Int, v \in Int, z \in Int :
                 u = (n - i + 1) * Unit /\ v = Accrued(moment - y) /\ z = Accrued(t - y)
      BY <2>4, <2>5
    <3>2. u <= v /\ v <= z
      BY <2>3, <2>4, <3>1
    <3>3. u + f <= f + z
      BY <3>2
    <3>4. QED
      BY <3>1, <3>3
  <2>7. QED
    BY <2>1, <2>2, <2>6
<1>3. Accrued(t) <= Accrued(moment + c) /\ Accrued(t) \in Int /\ Accrued(moment + c) \in Int
  <2>1. moment + c \in Int /\ t <= moment + c
    BY <1>1
  <2>2. QED
    BY <2>1, AccruedInt, AccruedGrows
<1>4. Floored(f, t, moment)
  BY <1>1, <1>3 DEF Floored
<1>5. QED
  BY <1>0, <1>2, <1>4 DEF Covered

\* A grant at time moment leaves the bucket and the history sound.
LEMMA GrantIs ==
    ASSUME NEW x \in Int, NEW t \in Nat, NEW moment \in Nat, NEW g \in Times,
           Covered(x, t, g), moment <= t, t <= moment + MaxSkew, Unit <= x, x <= Burst * Unit,
           Within(g)
    PROVE  /\ Covered(x - Unit, t, Append(g, moment)) /\ Floored(x - Unit, t, moment)
           /\ Within(Append(g, moment)) /\ Append(g, moment) \in Times
<1>0. PICK f \in Nat : f = Burst * Unit
  BY IdleIsFull
<1>1. PICK c \in Nat : c = MaxSkew
  BY RateAssumption
<1>2. PICK n \in Nat : n = Len(g)
  BY DEF Times
<1>3. PICK h : h = Append(g, moment)
  OBVIOUS
<1>4. /\ h \in Times /\ Len(h) = n + 1 /\ h[n + 1] = moment
      /\ \A i \in 1 .. n : h[i] = g[i] /\ h[i] \in Nat
  BY <1>2, <1>3 DEF Times
<1>5. ASSUME NEW i \in 1 .. n + 1
      PROVE  ((n + 1) - i + 1) * Unit + (x - Unit) <= f + Accrued(t - h[i])
  <2>1. CASE i = n + 1
    <3>1. 0 <= Accrued(t - moment) /\ Accrued(t - moment) \in Int
      <4>1. t - moment \in Nat /\ t - moment \in Int
        OBVIOUS
      <4>2. QED
        BY <4>1, AccruedIs, Zenon
    <3>2. QED
      BY <1>0, <1>4, <2>1, <3>1 DEF Unit
  <2>2. CASE i # n + 1
    <3>1. PICK y \in Nat : y = h[i] /\ y = g[i]
      BY <1>4, <2>2
    <3>2. (n - i + 1) * Unit + x <= f + Accrued(t - y)
      BY <1>0, <1>2, <2>2, <3>1 DEF Covered
    <3>3. Accrued(t - y) \in Int
      BY AccruedIs
    <3>4. QED
      BY <3>1, <3>2, <3>3 DEF Unit
  <2>3. QED
    BY <2>1, <2>2
<1>6. Accrued(t) <= Accrued(moment + c) /\ Accrued(t) \in Int /\ Accrued(moment + c) \in Int
  <2>1. moment + c \in Int /\ t <= moment + c
    BY <1>1
  <2>2. QED
    BY <2>1, AccruedInt, AccruedGrows
<1>7. Floored(x - Unit, t, moment)
  BY <1>1, <1>6 DEF Floored, Unit
<1>8. ASSUME NEW i \in 1 .. n + 1, NEW j \in 1 .. n + 1, i <= j
      PROVE  (j - i + 1) * Unit <= f + Accrued(h[j] - h[i] + c)
  <2>1. CASE j = n + 1
    <3>1. PICK y \in Nat : y = h[i]
      BY <1>4
    <3>2. ((n + 1) - i + 1) * Unit + (x - Unit) <= f + Accrued(t - y)
      BY <1>5, <3>1
    <3>3. t - y <= moment - y + c
      BY <1>1
    <3>4. /\ Accrued(t - y) <= Accrued(moment - y + c)
          /\ Accrued(t - y) \in Int /\ Accrued(moment - y + c) \in Int
      <4>1. t - y \in Int /\ moment - y + c \in Int
        OBVIOUS
      <4>2. QED
        BY <3>3, <4>1, AccruedInt, AccruedGrows
    <3>5. ((n + 1) - i + 1) * Unit <= f + Accrued(moment - y + c)
      BY <3>2, <3>4 DEF Unit
    <3>6. QED
      BY <1>4, <2>1, <3>1, <3>5
  <2>2. CASE j # n + 1
    <3>1. i \in 1 .. n /\ j \in 1 .. n
      BY <1>8, <2>2
    <3>2. (j - i + 1) * Unit <= Burst * Unit + Accrued(g[j] - g[i] + MaxSkew)
      BY <1>2, <1>8, <3>1 DEF Within
    <3>3. QED
      BY <1>0, <1>1, <1>4, <3>1, <3>2
  <2>3. QED
    BY <2>1, <2>2
<1>9. Covered(x - Unit, t, h)
  BY <1>0, <1>4, <1>5 DEF Covered
<1>10. Within(h)
  BY <1>0, <1>1, <1>4, <1>8 DEF Within
<1>11. QED
  BY <1>3, <1>4, <1>7, <1>9, <1>10

\* A bucket that was idle for IdleTtl seconds owes nothing.
LEMMA IdleRests ==
    ASSUME NEW tokens \in Int, NEW last \in Nat, NEW used \in Nat, NEW g \in Times,
           Covered(tokens, last, g), Floored(tokens, last, used),
           NEW moment \in Nat, used + IdleTtl <= moment
    PROVE  Rested(g, moment)
<1>0. PICK f \in Nat : f = Burst * Unit
  BY IdleIsFull
<1>1. PICK c \in Nat : c = MaxSkew
  BY RateAssumption
<1>2. PICK d \in Nat : d = IdleTtl
  BY RateAssumption
<1> SUFFICES ASSUME NEW i \in 1 .. Len(g)
             PROVE  (Len(g) - i + 1) * Unit <= Accrued(moment - g[i])
  BY DEF Rested
<1>3. PICK n \in Nat : n = Len(g)
  BY DEF Times
<1>4. PICK y \in Nat : y = g[i]
  BY DEF Times
<1>5. (n - i + 1) * Unit + tokens <= f + Accrued(last - y)
  BY <1>0, <1>3, <1>4 DEF Covered
<1>6. Accrued(last) - Accrued(used + c) <= tokens
  BY <1>1 DEF Floored
<1>7. f + Accrued(c) + Accrued(c) <= Accrued(d)
  BY <1>0, <1>1, <1>2, IdleIsFull
<1>8. PICK al \in Int, ay \in Int, an \in Int, au \in Int, ac \in Int, ad \in Int :
        /\ al = Accrued(last) /\ ay = Accrued(y) /\ an = Accrued(moment)
        /\ au = Accrued(used) /\ ac = Accrued(c) /\ ad = Accrued(d)
  <2>1. last \in Int /\ y \in Int /\ moment \in Int /\ used \in Int /\ c \in Int /\ d \in Int
    OBVIOUS
  <2>2. /\ Accrued(last) \in Int /\ Accrued(y) \in Int /\ Accrued(moment) \in Int
        /\ Accrued(used) \in Int /\ Accrued(c) \in Int /\ Accrued(d) \in Int
    BY <2>1, AccruedInt
  <2>3. QED
    BY <2>2
<1>9. /\ Accrued(last - y) = al - ay /\ Accrued(moment - y) = an - ay
      /\ Accrued(used + c) = au + ac /\ Accrued(used + d) = au + ad
  <2>1. last \in Int /\ y \in Int /\ moment \in Int /\ used \in Int /\ c \in Int /\ d \in Int
    OBVIOUS
  <2>2. Accrued(last - y) = al - ay /\ Accrued(moment - y) = an - ay
    BY <2>1, <1>8, AccruedDiff
  <2>3. Accrued(used + c) = au + ac /\ Accrued(used + d) = au + ad
    BY <2>1, <1>8, AccruedSum
  <2>4. QED
    BY <2>2, <2>3
<1>9a. Accrued(used + d) <= Accrued(moment)
  BY <1>2, AccruedGrows
<1>9b. Accrued(0) <= Accrued(c) /\ Accrued(0) = 0
  BY AccruedGrows, RateAssumption DEF Accrued
<1>10. (n - i + 1) * Unit <= Accrued(moment - y)
  <2>1. /\ (n - i + 1) * 60 + tokens <= f + (al - ay) /\ al - (au + ac) <= tokens
        /\ f + ac + ac <= ad /\ au + ad <= an /\ 0 <= ac
    BY <1>5, <1>6, <1>7, <1>8, <1>9, <1>9a, <1>9b DEF Unit
  <2>2. (n - i + 1) * 60 <= an - ay
    BY <2>1
  <2>3. QED
    BY <2>2, <1>9 DEF Unit
<1>11. QED
  BY <1>3, <1>4, <1>10

LEMMA NoGrants == ASSUME NEW time \in Nat PROVE Rested(<<>>, time) /\ Within(<<>>) /\ <<>> \in Times
  BY DEF Rested, Within, Times

LEMMA RealBucket ==
    ASSUME NEW b \in BucketRec
    PROVE  b # None /\ b.tokens \in Int /\ b.last \in Nat /\ b.used \in Nat
<1>1. b.used \in Nat /\ b.tokens \in Int /\ b.last \in Nat
  BY DEF BucketRec
<1>2. None.used = -1
  BY DEF None
<1>3. QED
  BY <1>1, <1>2

\* What an acquire finds: no more than a full bucket, and covered.
LEMMA RefilledIs ==
    ASSUME RateTypes, NEW k \in Keys, KeyInv(k), NEW w \in LWorkers, NEW t \in Nat,
           t = clock + skew[w]
    PROVE  /\ Refilled(k, t) \in Int /\ Refilled(k, t) <= Burst * Unit
           /\ Covered(Refilled(k, t), t, grants[k]) /\ Floored(Refilled(k, t), t, clock)
<1>0. PICK f \in Nat : f = Burst * Unit
  BY IdleIsFull
<1>1. PICK time \in Nat : time = clock
  BY DEF RateTypes
<1>2. time <= t /\ t <= time + MaxSkew
  BY <1>1, RateAssumption DEF RateTypes
<1>3. PICK g \in Times : g = grants[k]
  BY DEF RateTypes
<1>4. PICK x : x = Refilled(k, t)
  OBVIOUS
<1>5. CASE Has(k)
  <2>1. PICK b \in BucketRec : b = bucket[k]
    BY <1>5 DEF RateTypes, Has
  <2>2. PICK tokens \in Int, last \in Nat, used \in Nat :
               tokens = b.tokens /\ last = b.last /\ used = b.used
    BY RealBucket
  <2>3. used <= time /\ Covered(tokens, last, g) /\ Floored(tokens, last, used)
    BY <1>1, <1>3, <1>5, <2>1, <2>2 DEF KeyInv, KeyOk, Sound, Has
  <2>4. PICK sum \in Int : sum = tokens + Accrued(t - last)
    <3>1. t - last \in Int
      OBVIOUS
    <3>2. Accrued(t - last) \in Int
      BY <3>1, AccruedInt
    <3>3. QED
      BY <3>2
  <2>5. x = IF sum < f THEN sum ELSE f
    BY <1>0, <1>4, <1>5, <2>1, <2>2, <2>4 DEF Refilled, Accrued
  <2>6. x \in Int /\ x <= f /\ x <= sum /\ (x = f \/ x = sum)
    BY <2>5
  <2>7. Covered(x, t, g) /\ Floored(x, t, time)
    BY <1>0, <1>2, <2>3, <2>4, <2>6, RefilledHas
  <2>8. QED
    BY <1>0, <1>1, <1>3, <1>4, <2>6, <2>7
<1>6. CASE ~Has(k)
  <2>1. Rested(g, time)
    BY <1>1, <1>3, <1>6 DEF KeyInv, KeyOk, Has
  <2>2. x = f
    BY <1>0, <1>4, <1>6 DEF Refilled
  <2>3. Covered(Burst * Unit, t, g) /\ Floored(Burst * Unit, t, time)
    BY <1>2, <2>1, RefilledNew
  <2>4. QED
    BY <1>0, <1>1, <1>3, <1>4, <2>2, <2>3
<1>7. QED
  BY <1>5, <1>6

\* What an acquire leaves of its key.
LEMMA SpentIs ==
    ASSUME RateTypes, NEW k \in Keys, KeyInv(k), NEW w \in LWorkers, NEW t \in Nat,
           t = clock + skew[w], NEW gone, k \notin gone, Spend(w, k, t, gone)
    PROVE  /\ bucket'[k] \in BucketRec /\ grants'[k] \in Times /\ hint'[k] \in HintRec \cup {NoHint}
           /\ KeyOk(bucket'[k], grants'[k], hint'[k], clock, skew)
<1>1. PICK time \in Nat : time = clock
  BY DEF RateTypes
<1>2. time <= t /\ t <= time + MaxSkew
  BY <1>1, RateAssumption DEF RateTypes
<1>3. PICK g \in Times : g = grants[k]
  BY DEF RateTypes
<1>4. PICK x \in Int : x = Refilled(k, t)
  BY RefilledIs
<1>5. x <= Burst * Unit /\ Covered(x, t, g) /\ Floored(x, t, time)
  BY <1>1, <1>3, <1>4, RefilledIs
<1>6. Within(g)
  BY <1>3 DEF KeyInv, KeyOk
<1>7. CASE Unit <= x
  <2>1. PICK y \in Int : y = x - Unit
    BY DEF Unit
  <2>2. PICK b \in BucketRec : b = [tokens |-> y, last |-> t, used |-> time]
    BY DEF BucketRec
  <2>3. bucket'[k] = b
    BY <1>1, <1>4, <1>7, <2>1, <2>2 DEF Spend
  <2>4. grants'[k] = Append(g, time)
    BY <1>1, <1>3, <1>4, <1>7 DEF Spend
  <2>5. hint'[k] = NoHint
    BY <1>4, <1>7 DEF Spend, RateTypes
  <2>6. /\ Covered(y, t, Append(g, time)) /\ Floored(y, t, time)
        /\ Within(Append(g, time)) /\ Append(g, time) \in Times
    BY <1>2, <1>5, <1>6, <1>7, <2>1, GrantIs
  <2>7. b # None
    BY RealBucket
  <2>8. Sound(b, Append(g, time), time)
    BY <2>2, <2>6 DEF Sound
  <2>9. KeyOk(b, Append(g, time), NoHint, time, skew)
    BY <2>6, <2>7, <2>8 DEF KeyOk
  <2>10. QED
    BY <1>1, <2>3, <2>4, <2>5, <2>6, <2>9
<1>8. CASE ~(Unit <= x)
  <2>1. PICK b \in BucketRec : b = [tokens |-> x, last |-> t, used |-> time]
    BY DEF BucketRec
  <2>2. bucket'[k] = b
    BY <1>1, <1>4, <1>8, <2>1 DEF Spend, Unit
  <2>3. grants'[k] = g
    BY <1>3, <1>4, <1>8 DEF Spend, Unit
  <2>4. PICK h : h = [at |-> time + RetryAfter(x), by |-> w]
    OBVIOUS
  <2>5. hint'[k] = h
    BY <1>1, <1>4, <1>8, <2>4 DEF Spend, Unit, RateTypes
  <2>6. RetryAfter(x) \in Int
    BY RateAssumption DEF RetryAfter, Unit
  <2>7. h \in HintRec /\ h.at = time + RetryAfter(x) /\ h.by = w
    BY <2>4, <2>6 DEF HintRec
  <2>8. b # None
    BY RealBucket
  <2>9. Sound(b, g, time)
    BY <1>5, <2>1 DEF Sound
  <2>10. b.tokens = x /\ b.last = t /\ b.used = time /\ x < Unit
    BY <2>1, <1>8 DEF Unit
  <2>11. Told(b, h, skew)
    BY <1>1, <2>7, <2>10 DEF Told
  <2>12. KeyOk(b, g, h, time, skew)
    BY <1>6, <2>8, <2>9, <2>11 DEF KeyOk
  <2>13. QED
    BY <1>1, <2>2, <2>3, <2>5, <2>7, <2>12
<1>9. QED
  BY <1>7, <1>8

\* What an acquire leaves of every key, and of the shapes.
LEMMA SpendStep ==
    ASSUME RateTypes, \A k \in Keys : KeyInv(k), NEW k \in Keys, NEW w \in LWorkers, NEW t \in Nat,
           t = clock + skew[w], NEW gone, k \notin gone, Spend(w, k, t, gone),
           UNCHANGED <<backend, clock, skew>>
    PROVE  /\ RateTypes' /\ \A x \in Keys : KeyInv(x)'
           /\ \A x \in Keys : Has(x)' <=> x = k \/ (Has(x) /\ x \notin gone)
<1>1. /\ bucket'[k] \in BucketRec /\ grants'[k] \in Times /\ hint'[k] \in HintRec \cup {NoHint}
      /\ KeyOk(bucket'[k], grants'[k], hint'[k], clock, skew)
  BY SpentIs
<1>2. ASSUME NEW x \in Keys, x # k, x \in gone
      PROVE  /\ bucket'[x] = None /\ grants'[x] = <<>> /\ hint'[x] = hint[x]
             /\ KeyOk(bucket'[x], grants'[x], hint'[x], clock, skew) /\ <<>> \in Times
  <2>1. bucket'[x] = None /\ grants'[x] = <<>> /\ hint'[x] = hint[x]
    BY <1>2 DEF Spend, RateTypes
  <2>2. clock \in Nat
    BY DEF RateTypes
  <2>3. QED
    BY <2>1, <2>2, NoGrants DEF KeyOk
<1>3. ASSUME NEW x \in Keys, x # k, x \notin gone
      PROVE  /\ bucket'[x] = bucket[x] /\ grants'[x] = grants[x] /\ hint'[x] = hint[x]
             /\ KeyOk(bucket'[x], grants'[x], hint'[x], clock, skew)
  <2>1. bucket'[x] = bucket[x] /\ grants'[x] = grants[x] /\ hint'[x] = hint[x]
    BY <1>3 DEF Spend, RateTypes
  <2>2. QED
    BY <2>1 DEF KeyInv
<1>4. /\ DOMAIN bucket' = Keys /\ bucket' = [x \in Keys |-> bucket'[x]]
      /\ DOMAIN grants' = Keys /\ grants' = [x \in Keys |-> grants'[x]]
      /\ DOMAIN hint' = Keys /\ hint' = [x \in Keys |-> hint'[x]]
  BY DEF Spend, RateTypes
<1>5. ASSUME NEW x \in Keys
      PROVE  /\ bucket'[x] \in BucketRec \cup {None} /\ grants'[x] \in Times
             /\ hint'[x] \in HintRec \cup {NoHint}
             /\ KeyOk(bucket'[x], grants'[x], hint'[x], clock, skew)
  <2>1. /\ bucket[x] \in BucketRec \cup {None} /\ grants[x] \in Times
        /\ hint[x] \in HintRec \cup {NoHint}
    BY DEF RateTypes
  <2>2. QED
    BY <1>1, <1>2, <1>3, <2>1
<1>6. /\ bucket' \in [Keys -> BucketRec \cup {None}] /\ grants' \in [Keys -> Times]
      /\ hint' \in [Keys -> HintRec \cup {NoHint}]
  BY <1>4, <1>5
<1>7. RateTypes'
  BY <1>6 DEF RateTypes
<1>8. \A x \in Keys : KeyInv(x)'
  BY <1>5 DEF KeyInv
<1>9. ASSUME NEW x \in Keys PROVE Has(x)' <=> x = k \/ (Has(x) /\ x \notin gone)
  <2>1. bucket'[k] # None
    BY <1>1, RealBucket
  <2>2. QED
    BY <1>2, <1>3, <2>1 DEF Has
<1>10. QED
  BY <1>7, <1>8, <1>9

LEMMA RateInitInv == RateInit => RateIInv
<1> SUFFICES ASSUME RateInit PROVE RateIInv
  OBVIOUS
<1>1. RateTypes
  BY RateAssumption DEF RateInit, RateTypes, Times
<1>2. TablesInv
  BY RateAssumption DEF RateInit, TablesInv, Has, Range
<1>3. ASSUME NEW k \in Keys PROVE KeyInv(k)
  <2>1. bucket[k] = None /\ grants[k] = <<>> /\ clock \in Nat
    BY DEF RateInit
  <2>2. QED
    BY <2>1, NoGrants DEF KeyInv, KeyOk
<1>4. QED
  BY <1>1, <1>2, <1>3 DEF RateIInv

LEMMA AcquireLocalInv ==
    ASSUME RateIInv, NEW w \in LWorkers, NEW k \in Keys, AcquireLocal(w, k)
    PROVE  RateIInv'
<1> DEFINE gone == Evicted(k)
<1>1. /\ backend = "memory" /\ Spend(w, k, clock, gone)
      /\ order' = Append(Without(order, gone \cup {k}), k)
      /\ locks' = (locks \ gone) \cup {k} /\ UNCHANGED <<backend, clock, skew>>
  BY DEF AcquireLocal
<1>2. /\ order \in Seq(Keys) /\ Len(order) <= LruCap /\ locks = Range(order)
      /\ \A i, j \in 1 .. Len(order) : order[i] = order[j] => i = j
      /\ locks = {x \in Keys : Has(x)}
  BY <1>1 DEF RateIInv, TablesInv
<1>3. PICK n \in Nat : n = Len(order)
  BY <1>2
<1>4. \A x : x \in locks <=> \E i \in 1 .. n : x = order[i]
  BY <1>2, <1>3 DEF Range
<1>5. \/ gone = {} /\ (k \in locks \/ n < LruCap)
      \/ k \notin locks /\ 1 <= n /\ gone = {order[1]}
  BY <1>2, <1>3, RateAssumption DEF Evicted
<1>6. k \notin gone
  BY <1>4, <1>5
<1>7. /\ RateTypes' /\ \A x \in Keys : KeyInv(x)'
      /\ \A x \in Keys : Has(x)' <=> x = k \/ (Has(x) /\ x \notin gone)
  <2>1. clock \in Nat /\ clock = clock + skew[w]
    BY <1>1 DEF RateIInv, RateTypes
  <2> HIDE DEF gone
  <2>2. QED
    BY <1>1, <1>6, <2>1, SpendStep DEF RateIInv
<1> HIDE DEF gone
<1>8. PICK q : q = Without(order, gone \cup {k})
  OBVIOUS
<1>9. /\ q \in Seq(Keys) /\ Len(q) <= n /\ Range(q) = Range(order) \ (gone \cup {k})
      /\ \A i, j \in 1 .. Len(q) : q[i] = q[j] => i = j
      /\ (\E i \in 1 .. n : order[i] \in gone \cup {k}) => Len(q) < n
  <2>1. PICK S : S = gone \cup {k}
    OBVIOUS
  <2>2. /\ Without(order, S) \in Seq(Keys) /\ Len(Without(order, S)) <= Len(order)
        /\ \A i, j \in 1 .. Len(Without(order, S)) :
             Without(order, S)[i] = Without(order, S)[j] => i = j
        /\ Range(Without(order, S)) = Range(order) \ S
        /\ (\E i \in 1 .. Len(order) : order[i] \in S) => Len(Without(order, S)) < Len(order)
    BY <1>2, WithoutIs, Zenon
  <2>3. q = Without(order, S)
    BY <1>8, <2>1
  <2>4. QED
    BY <1>3, <2>1, <2>2, <2>3
<1>10. Len(q) + 1 <= LruCap
  <2>1. PICK m \in Nat : m = Len(q)
    BY <1>9
  <2>2. LruCap \in Nat /\ n <= LruCap
    BY <1>2, <1>3, RateAssumption
  <2>3. CASE k \in locks
    BY <1>4, <1>9, <2>1, <2>2, <2>3
  <2>4. CASE k \notin locks /\ n < LruCap
    BY <1>9, <2>1, <2>2, <2>4
  <2>5. CASE k \notin locks /\ ~(n < LruCap)
    <3>1. 1 \in 1 .. n /\ order[1] \in gone
      BY <1>5, <2>2, <2>5
    <3>2. m < n
      BY <1>9, <2>1, <3>1
    <3>3. QED
      BY <2>1, <2>2, <3>2
  <2>6. QED
    BY <2>3, <2>4, <2>5
<1>11. /\ order' \in Seq(Keys) /\ Len(order') = Len(q) + 1 /\ Range(order') = Range(q) \cup {k}
       /\ \A i, j \in 1 .. Len(order') : order'[i] = order'[j] => i = j
  <2>1. k \notin Range(q)
    BY <1>9
  <2>2. order' = Append(q, k)
    BY <1>1, <1>8
  <2>3. QED
    BY <1>9, <2>1, <2>2, AppendNew
<1>12. locks' = Range(order') /\ locks' = {x \in Keys : Has(x)'}
  <2>1. Range(order') = (locks \ (gone \cup {k})) \cup {k}
    BY <1>2, <1>9, <1>11
  <2>2. locks' = Range(order')
    BY <1>1, <1>6, <2>1
  <2>3. ASSUME NEW x PROVE x \in locks' <=> x \in {y \in Keys : Has(y)'}
    BY <1>1, <1>2, <1>7
  <2>4. QED
    BY <2>2, <2>3
<1>13. TablesInv'
  BY <1>10, <1>11, <1>12 DEF TablesInv
<1>14. QED
  BY <1>7, <1>13 DEF RateIInv

LEMMA AcquireSharedInv ==
    ASSUME RateIInv, NEW w \in LWorkers, NEW k \in Keys, AcquireShared(w, k)
    PROVE  RateIInv'
<1>1. PICK t \in Nat : t = clock + skew[w]
  BY DEF RateIInv, RateTypes
<1>2. backend = "redis" /\ Spend(w, k, t, {}) /\ UNCHANGED <<backend, clock, skew>>
  BY <1>1 DEF AcquireShared
<1>3. RateTypes' /\ \A x \in Keys : KeyInv(x)'
  BY <1>1, <1>2, SpendStep DEF RateIInv
<1>4. TablesInv'
  BY <1>2 DEF TablesInv
<1>5. QED
  BY <1>3, <1>4 DEF RateIInv

LEMMA AcquireUnansweredInv ==
    ASSUME RateIInv, NEW w \in LWorkers, NEW k \in Keys, AcquireUnanswered(w, k)
    PROVE  RateIInv'
<1>1. /\ UNCHANGED <<backend, clock, skew, bucket, order, locks, grants>>
      /\ hint' = [hint EXCEPT ![k] = NoHint]
  BY DEF AcquireUnanswered
<1>2. RateTypes'
  BY <1>1 DEF RateIInv, RateTypes
<1>3. TablesInv'
  BY <1>1 DEF RateIInv, TablesInv, Has
<1>4. ASSUME NEW x \in Keys PROVE KeyInv(x)'
  <2>1. KeyOk(bucket[x], grants[x], hint[x], clock, skew)
    BY DEF RateIInv, KeyInv
  <2>2. hint'[x] = hint[x] \/ hint'[x] = NoHint
    BY <1>1 DEF RateIInv, RateTypes
  <2>3. KeyOk(bucket[x], grants[x], hint'[x], clock, skew)
    BY <2>1, <2>2 DEF KeyOk
  <2>4. QED
    BY <1>1, <2>3 DEF KeyInv
<1>5. QED
  BY <1>2, <1>3, <1>4 DEF RateIInv

\* A bucket that is dropped after IdleTtl seconds leaves its key sound.
LEMMA DropIs ==
    ASSUME NEW b \in BucketRec, NEW g \in Times, NEW h, NEW moment \in Nat, NEW time \in Nat, NEW sk,
           KeyOk(b, g, h, moment, sk), b.used + IdleTtl <= time
    PROVE  KeyOk(None, g, h, time, sk)
<1>1. b # None /\ b.tokens \in Int /\ b.last \in Nat /\ b.used \in Nat
  BY RealBucket
<1>2. Covered(b.tokens, b.last, g) /\ Floored(b.tokens, b.last, b.used) /\ Within(g)
  BY <1>1 DEF KeyOk, Sound
<1>3. Rested(g, time)
  BY <1>1, <1>2, IdleRests
<1>4. QED
  BY <1>2, <1>3 DEF KeyOk

LEMMA SweepInv == ASSUME RateIInv, Sweep PROVE RateIInv'
<1>1. /\ backend = "memory" /\ order' = Without(order, Stale) /\ locks' = locks \ Stale
      /\ UNCHANGED <<backend, clock, skew, grants, hint>>
      /\ bucket' = [x \in Keys |-> IF x \in Stale THEN None ELSE bucket[x]]
  BY DEF Sweep
<1>2. RateTypes /\ \A x \in Keys : KeyInv(x)
  BY DEF RateIInv
<1>3. RateTypes'
  BY <1>1, <1>2 DEF RateTypes
<1>4. ASSUME NEW x \in Keys PROVE KeyInv(x)'
  <2>1. CASE x \in Stale
    <3>1. PICK b \in BucketRec : b = bucket[x]
      BY <1>2, <2>1 DEF RateTypes, Stale, Has
    <3>2. PICK last \in Nat, used \in Nat : last = b.last /\ used = b.used
      BY RealBucket
    <3>3. clock \in Nat /\ grants[x] \in Times
      BY <1>2 DEF RateTypes
    <3>4. used <= last
      <4>1. b # None
        BY RealBucket
      <4>2. QED
        BY <1>2, <3>1, <3>2, <4>1 DEF KeyInv, KeyOk, Sound, Floored
    <3>5. clock - last > IdleTtl
      BY <2>1, <3>1, <3>2 DEF Stale
    <3>6. used + IdleTtl <= clock
      BY <3>3, <3>4, <3>5, RateAssumption
    <3>7. KeyOk(b, grants[x], hint[x], clock, skew)
      BY <1>2, <3>1 DEF KeyInv
    <3>8. KeyOk(None, grants[x], hint[x], clock, skew)
      BY <3>2, <3>3, <3>6, <3>7, DropIs
    <3>9. bucket'[x] = None
      BY <1>1, <2>1
    <3>10. QED
      BY <1>1, <3>8, <3>9 DEF KeyInv
  <2>2. CASE x \notin Stale
    BY <1>1, <1>2, <2>2 DEF KeyInv
  <2>3. QED
    BY <2>1, <2>2
<1>5. /\ order \in Seq(Keys) /\ Len(order) <= LruCap /\ locks = Range(order)
      /\ \A i, j \in 1 .. Len(order) : order[i] = order[j] => i = j
      /\ locks = {x \in Keys : Has(x)}
  BY <1>1 DEF RateIInv, TablesInv
<1>6. /\ order' \in Seq(Keys) /\ Len(order') <= Len(order) /\ Range(order') = Range(order) \ Stale
      /\ \A i, j \in 1 .. Len(order') : order'[i] = order'[j] => i = j
  <2>1. PICK S : S = Stale
    OBVIOUS
  <2>2. /\ Without(order, S) \in Seq(Keys) /\ Len(Without(order, S)) <= Len(order)
        /\ \A i, j \in 1 .. Len(Without(order, S)) :
             Without(order, S)[i] = Without(order, S)[j] => i = j
        /\ Range(Without(order, S)) = Range(order) \ S
    BY <1>5, WithoutIs, Zenon
  <2>3. order' = Without(order, S)
    BY <1>1, <2>1
  <2>4. QED
    BY <2>1, <2>2, <2>3
<1>7. Len(order') <= LruCap
  BY <1>5, <1>6, RateAssumption
<1>8. locks' = {x \in Keys : Has(x)'}
  <2>1. ASSUME NEW x \in Keys PROVE Has(x)' <=> Has(x) /\ x \notin Stale
    BY <1>1 DEF Has
  <2>2. QED
    BY <1>1, <1>5, <2>1
<1>9. TablesInv'
  BY <1>1, <1>5, <1>6, <1>7, <1>8 DEF TablesInv
<1>10. QED
  BY <1>3, <1>4, <1>9 DEF RateIInv

\* Time alone leaves a key sound.
LEMMA LaterIs ==
    ASSUME NEW b \in BucketRec \cup {None}, NEW g \in Times, NEW h, NEW moment \in Nat, NEW sk,
           KeyOk(b, g, h, moment, sk)
    PROVE  KeyOk(b, g, h, moment + 1, sk)
<1>1. CASE b = None
  <2>1. ASSUME NEW i \in 1 .. Len(g) PROVE (Len(g) - i + 1) * Unit <= Accrued((moment + 1) - g[i])
    <3>1. PICK n \in Nat : n = Len(g)
      BY DEF Times
    <3>2. PICK y \in Nat : y = g[i]
      BY DEF Times
    <3>3. (n - i + 1) * Unit <= Accrued(moment - y)
      BY <1>1, <3>1, <3>2 DEF KeyOk, Rested
    <3>4. moment - y \in Int /\ (moment + 1) - y \in Int /\ moment - y <= (moment + 1) - y
      OBVIOUS
    <3>5. /\ Accrued(moment - y) <= Accrued((moment + 1) - y)
          /\ Accrued(moment - y) \in Int /\ Accrued((moment + 1) - y) \in Int
      BY <3>4, AccruedInt, AccruedGrows
    <3>6. (n - i + 1) * Unit \in Int
      BY <3>1 DEF Unit
    <3>7. (n - i + 1) * Unit <= Accrued((moment + 1) - y)
      BY <3>3, <3>5, <3>6
    <3>8. QED
      BY <3>1, <3>2, <3>7
  <2>2. Rested(g, moment + 1)
    BY <2>1 DEF Rested
  <2>3. QED
    BY <1>1, <2>2 DEF KeyOk
<1>2. CASE b # None
  <2>1. b \in BucketRec
    BY <1>2
  <2>2. b.used \in Nat /\ b.used <= moment
    BY <1>2, <2>1, RealBucket DEF KeyOk, Sound
  <2>3. b.used <= moment + 1
    BY <2>2
  <2>4. Sound(b, g, moment + 1)
    BY <1>2, <2>3 DEF KeyOk, Sound
  <2>5. QED
    BY <1>2, <2>4 DEF KeyOk
<1>3. QED
  BY <1>1, <1>2

LEMMA SecondInv == ASSUME RateIInv, Second PROVE RateIInv'
<1> DEFINE over(x) == backend = "redis" /\ Has(x) /\ clock + 1 >= bucket[x].used + IdleTtl
<1>1. /\ clock' = clock + 1 /\ UNCHANGED <<backend, skew, order, locks, grants, hint>>
      /\ bucket' = [x \in Keys |-> IF over(x) THEN None ELSE bucket[x]]
  BY DEF Second
<1> HIDE DEF over
<1>2. RateTypes /\ \A x \in Keys : KeyInv(x)
  BY DEF RateIInv
<1>3. RateTypes'
  BY <1>1, <1>2 DEF RateTypes
<1>4. ASSUME NEW x \in Keys PROVE KeyInv(x)'
  <2>1. PICK time \in Nat : time = clock
    BY <1>2 DEF RateTypes
  <2>2. grants[x] \in Times /\ bucket[x] \in BucketRec \cup {None}
    BY <1>2 DEF RateTypes
  <2>3. KeyOk(bucket[x], grants[x], hint[x], time, skew)
    BY <1>2, <2>1 DEF KeyInv
  <2>4. CASE over(x)
    <3>1. PICK b \in BucketRec : b = bucket[x]
      BY <2>2, <2>4 DEF over, Has
    <3>2. PICK used \in Nat : used = b.used
      BY RealBucket
    <3>3. used + IdleTtl <= time + 1 /\ time + 1 \in Nat
      BY <2>1, <2>4, <3>1, <3>2, RateAssumption DEF over
    <3>4. KeyOk(None, grants[x], hint[x], time + 1, skew)
      BY <2>2, <2>3, <3>1, <3>2, <3>3, DropIs
    <3>5. bucket'[x] = None
      BY <1>1, <2>4
    <3>6. QED
      BY <1>1, <2>1, <3>4, <3>5 DEF KeyInv
  <2>5. CASE ~over(x)
    <3>1. KeyOk(bucket[x], grants[x], hint[x], time + 1, skew)
      BY <2>2, <2>3, LaterIs
    <3>2. bucket'[x] = bucket[x]
      BY <1>1, <2>5
    <3>3. QED
      BY <1>1, <2>1, <3>1, <3>2 DEF KeyInv
  <2>6. QED
    BY <2>4, <2>5
<1>5. TablesInv'
  <2>1. CASE backend = "memory"
    <3>1. bucket' = [x \in Keys |-> bucket[x]] /\ bucket = [x \in Keys |-> bucket[x]]
      BY <1>1, <1>2, <2>1 DEF over, RateTypes
    <3>2. bucket' = bucket
      BY <3>1
    <3>3. QED
      BY <1>1, <3>2 DEF TablesInv, RateIInv, Has
  <2>2. CASE backend # "memory"
    BY <1>1, <2>2 DEF TablesInv
  <2>3. QED
    BY <2>1, <2>2
<1>6. QED
  BY <1>3, <1>4, <1>5 DEF RateIInv

LEMMA RateNextInv == RateIInv /\ [RateNext]_rateVars => RateIInv'
<1> SUFFICES ASSUME RateIInv, [RateNext]_rateVars PROVE RateIInv'
  OBVIOUS
<1>1. CASE Second
  BY <1>1, SecondInv
<1>2. CASE Sweep
  BY <1>2, SweepInv
<1>3. ASSUME NEW w \in LWorkers, NEW k \in Keys, AcquireLocal(w, k) PROVE RateIInv'
  BY <1>3, AcquireLocalInv
<1>4. ASSUME NEW w \in LWorkers, NEW k \in Keys, AcquireShared(w, k) PROVE RateIInv'
  BY <1>4, AcquireSharedInv
<1>4a. ASSUME NEW w \in LWorkers, NEW k \in Keys, AcquireUnanswered(w, k) PROVE RateIInv'
  BY <1>4a, AcquireUnansweredInv
<1>5. CASE UNCHANGED rateVars
  <2>1. UNCHANGED <<backend, clock, skew, bucket, order, locks, grants, hint>>
    BY <1>5 DEF rateVars
  <2>2. RateTypes' /\ TablesInv'
    BY <2>1 DEF RateIInv, RateTypes, TablesInv, Has
  <2>3. \A k \in Keys : KeyInv(k)'
    BY <2>1 DEF RateIInv, KeyInv
  <2>4. QED
    BY <2>2, <2>3 DEF RateIInv
<1>6. QED
  BY <1>1, <1>2, <1>3, <1>4, <1>4a, <1>5 DEF RateNext

\* Waiting as long as the hint says brings at least one token.
LEMMA HintIs ==
    ASSUME RateTypes, NEW k \in Keys, KeyInv(k), hint[k] # NoHint, clock >= hint[k].at
    PROVE  Refilled(k, clock + skew[hint[k].by]) >= Unit
<1>0. Unit <= Burst * Unit /\ Burst * Unit \in Nat
  BY IdleIsFull
<1>1. CASE ~Has(k)
  BY <1>0, <1>1 DEF Refilled, Unit
<1>2. CASE Has(k)
  <2>1. PICK b \in BucketRec : b = bucket[k]
    BY <1>2 DEF RateTypes, Has
  <2>2. PICK tokens \in Int, last \in Nat, used \in Nat :
               tokens = b.tokens /\ last = b.last /\ used = b.used
    BY RealBucket
  <2>3. Told(b, hint[k], skew)
    BY <1>2, <2>1 DEF KeyInv, KeyOk, Has
  <2>4. PICK w \in LWorkers : w = hint[k].by
    BY <2>3 DEF Told
  <2>5. PICK s \in Nat : s = skew[w]
    BY DEF RateTypes
  <2>6. PICK time \in Nat : time = clock
    BY DEF RateTypes
  <2>7. PICK r \in Nat \ {0} : r = RatePerMin
    BY RateAssumption
  <2>8. PICK d \in Int : d = (60 - tokens) \div r
    BY <2>7
  <2>9. tokens < 60 /\ last = used + s /\ used + d + 1 <= time
    <3>1. hint[k].at = used + ((60 - tokens) \div r + 1)
      BY <2>2, <2>3, <2>7 DEF Told, RetryAfter, Unit
    <3>2. hint[k].at = used + (d + 1)
      BY <3>1, <2>8
    <3>3. tokens < 60 /\ last = used + s
      BY <2>2, <2>3, <2>4, <2>5 DEF Told, Unit
    <3>4. QED
      BY <3>2, <3>3, <2>6
  <2>10. (d + 1) * r > 60 - tokens
    BY <2>8
  <2>11. (d + 1) * r <= ((time + s) - last) * r
    <3>1. PICK y \in Int : y = (time + s) - last
      OBVIOUS
    <3>2. d + 1 <= y /\ d + 1 \in Int
      BY <2>9, <3>1
    <3>3. (d + 1) * r <= y * r
      BY <3>2
    <3>4. QED
      BY <3>1, <3>3
  <2>12. PICK z \in Int : z = ((time + s) - last) * r
    OBVIOUS
  <2>13. PICK v \in Int : v = (d + 1) * r
    OBVIOUS
  <2>14. tokens + z >= 60
    BY <2>10, <2>11, <2>12, <2>13
  <2>15. Refilled(k, time + s) = IF tokens + z < Burst * Unit THEN tokens + z ELSE Burst * Unit
    BY <1>2, <2>1, <2>2, <2>7, <2>12 DEF Refilled
  <2>16. Refilled(k, time + s) >= Unit
    BY <1>0, <2>14, <2>15 DEF Unit
  <2>17. QED
    BY <2>4, <2>5, <2>6, <2>16
<1>3. QED
  BY <1>1, <1>2

\* However requests, sweeps, expiries and evictions interleave, on one worker
\* or on several with clocks of their own: no key is let through more often
\* than burst and rate allow in any span of time, a client that waits as the
\* 429 says is let through, and no lock outlives its bucket.
THEOREM LimiterInvariant == RateSpec => []LimiterInv
<1>1. RateIInv => LimiterInv
  <2> SUFFICES ASSUME RateIInv PROVE LimiterInv
    OBVIOUS
  <2>1. LocksMatchBuckets
    <3> SUFFICES ASSUME backend = "memory"
                 PROVE  /\ locks = {k \in Keys : Has(k)} /\ locks = Range(order)
                        /\ Len(order) = Cardinality(locks) /\ Cardinality(locks) <= LruCap
      BY DEF LocksMatchBuckets
    <3>1. /\ order \in Seq(Keys) /\ Len(order) <= LruCap /\ locks = Range(order)
          /\ \A i, j \in 1 .. Len(order) : order[i] = order[j] => i = j
          /\ locks = {k \in Keys : Has(k)}
      BY DEF RateIInv, TablesInv
    <3>2. Cardinality(Range(order)) = Len(order)
      BY <3>1, RangeCardinality
    <3>3. QED
      BY <3>1, <3>2
  <2>2. LimitHolds
    <3> SUFFICES ASSUME NEW k \in Keys, NEW i \in DOMAIN grants[k], NEW j \in DOMAIN grants[k], i <= j
                 PROVE  (j - i + 1) * Unit
                          <= Burst * Unit + (grants[k][j] - grants[k][i] + MaxSkew) * RatePerMin
      BY DEF LimitHolds
    <3>1. grants[k] \in Times /\ Within(grants[k])
      BY DEF RateIInv, RateTypes, KeyInv, KeyOk
    <3>2. i \in 1 .. Len(grants[k]) /\ j \in 1 .. Len(grants[k])
      BY <3>1 DEF Times
    <3>3. QED
      BY <3>1, <3>2 DEF Within, Accrued
  <2>3. RetryHintSuffices
    <3>1. RateTypes /\ \A k \in Keys : KeyInv(k)
      BY DEF RateIInv
    <3>2. QED
      BY <3>1, HintIs DEF RetryHintSuffices
  <2>4. QED
    BY <2>1, <2>2, <2>3 DEF LimiterInv
<1>2. QED
  BY <1>1, RateInitInv, RateNextInv, PTL DEF RateSpec

=============================================================================
