------------------------------- MODULE Access -------------------------------
(***************************************************************************)
(* API keys: the api_keys table, the workers that start up and import keys *)
(* into it, each worker's caching resolver with its single-flight lookup,  *)
(* and the admin endpoints that create and revoke keys while requests are  *)
(* being authenticated.                                                    *)
(*                                                                         *)
(* A raw key is identified by the label of the row it was made for: labels *)
(* are unique and a row is never deleted, so no other row ever carries its *)
(* hash.  `own' is FALSE for a row that carries the hash of another raw    *)
(* key than the one the worker's configuration or the dashboard key table  *)
(* holds for that label; that other key is presented by no request.  Every *)
(* await is a step boundary.  last_used_at and its throttle are            *)
(* observability only and left out.                                        *)
(***************************************************************************)
EXTENDS Integers, FiniteSets, Sequences

CONSTANTS
    Workers,        \* processes serving the same database
    Labels,         \* labels of api_keys rows
    EnvKeys,        \* sequence of the labels in RELAY_API_KEYS_RAW
    DashKeys,       \* sequence of the dashboard-<user> labels
    Reqs,           \* concurrent requests
    Ttl,            \* cache_ttl of the resolver
    MaxLookup,      \* longest database read, in ticks
    MaxTime,        \* bound on the clock
    MaxBoots,       \* bound on the number of process starts
    InitRows,       \* possible contents of the table at the first start
    Ops             \* what requests ask for

ASSUME AccessAssumption ==
    /\ Ttl \in Nat \ {0} /\ MaxLookup \in Nat /\ MaxTime \in Nat /\ MaxBoots \in Nat

VARIABLES
    now,        \* the clock
    rows,       \* the api_keys table
    boot,       \* progress of each worker's start-up
    boots,      \* how many process starts there have been
    cache,      \* each worker's TTL cache
    req,        \* the requests
    unguarded,  \* history: an admin key was revoked past another revocation's
                \* count, or at a start-up, which counts nothing
    raced       \* history: labels made by hand between an import's look and insert

accessVars == <<now, rows, boot, boots, cache, req, unguarded, raced>>

Never == MaxTime + Ttl + MaxLookup + 1
Roles == {"viewer", "submitter", "admin"}
RowType == [st : {"absent", "active", "revoked"}, own : BOOLEAN, role : Roles,
            made : Nat, gone : Nat, exp : Nat]
OpType == [do : {"call", "create", "revoke"}, w : Workers, user : {"none", "dash"},
           key : Labels, target : Labels, role : Roles, exp : Nat]
Absent == [st |-> "absent", own |-> TRUE, role |-> "viewer", made |-> Never,
           gone |-> Never, exp |-> Never]
Row(role, exp) == [st |-> "active", own |-> TRUE, role |-> role, made |-> now,
                   gone |-> Never, exp |-> exp]
Missing == [kind |-> "missing", role |-> "viewer", at |-> 0]
Idle == [pc |-> "idle", op |-> [do |-> "call"], seen |-> Absent, since |-> 0, at |-> 0, res |-> 0,
         cut |-> FALSE, with |-> {}]
Down == [phase |-> "down", todo |-> << >>, seen |-> Absent]

Configured == {EnvKeys[i] : i \in 1..Len(EnvKeys)} \cup {DashKeys[i] : i \in 1..Len(DashKeys)}

\* The labels of the environment are not those of dashboard users, and a user
\* who is logged in has one.
ASSUME KeysAssumption ==
    /\ Workers # {} /\ EnvKeys \in Seq(Labels) /\ DashKeys \in Seq(Labels)
    /\ \A i \in 1..Len(EnvKeys), j \in 1..Len(DashKeys) : EnvKeys[i] # DashKeys[j]
    /\ Ops \subseteq OpType
    /\ \A op \in Ops : op.user # "none" => DashKeys # << >>

\* The table an earlier release left: its rows are older than this start, and
\* one admin key is active if there is any.
ASSUME TableAssumption ==
    \A t \in InitRows :
        /\ t \in [Labels -> RowType]
        /\ \A l \in Labels : /\ t[l].st = "absent" => t[l] = Absent
                             /\ t[l].st # "absent" => t[l].made = 0
                             /\ t[l].st = "active" => t[l].gone = Never
                             /\ t[l].st = "revoked" => t[l].gone = 0
        /\ \/ \E l \in Labels : t[l].st = "active" /\ t[l].role = "admin"
           \/ \A l \in Labels : t[l].role # "admin"

AccessInit ==
    /\ now = 0
    /\ rows \in InitRows
    /\ boot = [w \in Workers |-> Down]
    /\ boots = 0
    /\ cache = [w \in Workers |-> [l \in Labels |-> Missing]]
    /\ req = [r \in Reqs |-> Idle]
    /\ unguarded = FALSE
    /\ raced = {}

-----------------------------------------------------------------------------
(* The table.  Only a row that does not exist can be created: the unique   *)
(* constraint on the label counts revoked rows too.                        *)

Conflict(l) == rows[l].st # "absent"
Create(l, row) == rows' = [rows EXCEPT ![l] = row]
Revoked(row) == IF row.st = "active"
                THEN [row EXCEPT !.st = "revoked", !.gone = now]
                ELSE row
ActiveAdmins == {l \in Labels : rows[l].st = "active" /\ rows[l].role = "admin"}

-----------------------------------------------------------------------------
(* Start-up: the environment's keys are imported one by one, then the keys *)
(* of the dashboard users.                                                 *)

Start(w) ==
    /\ boot[w].phase = "down" /\ boots < MaxBoots
    /\ boots' = boots + 1
    /\ boot' = [boot EXCEPT ![w] = [phase |-> "env", todo |-> EnvKeys, seen |-> Absent]]
    /\ UNCHANGED <<now, rows, cache, req, unguarded, raced>>

(* Mutant: the import stops at the first label that exists.                *)
EnvReadStops(w) ==
    /\ boot[w].phase = "env" /\ boot[w].todo # << >>
    /\ boot' = [boot EXCEPT ![w] = IF Conflict(Head(@.todo)) THEN [@ EXCEPT !.todo = << >>]
                                   ELSE [@ EXCEPT !.phase = "envcreate"]]
    /\ UNCHANGED <<now, rows, boots, cache, req, unguarded, raced>>

\* EnvKeyResolver.sync_to_db: an existing label is skipped, whatever its state.
EnvRead(w) ==
    /\ boot[w].phase = "env" /\ boot[w].todo # << >>
    /\ boot' = [boot EXCEPT ![w] =
                  IF Conflict(Head(@.todo)) THEN [@ EXCEPT !.todo = Tail(boot[w].todo)]
                                            ELSE [@ EXCEPT !.phase = "envcreate"]]
    /\ UNCHANGED <<now, rows, boots, cache, req, unguarded, raced>>

\* A conflict leaves sync_to_db with an exception that lifespan logs: the
\* labels still to do are not imported by this worker.
EnvCreate(w) ==
    /\ boot[w].phase = "envcreate"
    /\ LET l == Head(boot[w].todo) IN
       IF Conflict(l)
       THEN /\ boot' = [boot EXCEPT ![w] = [phase |-> "dash", todo |-> DashKeys, seen |-> Absent]]
            /\ UNCHANGED rows
       ELSE /\ Create(l, Row(IF l = Head(EnvKeys) THEN "admin" ELSE "submitter", Never))
            /\ boot' = [boot EXCEPT ![w].phase = "env", ![w].todo = Tail(@)]
    /\ UNCHANGED <<now, boots, cache, req, unguarded, raced>>

EnvDone(w) ==
    /\ boot[w].phase = "env" /\ boot[w].todo = << >>
    /\ boot' = [boot EXCEPT ![w] = [phase |-> "dash", todo |-> DashKeys, seen |-> Absent]]
    /\ UNCHANGED <<now, rows, boots, cache, req, unguarded, raced>>

\* The loop over users_to_mint: what it finds for the label decides.
DashRead(w) ==
    /\ boot[w].phase = "dash" /\ boot[w].todo # << >>
    /\ LET row == rows[Head(boot[w].todo)] IN
       boot' = [boot EXCEPT ![w] =
                  CASE row.st # "active" -> [@ EXCEPT !.phase = "dashcreate"]
                    [] row.st = "active" /\ ~row.own -> [@ EXCEPT !.phase = "dashrevoke"]
                    [] OTHER -> [@ EXCEPT !.todo = Tail(boot[w].todo)]]
    /\ UNCHANGED <<now, rows, boots, cache, req, unguarded, raced>>

DashRevoke(w) ==
    /\ boot[w].phase = "dashrevoke"
    /\ rows' = [rows EXCEPT ![Head(boot[w].todo)] = Revoked(@)]
    /\ boot' = [boot EXCEPT ![w].phase = "dashcreate"]
    /\ unguarded' = (unguarded \/ Head(boot[w].todo) \in ActiveAdmins)
    /\ UNCHANGED <<now, boots, cache, req, raced>>

\* A conflict is logged and the loop goes on with the next user.
DashCreate(w) ==
    /\ boot[w].phase = "dashcreate"
    /\ LET l == Head(boot[w].todo) IN
       IF Conflict(l) THEN UNCHANGED rows ELSE Create(l, Row("submitter", Never))
    /\ boot' = [boot EXCEPT ![w].phase = "dash", ![w].todo = Tail(@)]
    /\ UNCHANGED <<now, boots, cache, req, unguarded, raced>>

Serve(w) ==
    /\ boot[w].phase = "dash" /\ boot[w].todo = << >>
    /\ boot' = [boot EXCEPT ![w] = [phase |-> "up", todo |-> << >>, seen |-> Absent]]
    /\ UNCHANGED <<now, rows, boots, cache, req, unguarded, raced>>

\* The process dies, with its cache and its requests.
Crash(w) ==
    /\ boot[w].phase # "down" /\ boots < MaxBoots
    /\ boot' = [boot EXCEPT ![w] = Down]
    /\ cache' = [cache EXCEPT ![w] = [l \in Labels |-> Missing]]
    /\ req' = [r \in Reqs |-> IF req[r].pc # "idle" /\ req[r].op.w = w THEN Idle ELSE req[r]]
    /\ UNCHANGED <<now, rows, boots, unguarded, raced>>

-----------------------------------------------------------------------------
(* Authentication.  A client whose request was answered may call again.    *)
(* op = [do, w, key, user, target, role, exp]: what the client asks of     *)
(* worker w with the key of a label, or as a logged-in dashboard user.     *)

At(w, k, pc) == {r \in Reqs : req[r].pc = pc /\ req[r].op.w = w /\ req[r].op.key = k}
Leaders(w, k) == At(w, k, "lookup") \cup At(w, k, "resume")
InFlight(w, k) == Leaders(w, k) # {}

\* Somebody who waited for the read was cancelled: so is the future it shares.
CutFlight(w, k) == \E r \in Leaders(w, k) : req[r].cut

\* A cancelled request is over without an answer.
Aborted(q) == [q EXCEPT !.pc = "done", !.res = 499, !.since = 0, !.seen = Absent,
                        !.cut = FALSE, !.with = {}]

(* Mutant: revoked_at is not looked at.                                    *)
VerdictUnrevoked(row) ==
    IF row.st # "absent" /\ row.own /\ ~ row.exp < now
    THEN [kind |-> "yes", role |-> row.role, at |-> now]
    ELSE [kind |-> "no", role |-> "viewer", at |-> now]

\* What _lookup makes of the row it read.
Verdict(row) ==
    IF row.st = "active" /\ row.own /\ ~ row.exp < now
    THEN [kind |-> "yes", role |-> row.role, at |-> now]
    ELSE [kind |-> "no", role |-> "viewer", at |-> now]

\* DashboardCookieMiddleware: a logged-in dashboard user's request carries
\* the internal key of that user, whatever header it came with.
WithIdentity(op) == IF op.user = "none" THEN op ELSE [op EXCEPT !.key = Head(DashKeys)]

\* require_role: roles are ordered, and the key endpoints ask for "admin".
Rank == [viewer |-> 0, submitter |-> 1, admin |-> 2]
RequireRole(do, role) == Rank[role] >= IF do = "call" THEN Rank["viewer"] ELSE Rank["admin"]

\* The request continues once its key is resolved: 401, 403 or its handler.
Admitted(q, v) ==
    LET to(pc, res) == [q EXCEPT !.pc = pc, !.res = res, !.at = now, !.since = 0, !.seen = Absent,
                                 !.cut = FALSE] IN
    CASE v.kind = "no" -> to("done", 401)
      [] v.kind = "yes" /\ ~RequireRole(q.op.do, v.role) -> to("done", 403)
      [] v.kind = "yes" /\ RequireRole(q.op.do, v.role) ->
           to(IF q.op.do = "call" THEN "done" ELSE q.op.do, 200)

Resolve(r, o) ==
    /\ req[r].pc \in {"idle", "done"} /\ boot[o.w].phase = "up"
    /\ LET op == WithIdentity(o)
           q == [Idle EXCEPT !.op = op, !.since = now]
           hit == cache[op.w][op.key]
       IN req' = [req EXCEPT ![r] =
                    CASE hit.kind # "missing" -> Admitted(q, hit)
                      [] hit.kind = "missing" /\ InFlight(op.w, op.key) ->
                           IF CutFlight(op.w, op.key) THEN Aborted(q) ELSE [q EXCEPT !.pc = "wait"]
                      [] OTHER -> [q EXCEPT !.pc = "lookup"]]
    /\ UNCHANGED <<now, rows, boot, boots, cache, unguarded, raced>>

\* get_by_hash: the row is read now and looked at when the task resumes.
ReadRow(r) ==
    /\ req[r].pc = "lookup"
    /\ req' = [req EXCEPT ![r].pc = "resume", ![r].seen = rows[req[r].op.key]]
    /\ UNCHANGED <<now, rows, boot, boots, cache, unguarded, raced>>

\* The verdict is cached and given to everyone who waited for it.
Resume(r) ==
    /\ req[r].pc = "resume"
    /\ LET op == req[r].op
           v == Verdict(req[r].seen)
       IN /\ cache' = [cache EXCEPT ![op.w][op.key] = v]
          /\ req' = [q \in Reqs |->
                       IF q = r \/ q \in At(op.w, op.key, "wait")
                       THEN Admitted(req[q], v) ELSE req[q]]
    /\ UNCHANGED <<now, rows, boot, boots, unguarded, raced>>

\* The database fails: the error goes to the leader and to everyone waiting.
LookupFails(r) ==
    /\ req[r].pc = "lookup"
    /\ req' = [q \in Reqs |->
                 IF q = r \/ q \in At(req[r].op.w, req[r].op.key, "wait")
                 THEN [req[q] EXCEPT !.pc = "done", !.res = 500, !.since = 0, !.cut = FALSE]
                 ELSE req[q]]
    /\ UNCHANGED <<now, rows, boot, boots, cache, unguarded, raced>>

(* A client goes away while its request authenticates, and the request is  *)
(* cancelled.  (Cancelled in a key endpoint it ends like AuditFails, or    *)
(* before it has changed anything.)                                        *)

\* CancelledError is no Exception: the leader takes the lookup out of
\* _inflight and leaves its future to those who wait for it, unresolved.
CancelLeader(r) ==
    /\ req[r].pc \in {"lookup", "resume"}
    /\ LET waiters == At(req[r].op.w, req[r].op.key, "wait") IN
       req' = [q \in Reqs |->
                 CASE q = r -> Aborted(req[q])
                   [] q # r /\ q \in waiters ->
                        [req[q] EXCEPT !.pc = "stranded", !.since = 0, !.with = waiters]
                   [] OTHER -> req[q]]
    /\ UNCHANGED <<now, rows, boot, boots, cache, unguarded, raced>>

\* Cancelling one that waits cancels the future, and with it all who wait and,
\* until the leader is back, all who come.
CancelWaiter(r) ==
    /\ req[r].pc = "wait"
    /\ LET op == req[r].op IN
       req' = [q \in Reqs |->
                 CASE q \in At(op.w, op.key, "wait") -> Aborted(req[q])
                   [] q \in Leaders(op.w, op.key) -> [req[q] EXCEPT !.cut = TRUE]
                   [] OTHER -> req[q]]
    /\ UNCHANGED <<now, rows, boot, boots, cache, unguarded, raced>>

\* Nothing else ends a request whose leader was cancelled.
CancelStranded(r) ==
    /\ req[r].pc = "stranded"
    /\ req' = [q \in Reqs |->
                 IF q \in At(req[r].op.w, req[r].op.key, "stranded") /\ req[q].with = req[r].with
                 THEN Aborted(req[q]) ELSE req[q]]
    /\ UNCHANGED <<now, rows, boot, boots, cache, unguarded, raced>>

-----------------------------------------------------------------------------
(* POST and DELETE /api/v1/admin/keys.                                     *)

Reply(r, res) == req' = [req EXCEPT ![r].pc = "done", ![r].res = res, ![r].seen = Absent]
Goto(r, pc) == req' = [req EXCEPT ![r].pc = pc]

\* Any label that is free may be asked for, a configured one too: its row then
\* carries the hash of the new key, not of the configured one.
HandRow(l, role, exp) == [Row(role, exp) EXCEPT !.own = l \notin Configured]

\* An import has found that l has no row and is about to insert it.
ImportRaces(l) == \E w \in Workers : boot[w].phase = "envcreate" /\ Head(boot[w].todo) = l

CreateKey(r) ==
    /\ req[r].pc = "create"
    /\ LET op == req[r].op IN
       IF Conflict(op.target)
       THEN Reply(r, 409) /\ UNCHANGED rows
       ELSE Create(op.target, HandRow(op.target, op.role, now + op.exp)) /\ Goto(r, "audit")
    /\ raced' = raced \cup {l \in {req[r].op.target} : ImportRaces(l)}
    /\ UNCHANGED <<now, boot, boots, cache, unguarded>>

RevokeLookup(r) ==
    /\ req[r].pc = "revoke"
    /\ LET op == req[r].op
           row == rows[op.target]
       IN CASE row.st # "active" -> Reply(r, 404)
            [] row.st = "active" /\ op.target = op.key -> Reply(r, 400)
            [] row.st = "active" /\ op.target # op.key ->
                 Goto(r, IF row.role = "admin" THEN "count" ELSE "update")
    /\ UNCHANGED <<now, rows, boot, boots, cache, unguarded, raced>>

RevokeCount(r) ==
    /\ req[r].pc = "count"
    /\ IF Cardinality(ActiveAdmins) <= 1 THEN Reply(r, 400) ELSE Goto(r, "update")
    /\ UNCHANGED <<now, rows, boot, boots, cache, raced>>
    /\ unguarded' = (unguarded \/ \E q \in Reqs \ {r} :
                        req[q].pc = "update" /\ rows[req[q].op.target].role = "admin")

RevokeUpdate(r) ==
    /\ req[r].pc = "update"
    /\ rows' = [rows EXCEPT ![req[r].op.target] = Revoked(@)]
    /\ Goto(r, "audit")
    /\ UNCHANGED <<now, boot, boots, cache, unguarded, raced>>

Audit(r) ==
    /\ req[r].pc = "audit"
    /\ Goto(r, "invalidate")
    /\ UNCHANGED <<now, rows, boot, boots, cache, unguarded, raced>>

\* The change is made, but not recorded and not yet known to the cache.
AuditFails(r) ==
    /\ req[r].pc = "audit"
    /\ Reply(r, 500)
    /\ UNCHANGED <<now, rows, boot, boots, cache, unguarded, raced>>

\* Only the cache of the worker that served the request is invalidated.
Invalidate(r) ==
    /\ req[r].pc = "invalidate"
    /\ cache' = [cache EXCEPT ![req[r].op.w][req[r].op.target] = Missing]
    /\ Reply(r, 200)
    /\ UNCHANGED <<now, rows, boot, boots, unguarded, raced>>

-----------------------------------------------------------------------------

\* Entries older than the TTL leave the caches as the clock moves.
Expire(entry) == IF entry.at + Ttl <= now + 1 THEN Missing ELSE entry

Tick ==
    /\ now < MaxTime
    /\ \A r \in Reqs : req[r].pc \in {"lookup", "resume", "wait"} => now < req[r].since + MaxLookup
    /\ now' = now + 1
    /\ cache' = [w \in Workers |-> [l \in Labels |-> Expire(cache[w][l])]]
    /\ UNCHANGED <<rows, boot, boots, req, unguarded, raced>>

BootStep(w) == \/ EnvRead(w) \/ EnvCreate(w) \/ EnvDone(w)
               \/ DashRead(w) \/ DashRevoke(w) \/ DashCreate(w) \/ Serve(w)

RequestStep(r) == \/ ReadRow(r) \/ Resume(r) \/ LookupFails(r)
                  \/ CancelLeader(r) \/ CancelWaiter(r) \/ CancelStranded(r)
                  \/ CreateKey(r) \/ RevokeLookup(r) \/ RevokeCount(r) \/ RevokeUpdate(r)
                  \/ Audit(r) \/ AuditFails(r) \/ Invalidate(r)

AccessNext ==
    \/ Tick
    \/ \E w \in Workers : Start(w) \/ BootStep(w) \/ Crash(w)
    \/ \E r \in Reqs : RequestStep(r) \/ \E op \in Ops : Resolve(r, op)

AccessSpec == AccessInit /\ [][AccessNext]_accessVars

-----------------------------------------------------------------------------
(* Properties.                                                             *)

Entries == [kind : {"missing", "yes", "no"}, role : Roles, at : Nat]

\* Types, and no cache holds an entry older than the time to live.
AccessTypeOK ==
    /\ now \in 0..MaxTime
    /\ rows \in [Labels -> RowType]
    /\ cache \in [Workers -> [Labels -> Entries]]
    /\ \A w \in Workers, l \in Labels :
         cache[w][l].kind # "missing" => now \in cache[w][l].at .. cache[w][l].at + Ttl - 1
    /\ \A w \in Workers : boot[w].phase \in
         {"down", "env", "envcreate", "dash", "dashrevoke", "dashcreate", "up"}
    /\ \A r \in Reqs : req[r].pc \in {"idle", "wait", "lookup", "resume", "stranded", "create",
                                      "revoke", "count", "update", "audit", "invalidate", "done"}

Window == Ttl + MaxLookup

\* Cached answers are stale, but boundedly so on every worker: a request
\* that got past the resolver had a key that was valid less than a database
\* read plus one cache lifetime ago, and one turned away with 401 had a key
\* that was not valid at some moment of that window (db_resolver.resolve).
AnswersAreRecent ==
    \A r \in Reqs :
      LET row == rows[req[r].op.key] IN
      /\ (req[r].pc # "idle" /\ req[r].res \in {200, 403} => row.st # "absent" /\ row.own)
      /\ (req[r].pc # "idle" /\ req[r].res \in {200, 403} =>
            req[r].at < row.gone + Window /\ req[r].at < row.exp + Window)
      /\ (req[r].pc = "done" /\ req[r].res = 401 =>
            \/ row.st = "absent" \/ ~row.own
            \/ req[r].at < row.made + Window
            \/ row.gone <= req[r].at \/ row.exp < req[r].at)

\* The lookup is shared: a worker reads a key's row from the database for
\* one request at a time; and nobody waits for a future that was cancelled,
\* nor, before its leader is cancelled, for a read that is over.
SingleFlight ==
    \A w \in Workers, k \in Labels :
      /\ Cardinality(Leaders(w, k)) <= 1
      /\ At(w, k, "wait") # {} => InFlight(w, k) /\ ~CutFlight(w, k)

\* What resolve says of its clean-up: an exception does not strand those who
\* wait, somebody still reads for each of them.  A cancelled leader does.
WaitersAreServed ==
    \A w \in Workers, k \in Labels :
        At(w, k, "wait") \cup At(w, k, "stranded") # {} => InFlight(w, k)

\* An active admin key remains, as revoke_api_key promises, as long as no
\* two revocations of admin keys are checked at the same time and no
\* start-up replaces an admin key made by hand for a dashboard user.
AdminRemains == ~unguarded => ActiveAdmins # {} \/ \A l \in Labels : rows[l].role # "admin"

\* An admin's new key took the place of one before the i-th under the eyes of an
\* import, which then gave up on the rest.
Displaced(i) == \E j \in 1..(i - 1) : EnvKeys[j] \in raced

\* When every worker has come up, every key of the environment has its row,
\* although a worker that loses the race for one label gives up on the rest;
\* unless it lost it to a key made by hand, which nobody's import goes on from.
EnvKeysImported ==
    (\A w \in Workers : boot[w].phase = "up") =>
        \A i \in 1..Len(EnvKeys) : rows[EnvKeys[i]].st # "absent" \/ Displaced(i)

\* Neither racing workers, crashes during start-up nor revocations leave the
\* key table without a key it must have.
KeyTableInv == AccessTypeOK /\ AdminRemains /\ EnvKeysImported

\* The resolver answers from its cache or from a shared read, and what it
\* answers is true of the recent past (DBKeyResolver.resolve).
ResolverInv == SingleFlight /\ AnswersAreRecent

\* What revoke_api_key says without the condition: at least one admin key
\* remains active.
LastAdminStays == ActiveAdmins # {} \/ \A l \in Labels : rows[l].role # "admin"

\* The api_keys row of a dashboard user is upserted at start-up, so that
\* the header injected for that user passes authentication.
DashboardKeysPass ==
    \A w \in Workers : boot[w].phase = "up" =>
        \A i \in 1..Len(DashKeys) : rows[DashKeys[i]].st = "active" /\ rows[DashKeys[i]].own

-----------------------------------------------------------------------------
(* The inductive invariants behind KeyTableInv and ResolverInv             *)

\* The life of a row: absent, active from `made' on, revoked from `gone' on.
RowsInv ==
    \A l \in Labels :
        /\ rows[l].st = "absent" => rows[l] = Absent
        /\ rows[l].st # "absent" => rows[l].made <= now
        /\ rows[l].st = "active" => rows[l].gone = Never
        /\ rows[l].st = "revoked" => rows[l].gone <= now

Revoking(r) == req[r].pc = "update" /\ rows[req[r].op.target].role = "admin"

\* A revocation that is past the count leaves another admin key, unless a second
\* one was past it too.
AdminsInv ==
    /\ \A r \in Reqs : req[r].pc \in {"count", "update"} => rows[req[r].op.target].st # "absent"
    /\ ~unguarded =>
         /\ LastAdminStays
         /\ \A r, q \in Reqs : Revoking(r) /\ Revoking(q) => r = q
         /\ \A r \in Reqs : Revoking(r) => ActiveAdmins \ {req[r].op.target} # {}

\* Worker w imports the environment's keys from the i-th on.
ImportsFrom(w, i) ==
    /\ boot[w].phase \in {"env", "envcreate"}
    /\ Len(boot[w].todo) = Len(EnvKeys) + 1 - i
    /\ \A n \in 1..Len(boot[w].todo) : boot[w].todo[n] = EnvKeys[i + n - 1]

\* Worker w will still look at the i-th key of the environment and not lose
\* the race for one before it.
Takes(w, i) ==
    \/ boot[w].phase = "down"
    \/ \E j \in 1..i : /\ ImportsFrom(w, j)
                       /\ boot[w].phase = "envcreate" => rows[EnvKeys[j]].st = "absent"

\* Import goes through the keys in order, and somebody takes every key that has
\* no row yet: whoever loses a race lost it to a worker that goes on, or to an
\* admin's request.
ImportInv ==
    /\ \A w \in Workers : boot[w].phase \in {"env", "envcreate"} =>
         \E i \in 1..(Len(EnvKeys) + 1) :
            /\ ImportsFrom(w, i)
            /\ \A n \in 1..(i - 1) : rows[EnvKeys[n]].st # "absent"
    /\ \A i \in 1..Len(EnvKeys) :
         rows[EnvKeys[i]].st = "absent" => (\E w \in Workers : Takes(w, i)) \/ Displaced(i)

\* The row of l was valid, or was not, at some moment of the MaxLookup ticks
\* before t.
Was(l, t) == /\ rows[l].st # "absent" /\ rows[l].own
             /\ t <= rows[l].gone + MaxLookup /\ t <= rows[l].exp
WasNot(l, t) == \/ rows[l].st = "absent" \/ ~rows[l].own
                \/ t <= rows[l].made + MaxLookup
                \/ rows[l].gone <= t \/ rows[l].exp < t

\* What a cache remembers was so, and what a lookup has read is what the row
\* is or was after the lookup began.
CacheInv ==
    \A w \in Workers, l \in Labels :
        /\ cache[w][l].kind = "yes" => Was(l, cache[w][l].at)
        /\ cache[w][l].kind = "no" => WasNot(l, cache[w][l].at)

Pending(r) == req[r].pc \in {"lookup", "resume", "wait"}

LookupInv ==
    \A r \in Reqs :
        /\ Pending(r) => now \in req[r].since .. req[r].since + MaxLookup
        /\ req[r].pc = "resume" =>
             LET row == rows[req[r].op.key]  seen == req[r].seen IN
             /\ seen.st = "active" => /\ row.st # "absent" /\ row.own = seen.own
                                      /\ row.exp = seen.exp /\ row.gone >= req[r].since
             /\ seen.st = "absent" => row.st = "absent" \/ row.made >= req[r].since
             /\ seen.st = "revoked" => row = seen
        /\ req[r].pc # "idle" => req[r].at <= now
        /\ req[r].pc \in {"create", "revoke", "count", "update", "audit", "invalidate"} =>
             req[r].res = 200

\* SingleFlight, without counting.
LeadersInv ==
    \A r \in Reqs :
        /\ req[r].pc \in {"lookup", "resume"} =>
             \A q \in Leaders(req[r].op.w, req[r].op.key) : q = r
        /\ req[r].pc = "wait" => InFlight(req[r].op.w, req[r].op.key)

\* The future somebody waits for is not cancelled.
FlightInv ==
    \A r \in Reqs : req[r].pc = "wait" => ~CutFlight(req[r].op.w, req[r].op.key)

=============================================================================
