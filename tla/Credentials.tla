---------------------------- MODULE Credentials -----------------------------
(***************************************************************************)
(* Upstream credentials and who may run with whose: the user_credentials   *)
(* table with its Fernet key, the /me and /admin endpoints, the            *)
(* dashboard's reveal, and the path from POST /sessions and POST           *)
(* /sessions/batch through SessionManager.submit and retry to the session  *)
(* row and the environment of its process.  A plaintext is [of, n]: the    *)
(* n-th value stored for the label of, or one sent in a request body.      *)
(***************************************************************************)
EXTENDS Integers, FiniteSets, Sequences, TLC

CONSTANTS
    Labels,         \* api key labels
    RoleOf,         \* "submitter" or "admin", for each label
    FernetKeys,     \* encryption keys; the feature is off without one
    Strict,         \* RELAY_REQUIRE_PER_USER_CREDENTIALS
    SReqs,          \* concurrent requests
    SOps,           \* the requests that may be made
    Sids,           \* 1..n, session ids in the order of creation
    MaxStored,      \* bound on the values stored for a label
    MaxReveals,     \* bound on reveals before another one is asked for
    MaxFaults       \* bound on restarts and failing statements

ASSUME CredentialsAssumption ==
    /\ \A l \in Labels : RoleOf[l] \in {"submitter", "admin"}
    /\ Strict \in BOOLEAN /\ MaxStored \in Nat /\ MaxReveals \in Nat /\ MaxFaults \in Nat
    /\ IsFiniteSet(Sids) /\ Sids = 1..Cardinality(Sids)

Off == "off"
EnvNames == {"ANTHROPIC_API_KEY", "ANTHROPIC_BASE_URL"}

\* What a call carries: the spec of a session, with something in it that looks
\* like a secret or not, or the variable it is about.
Specs == {"none", "plain", "secret", "redacted"} \cup EnvNames

\* The endpoints know the caller's label and take no other env_name.
ASSUME CallsAssumption ==
    /\ SOps \subseteq [do : {"submit", "cancel", "retry", "put", "del", "show"}, who : Labels,
                       owner : Labels, body : SUBSET EnvNames, spec : Specs, ids : Seq(Sids)]
    /\ \A op \in SOps : op.do \in {"put", "del", "show"} => op.spec \in EnvNames

VARIABLES
    key,        \* the Fernet key this process was started with, or Off
    cred,       \* user_credentials: (label, env_name) to a row
    sreq,       \* requests in flight
    session,    \* the sessions table, with history of what each runs with (how
                \* sessions end, otherwise than by a batch, is SessionManager's)
    revealed,   \* plaintexts shown by the reveal endpoint
    logged,     \* user_credential_admin_reveal audit rows
    faults

credVars == <<key, cred, sreq, session, revealed, logged, faults>>

NoCred == [fp |-> Off, by |-> "none", n |-> 0]
Absent == [of |-> "none", n |-> 0]
InBody == [of |-> "body", n |-> 0]
NoEnv == [e \in EnvNames |-> Absent]
NoSession == [st |-> "none", owner |-> "none", actor |-> "none", parent |-> 0,
              env |-> NoEnv, row |-> "none", runs |-> "none"]
Resting == [do |-> "none", who |-> "none", owner |-> "none", body |-> {}, spec |-> "none",
            todo |-> << >>, items |-> << >>, ph |-> "idle", env |-> NoEnv, parent |-> 0]
Envs == [EnvNames -> [of : Labels \cup {"none", "body"}, n : 0..MaxStored]]
Outcomes == {"ok", "not_found", "forbidden", "missing_credentials", "lookup_unavailable", "internal"}

\* Stored bundles, submits, batches and reveals have their shapes.
CredTypeOK ==
    /\ key \in FernetKeys \cup {Off}
    /\ cred \in [Labels \X EnvNames -> [fp : FernetKeys \cup {Off}, by : Labels \cup {"none"},
                                        n : 0..MaxStored]]
    /\ \A s \in Sids : /\ session[s].st \in {"none", "row", "cancelled"}
                       /\ session[s].env \in Envs /\ session[s].parent \in Sids \cup {0}
    /\ \A r \in SReqs : /\ sreq[r].ph \in {"idle", "next", "lookup", "create", "put", "del",
                                           "show", "log", "note", "done"}
                        /\ sreq[r].env \in Envs
    /\ revealed \in Nat /\ logged \in Nat /\ faults \in 0..MaxFaults

CredInit ==
    /\ key \in FernetKeys \cup {Off}
    /\ cred = [le \in Labels \X EnvNames |-> NoCred]
    /\ sreq = [r \in SReqs |-> Resting]
    /\ session = [s \in Sids |-> NoSession]
    /\ revealed = 0 /\ logged = 0 /\ faults = 0

-----------------------------------------------------------------------------
(* The store                                                               *)

(* Mutant: rows are picked by the session's owner.                         *)
GetForOwner(q) ==
    [e \in EnvNames |-> LET c == cred[<<q.owner, e>>] IN
        IF key # Off /\ c.fp = key THEN [of |-> q.owner, n |-> c.n] ELSE Absent]

\* get_for_user: the rows of the actor's label that the current key decrypts.
GetForUser(q) ==
    [e \in EnvNames |-> LET c == cred[<<q.who, e>>] IN
        IF key # Off /\ c.fp = key THEN [of |-> q.who, n |-> c.n] ELSE Absent]

\* {**db_creds, **runtime_ctx.credentials}
Merged(db, body) == [e \in EnvNames |-> IF e \in body THEN InBody ELSE db[e]]

BundleIsComplete(env) == env["ANTHROPIC_API_KEY"] # Absent

Put(r) ==
    LET q == sreq[r] IN
    /\ q.ph = "put" /\ cred[<<q.owner, q.spec>>].n < MaxStored
    /\ cred' = IF key = Off THEN cred
               ELSE [cred EXCEPT ![<<q.owner, q.spec>>] = [fp |-> key, by |-> q.who, n |-> @.n + 1]]
    /\ sreq' = [sreq EXCEPT ![r].ph = IF key = Off THEN "done" ELSE "note"]
    /\ UNCHANGED <<key, session, revealed, logged, faults>>

RemoveCred(r) ==
    LET q == sreq[r] IN
    /\ q.ph = "del"
    /\ cred' = IF key = Off THEN cred ELSE [cred EXCEPT ![<<q.owner, q.spec>>].fp = Off]
    /\ sreq' = [sreq EXCEPT ![r].ph = IF key = Off THEN "done" ELSE "note"]
    /\ UNCHANGED <<key, session, revealed, logged, faults>>

\* The audit row of a change comes after it; the change stays if the row fails.
NoteChange(r, fails) ==
    /\ sreq[r].ph = "note"
    /\ sreq' = [sreq EXCEPT ![r].ph = "done"]
    /\ UNCHANGED <<key, cred, session, revealed, logged>>

\* The reveal reads the value, writes the audit row, and only then answers.
ReadForReveal(r) ==
    LET q == sreq[r] IN
    /\ q.ph = "show" /\ logged < MaxReveals
    /\ sreq' = [sreq EXCEPT ![r].ph = IF key # Off /\ cred[<<q.owner, q.spec>>].fp = key
                                      THEN "log" ELSE "done"]
    /\ UNCHANGED <<key, cred, session, revealed, logged, faults>>

LogAndReveal(r, fails) ==
    /\ sreq[r].ph = "log"
    /\ revealed' = IF fails THEN revealed ELSE revealed + 1
    /\ logged' = IF fails THEN logged ELSE logged + 1
    /\ sreq' = [sreq EXCEPT ![r].ph = "done"]
    /\ UNCHANGED <<key, cred, session>>

-----------------------------------------------------------------------------
(* Requests                                                                *)

\* /me: the caller's own rows.
MyCredential(op) == op.owner = op.who

\* /admin: anybody's rows.
UserCredential(op) == RoleOf[op.who] = "admin"

\* The dashboard's reveal.
RevealGuard(op) == RoleOf[op.who] = "admin"

Permitted(op) ==
    /\ op.do \in {"put", "del"} => MyCredential(op) \/ UserCredential(op)
    /\ op.do = "show" => RevealGuard(op)

BeginCall(r, op) ==
    /\ sreq[r] = Resting /\ Permitted(op)
    /\ sreq' = [sreq EXCEPT ![r] = [Resting EXCEPT
                  !.do = op.do, !.who = op.who, !.owner = op.owner, !.body = op.body,
                  !.spec = op.spec, !.todo = op.ids,
                  !.ph = CASE op.do = "submit" -> "lookup"
                           [] op.do \in {"cancel", "retry"} -> "next"
                           [] OTHER -> op.do]]
    /\ UNCHANGED <<key, cred, session, revealed, logged, faults>>

InBatch(q) == q.do \in {"cancel", "retry"}

(* Mutant: the first item that fails ends the batch.                       *)
SettledAtFirstError(q, item) ==
    IF InBatch(q) /\ item.outcome # "internal"
    THEN [q EXCEPT !.items = Append(@, item), !.todo = Tail(@), !.ph = "next",
                   !.env = NoEnv, !.parent = 0]
    ELSE [q EXCEPT !.items = Append(@, item), !.ph = "done"]

\* The end of one submit: the answer of POST /sessions, or one item of a batch.
Settled(q, item) ==
    IF InBatch(q) THEN [q EXCEPT !.items = Append(@, item), !.todo = Tail(@), !.ph = "next",
                                 !.env = NoEnv, !.parent = 0]
                  ELSE [q EXCEPT !.items = Append(@, item), !.ph = "done"]

Item(s, outcome, new) == [id |-> s, outcome |-> outcome, new |-> new]

\* retry submits what the row has of the spec, for the caller and with nothing
\* in the body.
Retry(q, s) == [q EXCEPT !.ph = "lookup", !.parent = s, !.owner = q.who, !.body = {},
                         !.spec = session[s].row]

\* One id of a batch: unknown, forbidden, cancelled, or on to the retry.  The
\* statement that looks it up may fail.
BatchNext(r, fails) ==
    LET q == sreq[r]  s == Head(q.todo) IN
    /\ q.ph = "next" /\ q.todo # << >>
    /\ \/ /\ fails
          /\ sreq' = [sreq EXCEPT ![r] = Settled(q, Item(s, "internal", 0))]
          /\ UNCHANGED session
       \/ /\ ~fails /\ session[s].st = "none"
          /\ sreq' = [sreq EXCEPT ![r] = Settled(q, Item(s, "not_found", 0))]
          /\ UNCHANGED session
       \/ /\ ~fails /\ session[s].st # "none" /\ q.do = "cancel"
          /\ IF RoleOf[q.who] = "admin" \/ session[s].owner = q.who
             THEN /\ session' = [session EXCEPT ![s].st = "cancelled"]
                  /\ sreq' = [sreq EXCEPT ![r] = Settled(q, Item(s, "ok", 0))]
             ELSE /\ sreq' = [sreq EXCEPT ![r] = Settled(q, Item(s, "forbidden", 0))]
                  /\ UNCHANGED session
       \/ /\ ~fails /\ session[s].st # "none" /\ q.do = "retry"
          /\ sreq' = [sreq EXCEPT ![r] = Retry(q, s)]
          /\ UNCHANGED session
    /\ UNCHANGED <<key, cred, revealed, logged>>

BatchEnds(r) ==
    /\ sreq[r].ph = "next" /\ sreq[r].todo = << >>
    /\ sreq' = [sreq EXCEPT ![r].ph = "done"]
    /\ UNCHANGED <<key, cred, session, revealed, logged, faults>>

\* submit: merge what the actor has stored into what the body sent, and refuse
\* a bundle that authenticates nobody.
LookUp(r, fails) ==
    LET q == sreq[r]
        env == Merged(IF fails THEN NoEnv ELSE GetForUser(q), q.body)
        refused == Strict /\ RoleOf[q.who] # "admin" /\ ~BundleIsComplete(env)
        s == IF InBatch(q) THEN q.parent ELSE 0
    IN  /\ q.ph = "lookup"
        /\ sreq' = [sreq EXCEPT ![r] =
              IF fails /\ Strict THEN Settled(q, Item(s, "lookup_unavailable", 0))
              ELSE IF refused THEN Settled(q, Item(s, "missing_credentials", 0))
              ELSE [q EXCEPT !.env = env, !.ph = "create"]]
        /\ UNCHANGED <<key, cred, session, revealed, logged>>

NextSid == Cardinality({s \in Sids : session[s].st # "none"}) + 1

\* RedactionEngine: what looks like a secret is replaced by a placeholder.
Redact(spec) == IF spec = "secret" THEN "redacted" ELSE spec

\* create_session and the task that runs it.  A statement may fail.
Create(r, fails) ==
    LET q == sreq[r]
        s == IF InBatch(q) THEN q.parent ELSE 0
    IN  /\ q.ph = "create" /\ (fails \/ NextSid \in Sids)
        /\ session' = IF fails THEN session
                      ELSE [session EXCEPT ![NextSid] =
                              [st |-> "row", owner |-> q.owner, actor |-> q.who, parent |-> q.parent,
                               env |-> q.env, row |-> Redact(q.spec), runs |-> q.spec]]
        /\ sreq' = [sreq EXCEPT ![r] = IF fails THEN Settled(q, Item(s, "internal", 0))
                                       ELSE Settled(q, Item(s, "ok", NextSid))]
        /\ UNCHANGED <<key, cred, revealed, logged>>

\* The relay is restarted, perhaps with another key or with none.
Restart(k) ==
    /\ faults < MaxFaults /\ faults' = faults + 1
    /\ key' = k
    /\ sreq' = [r \in SReqs |-> Resting]
    /\ UNCHANGED <<cred, session, revealed, logged>>

Statement(r) ==
    \E fails \in BOOLEAN :
        /\ fails => faults < MaxFaults
        /\ faults' = IF fails THEN faults + 1 ELSE faults
        /\ \/ BatchNext(r, fails) \/ LookUp(r, fails) \/ Create(r, fails)
           \/ NoteChange(r, fails) \/ LogAndReveal(r, fails)

\* The connection takes another request.
NextCall(r) ==
    /\ sreq[r].ph = "done"
    /\ sreq' = [sreq EXCEPT ![r] = Resting]
    /\ UNCHANGED <<key, cred, session, revealed, logged, faults>>

CredNext ==
    \/ \E r \in SReqs : \/ \E op \in SOps : BeginCall(r, op)
                        \/ Put(r) \/ RemoveCred(r) \/ ReadForReveal(r)
                        \/ BatchEnds(r) \/ Statement(r) \/ NextCall(r)
    \/ \E k \in FernetKeys \cup {Off} : Restart(k)

CredSpec == CredInit /\ [][CredNext]_credVars

-----------------------------------------------------------------------------
(* What holds                                                              *)

\* A session runs only with credentials that the caller who started it has
\* stored or sent, whatever owner it is filed under and whoever's session it
\* retries, through any chain of retries and key rotations.
CredsAreTheActors ==
    \A s \in Sids : session[s].st # "none" =>
        \A e \in EnvNames : session[s].env[e].of \in {"none", "body", session[s].actor}

\* Under strict mode nobody but an admin starts a session that would fall back
\* on the host's own credentials, also when the table cannot be read or the
\* key has been replaced.
StrictNeedsBundle ==
    Strict => \A s \in Sids : (session[s].st # "none" /\ RoleOf[session[s].actor] # "admin")
                                 => session[s].env["ANTHROPIC_API_KEY"] # Absent

\* A batch that has ended has one item for each id asked for, in order, however
\* each of them failed; and the session a retry names is a child of that id
\* that the caller started ("a single failure never blocks the rest").
BatchAnswersEveryId ==
    \A r \in SReqs : LET q == sreq[r] IN
        /\ (InBatch(q) /\ q.ph = "done") =>
             \E op \in SOps : op.do = q.do /\ op.who = q.who
                              /\ op.ids = [n \in DOMAIN q.items |-> q.items[n].id]
        /\ \A n \in DOMAIN q.items : q.items[n].new # 0 =>
             /\ session[q.items[n].new].parent = q.items[n].id
             /\ session[q.items[n].new].actor = q.who

\* No plaintext is shown by the dashboard without its audit row, if the
\* statement that writes it fails too ("every successful reveal writes one
\* user_credential_admin_reveal audit row before the response is rendered").
NoRevealUnlogged == revealed <= logged

\* Nothing that looks like a secret reaches the sessions table, directly or by
\* way of a retry.
NoSecretStored == \A s \in Sids : session[s].row # "secret"

\* Credentials go to their owner's sessions and nowhere else: not to another
\* caller's session, not to the table in clear, not to a page unlogged.
CredInv == CredTypeOK /\ CredsAreTheActors /\ StrictNeedsBundle /\ NoRevealUnlogged /\ NoSecretStored

\* retry: "Submit a fresh session reusing the original's spec".  It reuses what
\* redaction has left of it.
RetryReusesSpec ==
    \A s \in Sids : (session[s].st # "none" /\ session[s].parent # 0)
                       => session[s].runs = session[session[s].parent].runs

-----------------------------------------------------------------------------
(* The inductive invariant behind CredInv and BatchAnswersEveryId          *)

\* Session ids are handed out in order, so a new row never replaces one.
SidsInOrder ==
    \E k \in 0..Cardinality(Sids) : {s \in Sids : session[s].st # "none"} = 1..k

\* What submit is about to create a session with is the caller's, and enough.
BundleInv(q) ==
    q.ph = "create" =>
        /\ \A e \in EnvNames : q.env[e].of \in {"none", "body", q.who}
        /\ Strict /\ RoleOf[q.who] # "admin" => BundleIsComplete(q.env)

\* A batch has answered a prefix of its ids and has the rest before it, and the
\* submit it is in is for the first of those.
Progress(q, op) ==
    /\ op.do = q.do /\ op.who = q.who
    /\ Len(op.ids) = Len(q.items) + Len(q.todo)
    /\ \A n \in 1..Len(q.items) : q.items[n].id = op.ids[n]
    /\ \A n \in 1..Len(q.todo) : q.todo[n] = op.ids[Len(q.items) + n]

BatchInv(q) ==
    IF InBatch(q)
    THEN /\ \E op \in SOps : Progress(q, op)
         /\ q.ph \in {"next", "lookup", "create", "done"}
         /\ q.ph = "done" => q.todo = << >>
         /\ q.ph \in {"lookup", "create"} => q.todo # << >> /\ q.parent = Head(q.todo)
    ELSE q.parent = 0 /\ q.ph # "next"

\* The sessions an answer names are there, and stay.
ItemsInv(q) ==
    \A n \in 1..Len(q.items) : LET i == q.items[n] IN
        i.new # 0 => /\ i.new \in Sids /\ session[i.new].st # "none"
                     /\ session[i.new].parent = i.id /\ session[i.new].actor = q.who

CallsInv == SidsInOrder /\ \A r \in SReqs : BundleInv(sreq[r]) /\ BatchInv(sreq[r]) /\ ItemsInv(sreq[r])

=============================================================================
