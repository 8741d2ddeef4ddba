-------------------------------- MODULE HITL --------------------------------
(***************************************************************************)
(* Human approval of tool calls: the runner's can_use_tool callback        *)
(* (session/client.py), the HITL coordinator (session/hitl/coordinator.py),*)
(* the wire bridge and the runner's proxy that carry requests of container *)
(* sessions (session/runner), and everybody who answers: the HTTP API,     *)
(* which records the decision in the hitl_requests table, the IM webhook   *)
(* and the dashboard, which do not, and the end of the session.            *)
(*                                                                         *)
(* As in SessionManager a step is what one coroutine does between awaits.  *)
(* The coordinator's lock is never held across one, so taking it is not a  *)
(* step.  Request ids are fresh, so each request is made once.             *)
(***************************************************************************)
EXTENDS Naturals, Sequences

CONSTANTS Sessions,
          Wire,       \* sessions of the docker / k8s_job executors
          Requests,   \* approval requests
          Owner,      \* the session a request belongs to
          Resolvers,  \* calls that answer a request; each is made at most once
          None        \* no request

ASSUME HITLAssumption ==
    /\ Wire \subseteq Sessions
    /\ Owner \in [Requests -> Sessions]
    /\ None \notin Requests

VARIABLES
    sess,       \* live, ending (its task was cancelled or has come to its end),
                \* stopping (the bridge is shut down), over (the runner is gone)
    asked,      \* the runner's view of each request
    sent,       \* tool.request frames on their way to the bridge
    fut,        \* the future of the coordinator's _pending entry, if there is one
    toRunner,   \* frames on their way to the runner of each wire session
    deaf,       \* wire sessions whose proxy has left its consume_loop
    row,        \* hitl_requests; version 0: no row, else the column's value plus one
    call,       \* the coroutines of the resolvers
    cut         \* wire sessions whose bridge.shutdown() was cancelled

vars == <<sess, asked, sent, fut, toRunner, deaf, row, call, cut>>

wireVars == <<sent, toRunner, deaf>>

Decision == {"accept", "deny"}
Row == [status : Decision \cup {"none"}, version : Nat]
Frame == [req : Requests \cup {None}, dec : Decision \cup {"shutdown"}]
\* The single and the batch endpoint of the API; the IM webhook and the dashboard.
Via == {"api", "batch", "chat"}
Call == [pc : {"idle", "version", "check", "set", "write", "done"},
         via : Via,
         req : Requests \cup {None}, dec : Decision, exp : Nat, won : BOOLEAN]

\* Entries, frames, rows and resolvers have their shapes.
TypeOK ==
    /\ sess \in [Sessions -> {"live", "ending", "stopping", "over"}]
    /\ asked \in [Requests -> {"no", "waiting", "gone"} \cup Decision]
    /\ sent \subseteq Requests
    /\ fut \in [Requests -> {"none", "open"} \cup Decision]
    /\ toRunner \in [Sessions -> Seq(Frame)]
    /\ deaf \subseteq Sessions
    /\ row \in [Requests -> Row]
    /\ call \in [Resolvers -> Call]
    /\ \A c \in Resolvers : call[c].pc # "idle" => call[c].req \in Requests
    /\ cut \subseteq Sessions

Init ==
    /\ sess = [s \in Sessions |-> "live"]
    /\ asked = [r \in Requests |-> "no"]
    /\ sent = {}
    /\ fut = [r \in Requests |-> "none"]
    /\ toRunner = [s \in Sessions |-> <<>>]
    /\ deaf = {}
    /\ row = [r \in Requests |-> [status |-> "none", version |-> 0]]
    /\ call = [c \in Resolvers |->
                 [pc |-> "idle", via |-> "api", req |-> None, dec |-> "deny",
                  exp |-> 0, won |-> FALSE]]
    /\ cut = {}

OfWire(r) == Owner[r] \in Wire
Answered(r) == fut[r] \in Decision

----------------------------------------------------------------------------
(* The runner asks *)

\* can_use_tool when the policy needs a human.  In process it registers with
\* the coordinator itself; over the wire it sends tool.request and waits in the
\* proxy, whether or not anybody still reads the frame or the answer.
Ask(r) ==
    /\ asked[r] = "no"
    /\ sess[Owner[r]] # "over"
    /\ asked' = [asked EXCEPT ![r] = "waiting"]
    /\ IF OfWire(r)
       THEN /\ sent' = IF sess[Owner[r]] = "stopping" THEN sent ELSE sent \cup {r}
            /\ UNCHANGED fut
       ELSE fut' = [fut EXCEPT ![r] = "open"] /\ UNCHANGED sent
    /\ UNCHANGED <<sess, toRunner, deaf, row, call, cut>>

\* WireBridge.run hands the frame to a task that registers the request, without
\* the session it belongs to.
BridgeReceives(r) ==
    /\ r \in sent
    /\ sess[Owner[r]] = "live"
    /\ sent' = sent \ {r}
    /\ fut' = [fut EXCEPT ![r] = "open"]
    /\ UNCHANGED <<sess, asked, toRunner, deaf, row, call, cut>>

\* Mutant: a frame whose decision the proxy does not find counts as deny.
DeliverDefault(r) ==
    /\ Answered(r)
    /\ fut' = [fut EXCEPT ![r] = "none"]
    /\ IF OfWire(r)
       THEN /\ toRunner' = IF sess[Owner[r]] = "over" THEN toRunner
                           ELSE [toRunner EXCEPT ![Owner[r]] =
                                   Append(@, [req |-> r, dec |-> "deny"])]
            /\ UNCHANGED asked
       ELSE /\ asked' = [asked EXCEPT ![r] = fut[r]]
            /\ UNCHANGED toRunner
    /\ UNCHANGED <<sess, sent, deaf, row, call, cut>>

\* Mutant: only approvals are sent over the wire.
DeliverAccepts(r) ==
    /\ Answered(r)
    /\ fut' = [fut EXCEPT ![r] = "none"]
    /\ IF OfWire(r)
       THEN /\ toRunner' = IF fut[r] = "deny" THEN toRunner
                           ELSE [toRunner EXCEPT ![Owner[r]] =
                                   Append(@, [req |-> r, dec |-> fut[r]])]
            /\ UNCHANGED asked
       ELSE /\ asked' = [asked EXCEPT ![r] = fut[r]]
            /\ UNCHANGED toRunner
    /\ UNCHANGED <<sess, sent, deaf, row, call, cut>>

\* The awaiter of the future runs: it takes the entry out and, over the wire,
\* sends tool.decision.
Deliver(r) ==
    /\ Answered(r)
    /\ fut' = [fut EXCEPT ![r] = "none"]
    /\ IF OfWire(r)
       THEN /\ toRunner' = IF sess[Owner[r]] = "over" THEN toRunner
                           ELSE [toRunner EXCEPT ![Owner[r]] =
                                   Append(@, [req |-> r, dec |-> fut[r]])]
            /\ UNCHANGED asked
       ELSE /\ asked' = [asked EXCEPT ![r] = fut[r]]
            /\ UNCHANGED toRunner
    /\ UNCHANGED <<sess, sent, deaf, row, call, cut>>

\* WireCoordinatorProxy.consume_loop: a decision wakes its request; shutdown
\* ends the loop and denies what is pending.
RunnerReceives(s) ==
    /\ toRunner[s] # <<>>
    /\ s \notin deaf
    /\ LET f == Head(toRunner[s]) IN
       \/ /\ f.dec \in Decision
          /\ asked' = [asked EXCEPT ![f.req] = IF @ = "waiting" THEN f.dec ELSE @]
          /\ UNCHANGED deaf
       \/ /\ f.dec = "shutdown"
          /\ asked' = [r \in Requests |-> IF Owner[r] = s /\ asked[r] = "waiting"
                                          THEN "deny" ELSE asked[r]]
          /\ deaf' = deaf \cup {s}
    /\ toRunner' = [toRunner EXCEPT ![s] = Tail(@)]
    /\ UNCHANGED <<sess, sent, fut, row, call, cut>>

----------------------------------------------------------------------------
(* Somebody answers *)

\* A coroutine that is done keeps only what it did.
SetCall(c, pc, exp, won) ==
    call' = [call EXCEPT ![c] =
               [pc |-> pc, via |-> IF pc = "done" THEN "api" ELSE @.via, req |-> @.req,
                dec |-> @.dec, exp |-> IF pc = "done" THEN 0 ELSE exp, won |-> won]]

\* The answer comes too late (409): the coroutine and its locals are gone.
Lose(c) ==
    call' = [call EXCEPT ![c] = [pc |-> "done", via |-> "api", req |-> @.req,
                                 dec |-> "deny", exp |-> 0, won |-> FALSE]]

\* The id a resolver uses is that of the request, unless the resolver puts the
\* session in front of it and the runner did not: over the wire the runner knows
\* no session id.
Hits(c) == call[c].via = "batch" \/ ~OfWire(call[c].req)

RowVersion(c) == IF Hits(c) THEN row[call[c].req].version ELSE 0

Records(c) == call[c].via # "chat"

\* The API's endpoints read the row's version first; the IM webhook and the
\* dashboard go straight to the coordinator.
Answer(c, r, d, via) ==
    /\ call[c].pc = "idle"
    /\ asked[r] # "no"
    /\ call' = [call EXCEPT ![c] =
                  [pc |-> IF via = "chat" THEN "check" ELSE "version", via |-> via,
                   req |-> r, dec |-> d, exp |-> 0, won |-> FALSE]]
    /\ UNCHANGED <<sess, asked, wireVars, fut, row, cut>>

ReadVersion(c) ==
    /\ call[c].pc = "version"
    /\ SetCall(c, "check", RowVersion(c), FALSE)
    /\ UNCHANGED <<sess, asked, wireVars, fut, row, cut>>

\* HITLCoordinator.resolve looks at the row (HITLAlreadyResolved) ...
CheckRow(c) ==
    /\ call[c].pc = "check"
    /\ IF RowVersion(c) = 0 THEN SetCall(c, "set", call[c].exp, FALSE) ELSE Lose(c)
    /\ UNCHANGED <<sess, asked, wireVars, fut, row, cut>>

\* Mutant: an answered future is answered again.
ResolveTwice(c) ==
    /\ call[c].pc = "set"
    /\ IF Hits(c) /\ fut[call[c].req] # "none"
       THEN /\ fut' = [fut EXCEPT ![call[c].req] = call[c].dec]
            /\ SetCall(c, IF Records(c) THEN "write" ELSE "done", call[c].exp, TRUE)
       ELSE Lose(c) /\ UNCHANGED fut
    /\ UNCHANGED <<sess, asked, wireVars, row, cut>>

\* ... and then sets the result of a future that is still open (HITLNotPending).
Resolve(c) ==
    /\ call[c].pc = "set"
    /\ IF Hits(c) /\ fut[call[c].req] = "open"
       THEN /\ fut' = [fut EXCEPT ![call[c].req] = call[c].dec]
            /\ SetCall(c, IF Records(c) THEN "write" ELSE "done", call[c].exp, TRUE)
       ELSE Lose(c) /\ UNCHANGED fut
    /\ UNCHANGED <<sess, asked, wireVars, row, cut>>

\* upsert_hitl: with an expected version a checked update, else a blind upsert.
WriteRow(c) ==
    LET r == call[c].req IN
    /\ call[c].pc = "write"
    /\ row' = IF call[c].exp \in {0, row[r].version}
              THEN [row EXCEPT ![r] = [status |-> call[c].dec, version |-> @.version + 1]]
              ELSE row
    /\ SetCall(c, "done", call[c].exp, call[c].won)
    /\ UNCHANGED <<sess, asked, wireVars, fut, cut>>

----------------------------------------------------------------------------
(* The session ends *)

\* Mutant: a decision the runner does not know.
CancelAllAborts(s) ==
    fut' = [r \in Requests |-> IF fut[r] = "open" /\ Owner[r] = s /\ s \notin Wire
                               THEN "aborted" ELSE fut[r]]

\* cancel_all(session_id): entries registered over the wire carry no session.
CancelAll(s) ==
    fut' = [r \in Requests |-> IF fut[r] = "open" /\ Owner[r] = s /\ s \notin Wire
                               THEN "deny" ELSE fut[r]]

\* SessionManager.cancel
Cancel(s) ==
    /\ sess[s] = "live"
    /\ sess' = [sess EXCEPT ![s] = "ending"]
    /\ CancelAll(s)
    /\ UNCHANGED <<asked, wireVars, row, call, cut>>

\* session.end, a timeout or a closed transport.
SessionEnds(s) ==
    /\ sess[s] = "live"
    /\ sess' = [sess EXCEPT ![s] = "ending"]
    /\ UNCHANGED <<asked, wireVars, fut, row, call, cut>>

SendShutdown(s) ==
    toRunner' = [toRunner EXCEPT ![s] = Append(@, [req |-> None, dec |-> "shutdown"])]

\* Mutant: the handlers of a bridge that shuts down are left alone.
ShutdownKeepsHandlers(s) ==
    /\ s \in Wire
    /\ sess[s] = "ending"
    /\ sess' = [sess EXCEPT ![s] = "stopping"]
    /\ SendShutdown(s)
    /\ sent' = {r \in sent : Owner[r] # s}
    /\ UNCHANGED <<asked, fut, deaf, row, call, cut>>

\* WireBridge.shutdown: tell the runner, cancel the handlers of its requests
\* (answered or not) and close the transport.
BridgeShutdown(s) ==
    /\ s \in Wire
    /\ sess[s] = "ending"
    /\ sess' = [sess EXCEPT ![s] = "stopping"]
    /\ SendShutdown(s)
    /\ sent' = {r \in sent : Owner[r] # s}
    /\ fut' = [r \in Requests |-> IF Owner[r] = s THEN "none" ELSE fut[r]]
    /\ UNCHANGED <<asked, deaf, row, call, cut>>

\* A second cancel() reaches the task before the frame is sent or before the
\* handlers are cancelled.
BridgeShutdownCut(s) ==
    /\ s \in Wire
    /\ sess[s] = "ending"
    /\ sess' = [sess EXCEPT ![s] = "stopping"]
    /\ SendShutdown(s) \/ UNCHANGED toRunner
    /\ sent' = {r \in sent : Owner[r] # s}
    /\ cut' = cut \cup {s}
    /\ UNCHANGED <<asked, fut, deaf, row, call>>

\* executor.stop: what the runner still waits for is over.  In process that
\* cancels the awaiter of the coordinator's future, answered or not.
StopRunner(s) ==
    /\ sess[s] = IF s \in Wire THEN "stopping" ELSE "ending"
    /\ sess' = [sess EXCEPT ![s] = "over"]
    /\ asked' = [r \in Requests |-> IF Owner[r] = s /\ asked[r] = "waiting"
                                    THEN "gone" ELSE asked[r]]
    /\ fut' = [r \in Requests |-> IF Owner[r] = s /\ s \notin Wire THEN "none" ELSE fut[r]]
    /\ toRunner' = [toRunner EXCEPT ![s] = <<>>]
    /\ UNCHANGED <<sent, deaf, row, call, cut>>

\* SessionManager.shutdown, when every task is over.
RelayShutdown ==
    /\ \A s \in Sessions : sess[s] = "over"
    /\ \E r \in Requests : fut[r] = "open"
    /\ fut' = [r \in Requests |-> IF fut[r] = "open" THEN "deny" ELSE fut[r]]
    /\ UNCHANGED <<sess, asked, wireVars, row, call, cut>>

----------------------------------------------------------------------------
CallStep(c) == ReadVersion(c) \/ CheckRow(c) \/ Resolve(c) \/ WriteRow(c)

TearDown(s) == BridgeShutdown(s) \/ BridgeShutdownCut(s) \/ StopRunner(s)

Next ==
    \/ \E r \in Requests : Ask(r) \/ BridgeReceives(r) \/ Deliver(r)
    \/ \E s \in Sessions : RunnerReceives(s) \/ Cancel(s) \/ SessionEnds(s) \/ TearDown(s)
    \/ \E c \in Resolvers :
         \/ CallStep(c)
         \/ \E r \in Requests, d \in Decision, via \in Via : Answer(c, r, d, via)
    \/ RelayShutdown

Spec == Init /\ [][Next]_vars

\* The event loop runs the awaiter of a future that is set, frames reach the
\* runner, and the end of a session is carried through.  Nobody has to answer or
\* to finish answering, the bridge need not read, and no session has to end.
Fairness ==
    /\ \A r \in Requests : WF_vars(Deliver(r))
    /\ \A s \in Sessions : WF_vars(RunnerReceives(s)) /\ WF_vars(TearDown(s))

FairSpec == Spec /\ Fairness

----------------------------------------------------------------------------
(* Properties *)

Won(c, r) == call[c].won /\ call[c].req = r

\* Among the resolvers of a request that race through the row check, the future
\* and the row, at most one wins; a tool runs only if the winner accepted, and
\* the recorded decision is the winner's.
OneDecision ==
    \A r \in Requests :
        /\ \A c, e \in Resolvers : Won(c, r) /\ Won(e, r) => c = e
        /\ asked[r] = "accept" => \E c \in Resolvers : Won(c, r) /\ call[c].dec = "accept"
        /\ row[r].version > 0 => \E c \in Resolvers : Won(c, r) /\ call[c].dec = row[r].status

\* A recorded approval that the runner took for a denial was given to a session
\* that was already being torn down.
RecordedIsDelivered ==
    \A r \in Requests :
        row[r].status = "accept" /\ asked[r] = "deny" => sess[Owner[r]] # "live"

\* When a session is over, the coordinator has no entry of it any more: nobody
\* can approve a tool call of a session that is gone.
NoGhostEntry ==
    \A r \in Requests :
        sess[Owner[r]] = "over" /\ Owner[r] \notin cut => fut[r] = "none"

\* Whoever answers a request, the runner learns of it or is stopped; and a
\* session that ends leaves no request waiting.
RequestsSettle ==
    \A r \in Requests :
        asked[r] = "waiting" /\ (Answered(r) \/ sess[Owner[r]] # "live") ~> asked[r] # "waiting"

----------------------------------------------------------------------------
(* The inductive invariant behind OneDecision and NoGhostEntry *)

NoWinner(r) == \A c \in Resolvers : ~Won(c, r)
Winner(r, d) == \E c \in Resolvers : Won(c, r) /\ call[c].dec = d

\* Only who has won writes, and it has won before.
CallsInv ==
    \A c \in Resolvers :
        /\ call[c].won => call[c].pc \in {"write", "done"}
        /\ call[c].pc = "write" => call[c].won

\* A future is opened once, and nobody has won before it is answered.
EntriesInv ==
    \A r \in Requests :
        /\ fut[r] = "open" => NoWinner(r) /\ r \notin sent /\ asked[r] # "no"
        /\ r \in sent => NoWinner(r) /\ fut[r] = "none" /\ asked[r] # "no"
        /\ asked[r] = "no" => NoWinner(r) /\ fut[r] = "none"
        /\ \A c, e \in Resolvers : Won(c, r) /\ Won(e, r) => c = e

\* An approval has a winner wherever it is on its way to the runner or the row.
ApprovalsInv ==
    /\ \A r \in Requests :
         /\ fut[r] = "accept" => Winner(r, "accept")
         /\ asked[r] = "accept" => Winner(r, "accept")
         /\ row[r].version > 0 => Winner(r, row[r].status)
    /\ \A s \in Sessions : \A i \in 1..Len(toRunner[s]) :
         toRunner[s][i].dec \in Decision =>
            /\ toRunner[s][i].req \in Requests
            /\ toRunner[s][i].dec = "accept" => Winner(toRunner[s][i].req, "accept")

\* The bridge of a session that stops has taken its entries out.
TornDownInv ==
    \A r \in Requests :
        /\ sess[Owner[r]] \in {"stopping", "over"} /\ Owner[r] \notin cut => fut[r] = "none"
        /\ Owner[r] \in cut \/ sess[Owner[r]] = "stopping" => Owner[r] \in Wire

HITLInv == CallsInv /\ EntriesInv /\ ApprovalsInv /\ TornDownInv

\* What RecordedIsDelivered needs besides: as long as its session is live, a
\* denial on its way to the runner is a winner's too, and no shutdown frame is on
\* its way.
Heeded(f) ==
    f.dec = "deny" /\ sess[Owner[f.req]] = "live" => Winner(f.req, "deny")

DenialsInv ==
    /\ \A r \in Requests :
         /\ sess[Owner[r]] = "live" /\ "deny" \in {fut[r], asked[r]} => Winner(r, "deny")
         /\ row[r].status \in Decision => row[r].version > 0
    /\ \A s \in Sessions : \A i \in 1..Len(toRunner[s]) :
         /\ Heeded(toRunner[s][i])
         /\ toRunner[s][i].dec = "shutdown" => sess[s] # "live"

----------------------------------------------------------------------------
(* A statement of the documentation that the code does not keep *)

\* hitl.py: 409 means that "another caller won the race": who is refused finds
\* the request answered or withdrawn.
ConflictMeansAnswered ==
    [][\A c \in Resolvers :
         call[c].via = "api" /\ call[c].pc = "set" /\ call'[c].pc = "done" /\ ~call'[c].won =>
            fut[call[c].req] # "open"]_vars
=============================================================================
