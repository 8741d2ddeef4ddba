----------------------------- MODULE Observers ------------------------------
(***************************************************************************)
(* The subscribers that only observe sessions: the span tree of            *)
(* tracing/subscriber.py and the gauges of tracing/metrics_subscriber.py.  *)
(* Each event class a subscriber follows has a queue and a task of its     *)
(* own: events of one class arrive in the order they were published,       *)
(* events of two classes in any order.  A queue is the log of its class    *)
(* and the position up to which its task has read it.                      *)
(***************************************************************************)
EXTENDS Integers, Sequences, FiniteSets

CONSTANTS OSessions,   \* sessions
          OTools,      \* tool requests, each of one session
          ToolOwner,   \* request -> its session
          OAsks,       \* pause and resume requests in a behaviour
          AskOf        \* request -> its session and the state it asks for

ASSUME ObserverAssumption ==
    /\ ToolOwner \in [OTools -> OSessions]
    /\ AskOf \in [OAsks -> [sid : OSessions, to : {"running", "paused"}]]

VARIABLES life,     \* session -> where its _run stands
          known,    \* session -> _session_states, as far as _run reads it
          paused,   \* _paused_set
          ask,      \* request -> how far pause() or resume() has come
          states,   \* log of SessionStateChanged
          calls,    \* log of ToolRequested
          results,  \* log of ToolResolved
          at,       \* consumer task -> entries read
          up,       \* OtelSubscriber's tasks run
          roots, runs, tools,   \* open spans: sessions, sessions, requests
          active,   \* the gauge gg_relay_sessions_active
          clocks    \* sessions whose duration clock runs

manager == <<life, known, paused, ask>>
logs    == <<states, calls, results>>
spans   == <<roots, runs, tools>>
gauges  == <<active, clocks>>
obsVars == <<manager, logs, at, up, spans, gauges>>

Terminal  == {"completed", "failed", "cancelled"}
ObsTasks  == {"otel_state", "otel_call", "otel_result", "metrics_state"}

ObsInit ==
    /\ life = [s \in OSessions |-> "queued"]
    /\ known = [s \in OSessions |-> "queued"]
    /\ paused = {} /\ ask = [q \in OAsks |-> "idle"]
    /\ states = <<>> /\ calls = <<>> /\ results = <<>>
    /\ at = [t \in ObsTasks |-> 0] /\ up = TRUE
    /\ roots = {} /\ runs = {} /\ tools = {} /\ active = 0 /\ clocks = {}

-----------------------------------------------------------------------------
(* SessionManager, as far as it publishes.  A publish that raises, or is   *)
(* cut short, may or may not have reached the subscribers' queues.         *)

StateEvent(s, from, to) == [sid |-> s, from |-> from, to |-> to]

TellStates(e) == states' = Append(states, e) /\ UNCHANGED <<calls, results>>

(* _run has its slot: the first RUNNING.                                   *)
RunStarts(s) ==
    /\ life[s] = "queued"
    /\ TellStates(StateEvent(s, "queued", "running"))
    /\ life' = [life EXCEPT ![s] = "running"]
    /\ known' = [known EXCEPT ![s] = "running"]
    /\ UNCHANGED <<paused, ask, at, up, spans, gauges>>

(* _run is cancelled in the queue, or at that publish, or it raises.       *)
RunNeverStarts(s) ==
    /\ life[s] = "queued"
    /\ TellStates(StateEvent(s, "queued", "running")) \/ UNCHANGED logs
    /\ life' = [life EXCEPT ![s] = "ending"]
    /\ UNCHANGED <<known, paused, ask, at, up, spans, gauges>>

(* _run's finally: the bookkeeping goes and from_state is read.            *)
RunFinishes(s) ==
    /\ life[s] = "running"
    /\ life' = [life EXCEPT ![s] = "ending"] /\ paused' = paused \ {s}
    /\ UNCHANGED <<known, ask, logs, at, up, spans, gauges>>

(* ... and the terminal event, unless the finally is cut short before it   *)
(* or it is refused (to = "nothing").                                      *)
RunEnds(s, to) ==
    /\ life[s] = "ending"
    /\ IF to = "nothing" THEN UNCHANGED logs
                         ELSE TellStates(StateEvent(s, known[s], to))
    /\ life' = [life EXCEPT ![s] = "ended"]
    /\ UNCHANGED <<known, paused, ask, at, up, spans, gauges>>

(* pause() and resume(): the directive goes to the bridge of a session     *)
(* that runs, is acknowledged while its runner answers, the row and        *)
(* _session_states are written, and at last the transition is published,   *)
(* whatever became of the session since the acknowledgement.  A request    *)
(* that is refused or raises on its way takes no further step.             *)
OtherOf(to) == IF to = "paused" THEN "running" ELSE "paused"

AskMoves(q, from, to) == ask[q] = from /\ ask' = [ask EXCEPT ![q] = to]

AskSends(q) ==
    LET s == AskOf[q].sid IN
    /\ AskMoves(q, "idle", "sent")
    /\ life[s] = "running" /\ (s \in paused <=> AskOf[q].to = "running")
    /\ UNCHANGED <<life, known, paused, logs, at, up, spans, gauges>>

AskIsAcked(q) ==
    LET s == AskOf[q].sid IN
    /\ AskMoves(q, "sent", "acked")
    /\ life[s] = "running" /\ (s \in paused <=> AskOf[q].to = "running")
    /\ paused' = IF s \in paused THEN paused \ {s} ELSE paused \cup {s}
    /\ UNCHANGED <<life, known, logs, at, up, spans, gauges>>

AskWrites(q) ==
    LET s == AskOf[q].sid IN
    /\ AskMoves(q, "acked", "written")
    /\ known' = [known EXCEPT ![s] = IF life[s] = "running" THEN AskOf[q].to ELSE @]
    /\ UNCHANGED <<life, paused, logs, at, up, spans, gauges>>

AskPublishes(q) ==
    /\ AskMoves(q, "written", "done")
    /\ TellStates(StateEvent(AskOf[q].sid, OtherOf(AskOf[q].to), AskOf[q].to))
    /\ UNCHANGED <<life, known, paused, at, up, spans, gauges>>

Published(log, r) == \E i \in 1 .. Len(log) : log[i] = r

PublishCall(r) ==
    /\ life[ToolOwner[r]] = "running" /\ ~Published(calls, r)
    /\ calls' = Append(calls, r)
    /\ UNCHANGED <<manager, states, results, at, up, spans, gauges>>

PublishResult(r) ==
    /\ life[ToolOwner[r]] = "running" /\ Published(calls, r) /\ ~Published(results, r)
    /\ results' = Append(results, r)
    /\ UNCHANGED <<manager, states, calls, at, up, spans, gauges>>

-----------------------------------------------------------------------------
(* OtelSubscriber *)

Reads(t, log) == /\ at[t] < Len(log)
                 /\ at' = [at EXCEPT ![t] = @ + 1]

(* _open_or_resume_run: the first RUNNING opens the root; every RUNNING    *)
(* without an open run opens one.                                          *)
OpenOrResumeRun(s) == roots' = roots \cup {s} /\ runs' = runs \cup {s} /\ UNCHANGED tools

EndRun(s) == runs' = runs \ {s} /\ UNCHANGED <<roots, tools>>

(* Mutant: the run that is open is left open.                              *)
TerminateKeepsRun(s) == roots' = roots \ {s} /\ UNCHANGED <<runs, tools>>

(* _terminate: the session's open tool spans, its run and, after the       *)
(* finalize span, its root are ended.                                      *)
Terminate(s) ==
    /\ tools' = {r \in tools : ToolOwner[r] # s}
    /\ runs' = runs \ {s} /\ roots' = roots \ {s}

OtelState ==
    /\ up /\ Reads("otel_state", states)
    /\ LET e == states[at["otel_state"] + 1] IN
       CASE e.to = "running" -> OpenOrResumeRun(e.sid)
         [] e.to = "paused"  -> EndRun(e.sid)
         [] OTHER            -> Terminate(e.sid)
    /\ UNCHANGED <<manager, logs, up, gauges>>

(* _on_tool_request: a span under the run, the root or nothing.            *)
OtelCall ==
    /\ up /\ Reads("otel_call", calls)
    /\ tools' = tools \cup {calls[at["otel_call"] + 1]}
    /\ UNCHANGED <<manager, logs, up, roots, runs, gauges>>

OtelResult ==
    /\ up /\ Reads("otel_result", results)
    /\ tools' = tools \ {results[at["otel_result"] + 1]}
    /\ UNCHANGED <<manager, logs, up, roots, runs, gauges>>

(* run()'s finally, at the end of the shutdown, ends every span that is    *)
(* still open; its tasks are cancelled, so nothing is read any more.       *)
OtelStop ==
    /\ up /\ up' = FALSE
    /\ \A s \in OSessions : life[s] = "ended"
    /\ roots' = {} /\ runs' = {} /\ tools' = {}
    /\ UNCHANGED <<manager, logs, at, gauges>>

-----------------------------------------------------------------------------
(* MetricsSubscriber *)

(* _on_state: every RUNNING raises the gauge, a terminal state lowers it   *)
(* only when it is entered from RUNNING; the first RUNNING starts the      *)
(* duration clock and the terminal state stops it.                         *)
MetricsState ==
    /\ Reads("metrics_state", states)
    /\ LET e == states[at["metrics_state"] + 1] IN
       /\ active' = CASE e.to = "running" -> active + 1
                      [] e.to \in Terminal /\ e.from = "running" -> active - 1
                      [] OTHER -> active
       /\ clocks' = CASE e.to = "running" -> clocks \cup {e.sid}
                      [] e.to \in Terminal -> clocks \ {e.sid}
                      [] OTHER -> clocks
    /\ UNCHANGED <<manager, logs, up, spans>>

ObsNext ==
    \/ \E s \in OSessions :
         \/ RunStarts(s) \/ RunNeverStarts(s) \/ RunFinishes(s)
         \/ \E to \in Terminal \cup {"nothing"} : RunEnds(s, to)
    \/ \E q \in OAsks : AskSends(q) \/ AskIsAcked(q) \/ AskWrites(q) \/ AskPublishes(q)
    \/ \E r \in OTools : PublishCall(r) \/ PublishResult(r)
    \/ OtelState \/ OtelCall \/ OtelResult \/ OtelStop \/ MetricsState

ObsSpec == ObsInit /\ [][ObsNext]_obsVars

-----------------------------------------------------------------------------
CaughtUp(t, log) == at[t] = Len(log)

TellsOf(i, s, kinds) == states[i].sid = s /\ states[i].to \in kinds

(* A RUNNING of s was published, its terminal event was, and the first of  *)
(* them came after the second.                                             *)
Announced(s) == \E i \in 1 .. Len(states) : TellsOf(i, s, {"running"})
Told(s)      == \E i \in 1 .. Len(states) : TellsOf(i, s, Terminal)
Late(s)      == \E i, j \in 1 .. Len(states) :
                  i < j /\ TellsOf(i, s, Terminal) /\ TellsOf(j, s, {"running"})

(* What is left open of s is owed to the manager, not to its subscribers:  *)
(* s did not end, or its end was never told, or it was said to run again   *)
(* after its end.                                                          *)
Owed(s) == life[s] # "ended" \/ ~Told(s) \/ Late(s)

(* The span tree is a tree and closes: an open run has an open root, and   *)
(* once OtelSubscriber has read all transitions it holds a root only of a  *)
(* session that the manager owes it an end of.  A late PAUSED, in          *)
(* particular, reopens nothing.                                            *)
SpansCloseWithSession ==
    /\ runs \subseteq roots
    /\ CaughtUp("otel_state", states) => \A s \in roots : Announced(s) /\ Owed(s)

(* MetricsSubscriber's _start_times, once all transitions are read: every  *)
(* running session has an entry, and a session that was said to run has    *)
(* one exactly as long as the manager owes its end.                        *)
ClocksFollowSessions ==
    CaughtUp("metrics_state", states) =>
      \A s \in OSessions : /\ life[s] = "running" => s \in clocks
                          /\ s \in clocks <=> Announced(s) /\ Owed(s)

(* Spans and clocks let go of a session whose end was told, in whichever   *)
(* order the classes of its events are read and however its pauses and     *)
(* resumes are acknowledged and published.                                 *)
ObserversInv == SpansCloseWithSession /\ ClocksFollowSessions

(* What MetricsSubscriber's comment says of _start_times ("Cleared at the  *)
(* terminal transition"; an entry without one "is bounded by the           *)
(* SessionManager's own state-machine guarantees"): refuted by a resume    *)
(* that publishes its RUNNING after the session's end.                     *)
ClocksAreCleared ==
    CaughtUp("metrics_state", states) => \A s \in clocks : ~Told(s)

(* What _terminate's comment claims of tool spans ("otherwise a            *)
(* crashed/forgotten ToolResolved would leak the grandchild span past its  *)
(* parent root"): none outlives its session.                               *)
ToolSpansCloseWithSession ==
    (\A t \in ObsTasks : at[t] = Len(CASE t = "otel_call" -> calls
                                      [] t = "otel_result" -> results
                                      [] OTHER -> states)) =>
      \A r \in tools : ~Told(ToolOwner[r])

(* What the gauge's help text says ("Sessions currently in RUNNING state").*)
GaugeCountsRunning ==
    CaughtUp("metrics_state", states) =>
      active = Cardinality({s \in OSessions : life[s] = "running" /\ s \notin paused})

=============================================================================
