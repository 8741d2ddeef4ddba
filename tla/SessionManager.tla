--------------------------- MODULE SessionManager ---------------------------
(***************************************************************************)
(* The in-process orchestrator of gg-relay (session/manager.py) together   *)
(* with the rows it keeps in the sessions table (store/repository.py) and  *)
(* the pause/resume directives it exchanges with a session's runner        *)
(* (session/control.py, session/runner).                                   *)
(*                                                                         *)
(* The manager runs on one asyncio event loop: the code between two awaits *)
(* is atomic, and every await is a point where another coroutine may run.  *)
(* A step below is what a coroutine does from one await to the next.  The  *)
(* coroutines are the per-session background task (_run), the API requests *)
(* that pause or resume a session (Calls), cancellations, the paused-      *)
(* timeout watchdogs and shutdown.                                         *)
(***************************************************************************)
EXTENDS Naturals, FiniteSets, Sequences

CONSTANTS Sessions,         \* session ids
          Calls,            \* pause/resume API requests; each is issued at most once
          Keys,             \* API keys
          KeyOf,            \* the API key a session was submitted with
          Wire,             \* sessions of the docker / k8s_job executors
          None,             \* the target of a request that was not issued
          Outcomes,         \* how a drive may end without being cancelled
          MaxConcurrent,    \* size of the semaphore
          MaxPaused,        \* global cap on paused sessions
          MaxPausedPerKey,  \* cap on paused sessions of one API key
          ShutsDown         \* whether the process is shut down in this behaviour

Terminal == {"completed", "failed", "cancelled"}

ASSUME SessionManagerAssumption ==
    /\ IsFiniteSet(Sessions) /\ IsFiniteSet(Calls)
    /\ None \notin Sessions
    /\ KeyOf \in [Sessions -> Keys]
    /\ Wire \subseteq Sessions
    /\ Outcomes \subseteq Terminal
    /\ MaxConcurrent \in Nat \ {0}
    /\ MaxPaused \in Nat
    /\ MaxPausedPerKey \in Nat
    /\ ShutsDown \in BOOLEAN

VARIABLES
    row,          \* sessions table: status and optimistic-locking version
    accepting,    \* _accepting_new
    sem,          \* value of _sem
    task,         \* where each session's _run coroutine is suspended
    expv,         \* expected_version held by _run between a read and its write
    endStatus,    \* _run's local end_status
    acquired,     \* _run's local acquired_slot, until the slot is given back
    cancelReq,    \* task.cancel() was called, CancelledError not yet raised
    inFlight,     \* _executors_in_flight
    bridges,      \* _bridges
    pausedSet,    \* _paused_set (and _paused_at)
    holdsSlot,    \* _paused_holds_slot
    pausedByKey,  \* _paused_by_key
    keyed,        \* _api_key_by_session (and _owner_by_session)
    timer,        \* _paused_timers
    call,         \* the API requests' coroutines
    inbox,        \* directives on their way to each runner's ControlLoop
    runnerPaused, \* ControlLoop._paused of each runner
    shut,         \* where shutdown() is suspended
    toSettle      \* the sessions shutdown() is iterating over or waiting for

rowVars   == <<row>>
pauseVars == <<pausedSet, holdsSlot, pausedByKey>>
runVars   == <<expv, endStatus, acquired, inFlight>>
ctlVars   == <<inbox, runnerPaused>>
shutVars  == <<accepting, shut, toSettle>>

vars == <<row, sem, task, cancelReq, bridges, keyed, timer, call,
          expv, endStatus, acquired, inFlight,
          pausedSet, holdsSlot, pausedByKey,
          inbox, runnerPaused, accepting, shut, toSettle>>

Status == {"absent", "queued", "running", "paused"} \cup Terminal

Row == [status : Status, version : Nat]

\* Suspension points of submit() ("persisted") and then of _run().
Driving == {"rtRead", "rtWrite", "rtRetry", "drive"}
Starting == {"slot", "mkRead", "mkWrite", "mkRetry", "prepare", "start"}
Finishing == {"finRead", "finWrite", "finRetry", "flush"}
TaskPC == {"none", "persisted", "created", "stop", "done"}
            \cup Starting \cup Driving \cup Finishing

PausePC == {"pRead", "pAck", "pWrite", "pRetry", "pArm"}
ResumePC == {"rRead", "rSlot", "rAck", "rWrite", "rRetry"}
Call == [pc : {"idle", "done"} \cup PausePC \cup ResumePC,
         sid : Sessions \cup {None},
         exp : Nat]

Directive == [op : {"pause", "resume"}, by : Calls]

\* The manager's tables and counters have their shapes; neither the semaphore nor a
\* per-key count is ever negative.
TypeOK ==
    /\ row \in [Sessions -> Row]
    /\ accepting \in BOOLEAN
    /\ sem \in Nat
    /\ task \in [Sessions -> TaskPC]
    /\ expv \in [Sessions -> Nat]
    /\ endStatus \in [Sessions -> Terminal]
    /\ acquired \in [Sessions -> BOOLEAN]
    /\ cancelReq \subseteq Sessions
    /\ inFlight \subseteq Sessions
    /\ bridges \subseteq Sessions
    /\ pausedSet \subseteq Sessions
    /\ holdsSlot \subseteq Sessions
    /\ pausedByKey \in [Keys -> Nat]
    /\ keyed \subseteq Sessions
    /\ timer \in [Sessions -> {"none", "armed", "firing"}]
    /\ call \in [Calls -> Call]
    /\ \A c \in Calls : call[c].pc # "idle" => call[c].sid \in Sessions
    /\ inbox \in [Sessions -> Seq(Directive)]
    /\ runnerPaused \subseteq Sessions
    /\ shut \in {"no", "paused", "grace", "gather", "done"}
    /\ toSettle \subseteq Sessions

Init ==
    /\ row = [s \in Sessions |-> [status |-> "absent", version |-> 0]]
    /\ accepting = TRUE
    /\ sem = MaxConcurrent
    /\ task = [s \in Sessions |-> "none"]
    /\ expv = [s \in Sessions |-> 0]
    /\ endStatus = [s \in Sessions |-> "completed"]
    /\ acquired = [s \in Sessions |-> FALSE]
    /\ cancelReq = {}
    /\ inFlight = {}
    /\ bridges = {}
    /\ pausedSet = {}
    /\ holdsSlot = {}
    /\ pausedByKey = [k \in Keys |-> 0]
    /\ keyed = {}
    /\ timer = [s \in Sessions |-> "none"]
    /\ call = [c \in Calls |-> [pc |-> "idle", sid |-> None, exp |-> 0]]
    /\ inbox = [s \in Sessions |-> <<>>]
    /\ runnerPaused = {}
    /\ shut = "no"
    /\ toSettle = {}

----------------------------------------------------------------------------
(* Helpers *)

\* update_session_status: a successful write bumps the version.
Bump(s, st) == row' = [row EXCEPT ![s] = [status |-> st, version |-> @.version + 1]]

\* Tasks in _running_tasks that are not done.
LiveTask(s) == task[s] \notin {"none", "persisted", "done"}

ArmTimer(s) == timer' = [timer EXCEPT ![s] = "armed"]
CancelTimer(s) == timer' = [timer EXCEPT ![s] = "none"]

\* Mutant: the per-key count is lowered for sessions that were never paused.
ReleaseKeyAlways(s) ==
    pausedByKey' =
        IF s \in keyed /\ pausedByKey[KeyOf[s]] > 0
        THEN [pausedByKey EXCEPT ![KeyOf[s]] = @ - 1]
        ELSE pausedByKey

\* Mutant: the per-key count is lowered without looking at it.
ReleaseKeyBlindly(s) ==
    pausedByKey' =
        IF s \in keyed THEN [pausedByKey EXCEPT ![KeyOf[s]] = @ - 1] ELSE pausedByKey

\* _release_pause_bookkeeping(sid, keep_holds): the per-key count is lowered
\* only for a session that was in the paused set and still has its key.
ReleaseKey(s) ==
    pausedByKey' =
        IF s \in pausedSet /\ s \in keyed /\ pausedByKey[KeyOf[s]] > 0
        THEN [pausedByKey EXCEPT ![KeyOf[s]] = @ - 1]
        ELSE pausedByKey

ReleasePauseBookkeeping(s) ==
    /\ pausedSet' = pausedSet \ {s}
    /\ holdsSlot' = holdsSlot \ {s}
    /\ ReleaseKey(s)

\* _check_paused_caps
CapsAllow(s) ==
    /\ Cardinality(pausedSet) < MaxPaused
    /\ s \in keyed => pausedByKey[KeyOf[s]] < MaxPausedPerKey

\* cancel(), after its audit write: it reads nothing before that await.
CancelBody(s) ==
    /\ CancelTimer(s)
    /\ IF s \in pausedSet
       THEN ReleasePauseBookkeeping(s)
       ELSE UNCHANGED pauseVars
    /\ cancelReq' = IF LiveTask(s) THEN cancelReq \cup {s} ELSE cancelReq

Goto(s, pc) == task' = [task EXCEPT ![s] = pc]

----------------------------------------------------------------------------
(* submit() *)

\* Mutant: the id of an ended session is used again.
SubmitReusesId(s) ==
    /\ accepting
    /\ task[s] \in {"none", "done"}
    /\ row' = [row EXCEPT ![s] = [status |-> "queued", version |-> 0]]
    /\ Goto(s, "persisted")
    /\ UNCHANGED <<sem, cancelReq, bridges, keyed, timer, call,
                   runVars, pauseVars, ctlVars, shutVars>>

\* The _accepting_new check, then create_session persists the queued row.
SubmitRow(s) ==
    /\ accepting
    /\ task[s] = "none"
    /\ row' = [row EXCEPT ![s] = [status |-> "queued", version |-> 0]]
    /\ Goto(s, "persisted")
    /\ UNCHANGED <<sem, cancelReq, bridges, keyed, timer, call,
                   runVars, pauseVars, ctlVars, shutVars>>

\* After the audit write and the SessionCreated event: register the session
\* and create the task.  _accepting_new is not looked at again.
SubmitTask(s) ==
    /\ task[s] = "persisted"
    /\ keyed' = keyed \cup {s}
    /\ Goto(s, "created")
    /\ UNCHANGED <<rowVars, sem, cancelReq, bridges, timer, call,
                   runVars, pauseVars, ctlVars, shutVars>>

----------------------------------------------------------------------------
(* _run().  A step of the task is possible only while no CancelledError is  *)
(* due; TaskCancelled delivers one.                                         *)

Ready(s, pc) == task[s] = pc /\ s \notin cancelReq

RunStart(s) ==
    /\ Ready(s, "created")
    /\ Goto(s, "slot")
    /\ UNCHANGED <<rowVars, sem, cancelReq, bridges, keyed, timer, call,
                   runVars, pauseVars, ctlVars, shutVars>>

\* Mutant: the last free slot is never handed out.
AcquireSlotKeepsOne(s) ==
    /\ Ready(s, "slot")
    /\ sem > 1
    /\ sem' = sem - 1
    /\ acquired' = [acquired EXCEPT ![s] = TRUE]
    /\ Goto(s, "mkRead")
    /\ UNCHANGED <<rowVars, cancelReq, bridges, keyed, timer, call,
                   expv, endStatus, inFlight, pauseVars, ctlVars, shutVars>>

AcquireSlot(s) ==
    /\ Ready(s, "slot")
    /\ sem > 0
    /\ sem' = sem - 1
    /\ acquired' = [acquired EXCEPT ![s] = TRUE]
    /\ Goto(s, "mkRead")
    /\ UNCHANGED <<rowVars, cancelReq, bridges, keyed, timer, call,
                   expv, endStatus, inFlight, pauseVars, ctlVars, shutVars>>

\* _update_status_locked without an anchor first reads the row's version.
ReadVersion(s, from, to) ==
    /\ Ready(s, from)
    /\ expv' = [expv EXCEPT ![s] = row[s].version]
    /\ Goto(s, to)
    /\ UNCHANGED <<rowVars, sem, cancelReq, bridges, keyed, timer, call, endStatus,
                   acquired, inFlight, pauseVars, ctlVars, shutVars>>

\* The first version-checked UPDATE; on a mismatch it sleeps and tries again
\* with the version it was told.
LockedWrite(s, from, retry, next, st) ==
    /\ Ready(s, from)
    /\ IF row[s].version = expv[s]
       THEN Bump(s, st) /\ Goto(s, next) /\ expv' = [expv EXCEPT ![s] = 0]
       ELSE /\ expv' = [expv EXCEPT ![s] = row[s].version]
            /\ Goto(s, retry)
            /\ UNCHANGED row
    /\ UNCHANGED <<sem, cancelReq, keyed, timer, call, endStatus,
                   acquired, inFlight, pauseVars, ctlVars, shutVars>>

\* The second attempt: _run suppresses a second ConcurrencyError.
LockedRetry(s, retry, next, st) ==
    /\ Ready(s, retry)
    /\ IF row[s].version = expv[s] THEN Bump(s, st) ELSE UNCHANGED row
    /\ expv' = [expv EXCEPT ![s] = 0]
    /\ Goto(s, next)
    /\ UNCHANGED <<sem, cancelReq, keyed, timer, call, endStatus,
                   acquired, inFlight, pauseVars, ctlVars, shutVars>>

LockedUpdate(s, write, retry, next, st) ==
    LockedWrite(s, write, retry, next, st) \/ LockedRetry(s, retry, next, st)

MarkRunning(s) ==
    \/ ReadVersion(s, "mkRead", "mkWrite")
    \/ LockedUpdate(s, "mkWrite", "mkRetry", "prepare", "running") /\ UNCHANGED bridges

\* Mutant: the pause bookkeeping of a paused session outlives its task.
FinallyKeepsPause(s) ==
    /\ sem' = IF acquired[s] /\ s \notin holdsSlot THEN sem + 1 ELSE sem
    /\ acquired' = [acquired EXCEPT ![s] = FALSE]
    /\ CancelTimer(s)
    /\ bridges' = bridges \ {s}
    /\ keyed' = keyed \ {s}
    /\ Goto(s, "finRead")
    /\ UNCHANGED pauseVars

\* The finally block up to its first await: give the slot back unless pause()
\* already did, then drop every per-session entry.
Finally(s) ==
    /\ sem' = IF acquired[s] /\ s \notin holdsSlot THEN sem + 1 ELSE sem
    /\ acquired' = [acquired EXCEPT ![s] = FALSE]
    /\ CancelTimer(s)
    /\ ReleasePauseBookkeeping(s)
    /\ bridges' = bridges \ {s}
    /\ keyed' = keyed \ {s}
    /\ Goto(s, "finRead")

\* _prepare_plugins succeeded; _start_executor registers the executor.
PreparePlugins(s) ==
    /\ Ready(s, "prepare")
    /\ inFlight' = inFlight \cup {s}
    /\ Goto(s, "start")
    /\ UNCHANGED <<rowVars, sem, cancelReq, bridges, keyed, timer, call,
                   expv, endStatus, acquired, pauseVars, ctlVars, shutVars>>

\* assembler.prepare or executor.start raised: no handle, nothing is stopped.
StartFails(s) ==
    /\ Ready(s, "prepare") \/ Ready(s, "start")
    /\ endStatus' = [endStatus EXCEPT ![s] = "failed"]
    /\ Finally(s)
    /\ UNCHANGED <<rowVars, cancelReq, call, expv, inFlight, ctlVars, shutVars>>

\* executor.start returned a handle; in-process handles carry the bridge.
StartExecutor(s) ==
    /\ Ready(s, "start")
    /\ bridges' = IF s \in Wire THEN bridges ELSE bridges \cup {s}
    /\ Goto(s, "rtRead")
    /\ UNCHANGED <<rowVars, sem, cancelReq, keyed, timer, call,
                   runVars, pauseVars, ctlVars, shutVars>>

\* The runtime_id write: the status stays, the version moves.  When it is
\* through, _drive_session registers the WireBridge of a wire session.
OpenWireBridge(s) ==
    bridges' = IF s \in Wire /\ task'[s] = "drive" THEN bridges \cup {s} ELSE bridges

RecordRuntime(s) ==
    \/ ReadVersion(s, "rtRead", "rtWrite")
    \/ LockedUpdate(s, "rtWrite", "rtRetry", "drive", row[s].status) /\ OpenWireBridge(s)

\* _drive_session ends: session.end or a closed transport (completed), the
\* runner's exception (failed) or asyncio.timeout (cancelled).  The inner
\* finally takes the executor out of the table and awaits its stop().
DriveEnds(s, result) ==
    /\ Ready(s, "drive")
    /\ endStatus' = [endStatus EXCEPT ![s] = result]
    /\ inFlight' = inFlight \ {s}
    /\ Goto(s, "stop")
    /\ UNCHANGED <<rowVars, sem, cancelReq, bridges, keyed, timer, call,
                   expv, acquired, pauseVars, ctlVars, shutVars>>

\* executor.stop returned (its own exceptions are suppressed).
StopExecutor(s) ==
    /\ Ready(s, "stop")
    /\ Finally(s)
    /\ UNCHANGED <<rowVars, cancelReq, call, expv, endStatus, inFlight, ctlVars, shutVars>>

WriteTerminal(s) ==
    \/ ReadVersion(s, "finRead", "finWrite")
    \/ LockedUpdate(s, "finWrite", "finRetry", "flush", endStatus[s]) /\ UNCHANGED bridges

\* Aggregates and the terminal event; then the done-callback drops the task.
FlushAndExit(s) ==
    /\ Ready(s, "flush")
    /\ Goto(s, "done")
    /\ endStatus' = [endStatus EXCEPT ![s] = "completed"]   \* the local is gone
    /\ UNCHANGED <<rowVars, sem, cancelReq, bridges, keyed, timer, call,
                   expv, acquired, inFlight, pauseVars, ctlVars, shutVars>>

\* A CancelledError is raised at the await where the task is suspended.
CancelledBeforeStart(s) ==     \* the coroutine body, finally included, never runs
    /\ task[s] = "created"
    /\ Goto(s, "done")
    /\ UNCHANGED <<sem, bridges, keyed, timer, runVars, pauseVars>>

CancelledWhileStarting(s) ==
    /\ task[s] \in Starting
    /\ endStatus' = [endStatus EXCEPT ![s] = "cancelled"]
    /\ expv' = [expv EXCEPT ![s] = 0]
    /\ Finally(s)
    /\ UNCHANGED inFlight

CancelledWhileDriving(s) ==    \* the inner finally still stops the executor
    /\ task[s] \in Driving
    /\ endStatus' = [endStatus EXCEPT ![s] = "cancelled"]
    /\ expv' = [expv EXCEPT ![s] = 0]
    /\ inFlight' = inFlight \ {s}
    /\ Goto(s, "stop")
    /\ UNCHANGED <<sem, acquired, bridges, keyed, timer, pauseVars>>

CancelledWhileStopping(s) ==   \* swallowed by the in-process stop(), or raised
    /\ task[s] = "stop"
    /\ \/ UNCHANGED endStatus
       \/ endStatus' = [endStatus EXCEPT ![s] = "cancelled"]
    /\ Finally(s)
    /\ UNCHANGED <<expv, inFlight>>

CancelledWhileFinishing(s) ==  \* inside the finally block: the rest is skipped
    /\ task[s] \in Finishing
    /\ expv' = [expv EXCEPT ![s] = 0]
    /\ endStatus' = [endStatus EXCEPT ![s] = "completed"]
    /\ Goto(s, "done")
    /\ UNCHANGED <<sem, acquired, inFlight, bridges, keyed, timer, pauseVars>>

TaskCancelled(s) ==
    /\ s \in cancelReq
    /\ cancelReq' = cancelReq \ {s}
    /\ \/ CancelledBeforeStart(s)
       \/ CancelledWhileStarting(s)
       \/ CancelledWhileDriving(s)
       \/ CancelledWhileStopping(s)
       \/ CancelledWhileFinishing(s)
    /\ UNCHANGED <<rowVars, call, ctlVars, shutVars>>

----------------------------------------------------------------------------
(* The runner's ControlLoop.  A directive is acknowledged to the request    *)
(* that sent it unless that request gave up waiting (BridgeAckTimeout).  An *)
(* acknowledged request runs before anything the runner does afterwards, so *)
(* the acknowledgement and the request's next stretch are one step.         *)

RunnerAlive(s) == task[s] \in Driving

Waiting(d) == call[d.by].pc = IF d.op = "pause" THEN "pAck" ELSE "rAck"

SetCall(c, pc, exp) ==
    call' = [call EXCEPT ![c] = [pc |-> pc, sid |-> @.sid, exp |-> exp]]

Send(s, op, c) == inbox' = [inbox EXCEPT ![s] = Append(@, [op |-> op, by |-> c])]

\* pause() after a positive ack, up to its database write.
PauseAcked(c, s) ==
    /\ pausedSet' = pausedSet \cup {s}
    /\ holdsSlot' = holdsSlot \cup {s}
    /\ pausedByKey' = IF s \in keyed
                      THEN [pausedByKey EXCEPT ![KeyOf[s]] = @ + 1]
                      ELSE pausedByKey
    /\ sem' = IF s \in holdsSlot THEN sem ELSE sem + 1
    /\ SetCall(c, "pWrite", call[c].exp)
    /\ UNCHANGED timer

\* resume() after a positive ack: the slot it acquired now belongs to _run.
ResumeAcked(c, s) ==
    /\ ReleasePauseBookkeeping(s)
    /\ SetCall(c, "rWrite", call[c].exp)
    /\ UNCHANGED <<sem, timer>>

\* Mutant: a failed resume keeps the slot it acquired.
ResumeRefusedKeepsSlot(c, s) ==
    /\ SetCall(c, "done", 0)
    /\ ArmTimer(s)
    /\ UNCHANGED <<sem, pauseVars>>

\* ok = FALSE makes pause() raise; resume() first gives its slot back and
\* re-arms the watchdog.
PauseRefused(c) ==
    /\ SetCall(c, "done", 0)
    /\ UNCHANGED <<sem, timer, pauseVars>>

ResumeRefused(c, s) ==
    /\ SetCall(c, "done", 0)
    /\ sem' = sem + 1
    /\ ArmTimer(s)
    /\ UNCHANGED pauseVars

\* _handle_pause / _handle_resume: redundant directives are refused, and the
\* SDK call (interrupt / query) may raise.
RunnerServes(s, ok) ==
    /\ RunnerAlive(s)
    /\ inbox[s] # <<>>
    /\ LET d == Head(inbox[s]) IN
       /\ ok => IF d.op = "pause" THEN s \notin runnerPaused ELSE s \in runnerPaused
       /\ runnerPaused' = IF ~ok THEN runnerPaused
                          ELSE IF d.op = "pause" THEN runnerPaused \cup {s}
                          ELSE runnerPaused \ {s}
       /\ \/ ~Waiting(d) /\ UNCHANGED <<sem, timer, pauseVars, call>>
          \/ Waiting(d) /\ d.op = "pause" /\ ok /\ PauseAcked(d.by, s)
          \/ Waiting(d) /\ d.op = "pause" /\ ~ok /\ PauseRefused(d.by)
          \/ Waiting(d) /\ d.op = "resume" /\ ok /\ ResumeAcked(d.by, s)
          \/ Waiting(d) /\ d.op = "resume" /\ ~ok /\ ResumeRefused(d.by, s)
    /\ inbox' = [inbox EXCEPT ![s] = Tail(@)]
    /\ UNCHANGED <<rowVars, task, cancelReq, bridges, keyed, runVars, shutVars>>

----------------------------------------------------------------------------
(* pause() and resume() *)

At(c, pc) == call[c].pc = pc

PauseCall(c, s) ==
    /\ At(c, "idle")
    /\ s \in bridges \ pausedSet
    /\ CapsAllow(s)
    /\ call' = [call EXCEPT ![c] = [pc |-> "pRead", sid |-> s, exp |-> 0]]
    /\ UNCHANGED <<rowVars, sem, task, cancelReq, bridges, keyed, timer,
                   runVars, pauseVars, ctlVars, shutVars>>

\* Pausing a paused session only re-arms its watchdog.
PauseAgain(c, s) ==
    /\ At(c, "idle")
    /\ s \in bridges \cap pausedSet
    /\ ArmTimer(s)
    /\ call' = [call EXCEPT ![c] = [pc |-> "done", sid |-> s, exp |-> 0]]
    /\ UNCHANGED <<rowVars, sem, task, cancelReq, bridges, keyed,
                   runVars, pauseVars, ctlVars, shutVars>>

\* Read the version anchor, then bridge.pause sends the directive.
PauseRead(c) ==
    /\ At(c, "pRead")
    /\ SetCall(c, "pAck", row[call[c].sid].version)
    /\ Send(call[c].sid, "pause", c)
    /\ UNCHANGED <<rowVars, sem, task, cancelReq, bridges, keyed, timer,
                   runVars, pauseVars, runnerPaused, shutVars>>

PauseAckTimeout(c) ==
    /\ At(c, "pAck")
    /\ SetCall(c, "done", 0)
    /\ UNCHANGED <<rowVars, sem, task, cancelReq, bridges, keyed, timer,
                   runVars, pauseVars, ctlVars, shutVars>>

\* Mutant: the anchor is not compared on the first attempt.
CallWriteUnchecked(c, from, retry, next, st) ==
    LET s == call[c].sid IN
    /\ At(c, from)
    /\ Bump(s, st) /\ SetCall(c, next, 0)
    /\ UNCHANGED <<sem, task, cancelReq, bridges, keyed, timer,
                   runVars, pauseVars, ctlVars, shutVars>>

\* _update_status_locked anchored at the version read before the directive.
CallWrite(c, from, retry, next, st) ==
    LET s == call[c].sid IN
    /\ \/ /\ At(c, from)
          /\ IF row[s].version = call[c].exp
             THEN Bump(s, st) /\ SetCall(c, next, 0)
             ELSE SetCall(c, retry, row[s].version) /\ UNCHANGED row
       \/ /\ At(c, retry)
          /\ IF row[s].version = call[c].exp
             THEN Bump(s, st) /\ SetCall(c, next, 0)
             ELSE SetCall(c, "done", 0) /\ UNCHANGED row
    /\ UNCHANGED <<sem, task, cancelReq, bridges, keyed, timer,
                   runVars, pauseVars, ctlVars, shutVars>>

PauseWrite(c) == CallWrite(c, "pWrite", "pRetry", "pArm", "paused")

\* After the audit write and the event.
PauseArm(c) ==
    /\ At(c, "pArm")
    /\ ArmTimer(call[c].sid)
    /\ SetCall(c, "done", 0)
    /\ UNCHANGED <<rowVars, sem, task, cancelReq, bridges, keyed,
                   runVars, pauseVars, ctlVars, shutVars>>

ResumeCall(c, s) ==
    /\ At(c, "idle")
    /\ s \in bridges \cap pausedSet
    /\ CancelTimer(s)
    /\ call' = [call EXCEPT ![c] = [pc |-> "rRead", sid |-> s, exp |-> 0]]
    /\ UNCHANGED <<rowVars, sem, task, cancelReq, bridges, keyed,
                   runVars, pauseVars, ctlVars, shutVars>>

ResumeRead(c) ==
    /\ At(c, "rRead")
    /\ SetCall(c, "rSlot", row[call[c].sid].version)
    /\ UNCHANGED <<rowVars, sem, task, cancelReq, bridges, keyed, timer,
                   runVars, pauseVars, ctlVars, shutVars>>

\* The slot is re-acquired, then bridge.resume sends the directive.
ResumeAcquire(c) ==
    /\ At(c, "rSlot")
    /\ sem > 0
    /\ sem' = sem - 1
    /\ SetCall(c, "rAck", call[c].exp)
    /\ Send(call[c].sid, "resume", c)
    /\ UNCHANGED <<rowVars, task, cancelReq, bridges, keyed, timer,
                   runVars, pauseVars, runnerPaused, shutVars>>

\* resume_timeout_s elapsed: ResumeQueueTimeout.
ResumeSlotTimeout(c) ==
    /\ At(c, "rSlot")
    /\ ArmTimer(call[c].sid)
    /\ SetCall(c, "done", 0)
    /\ UNCHANGED <<rowVars, sem, task, cancelReq, bridges, keyed,
                   runVars, pauseVars, ctlVars, shutVars>>

ResumeAckTimeout(c) ==
    /\ At(c, "rAck")
    /\ ResumeRefused(c, call[c].sid)
    /\ UNCHANGED <<rowVars, task, cancelReq, bridges, keyed,
                   runVars, ctlVars, shutVars>>

ResumeWrite(c) == CallWrite(c, "rWrite", "rRetry", "done", "running")

----------------------------------------------------------------------------
(* cancel(), the paused-timeout watchdog and shutdown() *)

Cancel(s) ==
    /\ row[s].status # "absent"
    /\ CancelBody(s)
    /\ UNCHANGED <<rowVars, sem, task, bridges, keyed, call,
                   runVars, ctlVars, shutVars>>

\* The sleep is over: a session still in the paused set is to be cancelled,
\* after the audit write that cancel() starts with.
WatchdogFires(s) ==
    /\ timer[s] = "armed"
    /\ timer' = [timer EXCEPT ![s] = IF s \in pausedSet THEN "firing" ELSE "none"]
    /\ UNCHANGED <<rowVars, sem, task, cancelReq, bridges, keyed, call,
                   runVars, pauseVars, ctlVars, shutVars>>

WatchdogCancels(s) ==
    /\ timer[s] = "firing"
    /\ CancelBody(s)
    /\ UNCHANGED <<rowVars, sem, task, bridges, keyed, call,
                   runVars, ctlVars, shutVars>>

\* paused_action = "cancel" snapshots the paused set, "wait" skips it.
ShutdownStart ==
    /\ ShutsDown
    /\ shut = "no"
    /\ accepting' = FALSE
    /\ shut' = "paused"
    /\ toSettle' \in {pausedSet, {}}
    /\ UNCHANGED <<rowVars, sem, task, cancelReq, bridges, keyed, timer, call,
                   runVars, pauseVars, ctlVars>>

ShutdownCancelsPaused(s) ==
    /\ shut = "paused"
    /\ s \in toSettle
    /\ CancelBody(s)
    /\ toSettle' = toSettle \ {s}
    /\ UNCHANGED <<rowVars, sem, task, bridges, keyed, call,
                   runVars, ctlVars, accepting, shut>>

ShutdownWaits ==
    /\ shut = "paused"
    /\ toSettle = {}
    /\ shut' = "grace"
    /\ UNCHANGED <<rowVars, sem, task, cancelReq, bridges, keyed, timer, call,
                   runVars, pauseVars, ctlVars, accepting, toSettle>>

\* Mutant: the tasks left after the grace period are waited for, not cancelled.
ShutdownOnlyWaits ==
    /\ shut = "grace"
    /\ toSettle' = {s \in Sessions : LiveTask(s)}
    /\ shut' = "gather"
    /\ UNCHANGED <<rowVars, sem, task, cancelReq, bridges, keyed, timer, call,
                   runVars, pauseVars, ctlVars, accepting>>

\* No task is left, or the grace period is over and the rest is cancelled.
ShutdownGraceEnds ==
    /\ shut = "grace"
    /\ toSettle' = {s \in Sessions : LiveTask(s)}
    /\ cancelReq' = cancelReq \cup toSettle'
    /\ shut' = "gather"
    /\ UNCHANGED <<rowVars, sem, task, bridges, keyed, timer, call,
                   runVars, pauseVars, ctlVars, accepting>>

ShutdownDone ==
    /\ shut = "gather"
    /\ \A s \in toSettle : task[s] = "done"
    /\ toSettle' = {}
    /\ timer' = [s \in Sessions |-> "none"]
    /\ shut' = "done"
    /\ UNCHANGED <<rowVars, sem, task, cancelReq, bridges, keyed, call,
                   runVars, pauseVars, ctlVars, accepting>>

----------------------------------------------------------------------------
\* What _run does by itself; only the session or its timeout ends a drive.
RunStep(s) ==
    \/ RunStart(s) \/ MarkRunning(s) \/ PreparePlugins(s) \/ StartFails(s)
    \/ StartExecutor(s) \/ RecordRuntime(s)
    \/ StopExecutor(s) \/ WriteTerminal(s) \/ FlushAndExit(s) \/ TaskCancelled(s)

SessionEnds(s) == \E result \in Outcomes : DriveEnds(s, result)

CallStep(c) ==
    \/ PauseRead(c) \/ PauseAckTimeout(c) \/ PauseWrite(c) \/ PauseArm(c)
    \/ ResumeRead(c) \/ ResumeAcquire(c) \/ ResumeSlotTimeout(c)
    \/ ResumeAckTimeout(c) \/ ResumeWrite(c)

ShutdownStep ==
    \/ \E s \in Sessions : ShutdownCancelsPaused(s)
    \/ ShutdownWaits \/ ShutdownGraceEnds \/ ShutdownDone

Next ==
    \/ \E s \in Sessions :
         \/ SubmitRow(s) \/ SubmitTask(s) \/ AcquireSlot(s) \/ RunStep(s)
         \/ SessionEnds(s) \/ Cancel(s) \/ WatchdogFires(s) \/ WatchdogCancels(s)
         \/ \E ok \in BOOLEAN : RunnerServes(s, ok)
    \/ \E c \in Calls :
         \/ CallStep(c)
         \/ \E s \in Sessions : PauseCall(c, s) \/ PauseAgain(c, s) \/ ResumeCall(c, s)
    \/ ShutdownStart \/ ShutdownStep

Spec == Init /\ [][Next]_vars

\* Coroutines whose await is over are scheduled: the event loop runs every
\* ready callback.  A waiter of the semaphore is served in arrival order, so
\* one that could get a slot again and again gets it (strong fairness).
LoopFairness ==
    /\ \A s \in Sessions :
         WF_vars(SubmitTask(s)) /\ SF_vars(AcquireSlot(s)) /\ WF_vars(RunStep(s))
    /\ \A c \in Calls : WF_vars(CallStep(c))
    /\ WF_vars(ShutdownStep)

\* asyncio.timeout(timeout_s) ends every drive at the latest; it keeps running
\* while the session is paused.
TimeoutFairness == \A s \in Sessions : WF_vars(SessionEnds(s))

LoopSpec == Spec /\ LoopFairness
LiveSpec == LoopSpec /\ TimeoutFairness

----------------------------------------------------------------------------
(* Properties *)

\* Who has a slot: tasks that acquired one and were not told that pause() gave
\* it back, and resumes waiting for their acknowledgement.
SlotTasks == {s \in Sessions : acquired[s] /\ s \notin holdsSlot}
SlotResumes == {c \in Calls : At(c, "rAck")}
SlotOwners == Cardinality(SlotTasks) + Cardinality(SlotResumes)

\* What a step may do to the slots.
SlotsBalance ==
    \/ sem' + SlotOwners' = sem + SlotOwners
    \/ /\ \E s \in pausedSet : pausedSet' = pausedSet \ {s}
       /\ UNCHANGED <<task, call>>
    \/ \E c \in Calls : /\ At(c, "rAck")
                        /\ call'[c].pc = "rWrite"
                        /\ call[c].sid \notin pausedSet

\* Free and owned slots always add up to the same number, through every mixture
\* of pauses, resumes, refused or unanswered directives, failed starts and
\* cancellations, except at two places: cancel() of a paused session makes _run
\* give back a slot that pause() already gave back, and a resume acknowledged
\* for a session that is no longer in the paused set gives _run a second slot.
SlotsConserved == [][SlotsBalance]_vars

\* A session in _paused_set has a task that can still be resumed or torn down:
\* it holds a slot on loan, its bridge and its API key are registered.  A pause
\* acknowledged around the end of a session leaves no ghost behind.
PausedIsLive ==
    \A s \in pausedSet :
        /\ s \in holdsSlot \cap bridges \cap keyed
        /\ acquired[s]
        /\ task[s] \in Driving \cup {"stop"}

PausedOf(k) == {s \in pausedSet : KeyOf[s] = k}

\* What a step may do to the count of a key and to the paused sessions of it.
KeysBalance ==
    \A k \in Keys :
        \/ pausedByKey'[k] + Cardinality(PausedOf(k)) = pausedByKey[k] + Cardinality(PausedOf(k))'
        \/ \E c \in Calls : /\ At(c, "pAck") /\ call'[c].pc = "pWrite"
                            /\ call[c].sid \in PausedOf(k)
                            /\ pausedByKey'[k] = pausedByKey[k] + 1 /\ UNCHANGED pausedSet

\* The per-key counter that caps paused sessions moves with the number of paused
\* sessions of that key, whoever adds them to the paused set or removes them
\* from it, except at one place: a pause acknowledged for a session that is
\* already in the set (two pauses were sent, and a resume gave up waiting before
\* the runner obeyed it) is counted twice, although its slot is not given back
\* twice (pause(), _release_pause_bookkeeping).
KeyLedger == [][KeysBalance]_vars

\* The counter is never below the number of paused sessions of its key: no key
\* gets past its cap by pausing and cancelling.
NeverUndercounts == \A k \in Keys : pausedByKey[k] >= Cardinality(PausedOf(k))

\* A terminal row is rewritten only by the second attempt of a pause or resume
\* that lost the version race: the anchor read before the directive protects
\* every first attempt.
TerminalRewrittenOnlyByRetry ==
    [][\A s \in Sessions :
         row[s].status \in Terminal /\ row'[s] # row[s] =>
            \E c \in Calls : call[c].pc \in {"pRetry", "rRetry"} /\ call[c].sid = s]_vars

\* The rows and the tasks move together as SessionLifecycle says: only the
\* session's own task takes its row out of queued, a started row is never queued
\* again, and one terminal status never replaces another.
Lifecycle == INSTANCE SessionLifecycle WITH
    status <- [s \in Sessions |-> row[s].status],
    live <- [s \in Sessions |-> CASE task[s] = "none" -> "no"
                                   [] task[s] = "persisted" -> "pending"
                                   [] task[s] = "done" -> "over"
                                   [] OTHER -> "yes"]

\* What the manager does to its rows and tasks is what SessionLifecycle promises,
\* shut-downs, lost version races and repeated cancellations included (_run).
ImplementsLifecycle == Lifecycle!LifecycleSpec

\* A session whose task was created comes to its end, however often it is
\* paused, resumed or cancelled and however few slots there are, unless slots
\* were lost.
EverySessionEnds ==
    \A s \in Sessions :
        task[s] = "created" ~> task[s] = "done" \/ sem + SlotOwners < MaxConcurrent

\* shutdown() returns even if no session would ever end by itself.
ShutdownReturns == shut = "paused" ~> shut = "done"

----------------------------------------------------------------------------
(* The inductive invariant behind PausedIsLive and SlotsConserved *)

HoldingSlot == (Starting \ {"slot"}) \cup Driving \cup {"stop"}

\* What a task owns is a function of where it is suspended.
TaskOwns ==
    \A s \in Sessions :
        /\ acquired[s] <=> task[s] \in HoldingSlot
        /\ task[s] \in HoldingSlot => s \in keyed
        /\ task[s] \in {"created", "slot"} => s \in keyed
        /\ s \in bridges => task[s] \in Driving \cup {"stop"}

\* A directive, and a request at work, once found a bridge; it is only gone when
\* the task has entered its finally block.
BridgeSeen(s) == s \in bridges \/ task[s] \in Finishing \cup {"done"}

DirectivesOwned ==
    \A s \in Sessions : \A i \in 1..Len(inbox[s]) :
        /\ BridgeSeen(s)
        /\ ~At(inbox[s][i].by, "idle") /\ call[inbox[s][i].by].sid = s

CallsOwned ==
    \A c \in Calls : call[c].pc \in PausePC \cup ResumePC => BridgeSeen(call[c].sid)

ManagerInv ==
    /\ TaskOwns
    /\ DirectivesOwned
    /\ CallsOwned
    /\ PausedIsLive
    /\ holdsSlot = pausedSet

----------------------------------------------------------------------------
(* Statements of the documentation that the code does not keep *)

\* _run: "_paused_holds_slot tracks whether THIS coroutine still owns the slot
\* at finally time so we never over-release."
NeverOverRelease == sem + SlotOwners <= MaxConcurrent

\* _check_paused_caps: "Enforce max_paused (global)".
PausedWithinCap == Cardinality(pausedSet) <= MaxPaused

\* cancel(): "Cancel a running, queued, or paused session.  Cancels the
\* background task (which transitions the row to cancelled)".
QueuedCancelSettles ==
    \A s \in Sessions : task[s] = "done" => row[s].status # "queued"

\* docs/architecture.md: transitions "are validated [...]; invalid transitions
\* raise rather than silently mutate": a terminal row stays as it is.
TerminalIsFinal ==
    [][\A s \in Sessions :
         row[s].status \in Terminal => row'[s].status = row[s].status]_vars
=============================================================================
