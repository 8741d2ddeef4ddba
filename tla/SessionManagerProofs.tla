------------------------ MODULE SessionManagerProofs ------------------------
(***************************************************************************)
(* Theorems about SessionManager, for every number of sessions, requests   *)
(* and slots.                                                              *)
(***************************************************************************)
EXTENDS SessionManager, FiniteSetTheorems, TLAPS

\* Lemmas about the helpers that several steps share.
LEMMA BumpType ==
    ASSUME TypeOK, NEW s \in Sessions, NEW st \in Status, Bump(s, st)
    PROVE  row' \in [Sessions -> Row]
BY DEF TypeOK, Bump, Row

LEMMA ReleaseKeyType ==
    ASSUME TypeOK, NEW s \in Sessions, ReleaseKey(s)
    PROVE  pausedByKey' \in [Keys -> Nat]
BY SessionManagerAssumption DEF TypeOK, ReleaseKey

LEMMA FinallyType ==
    ASSUME TypeOK, NEW s \in Sessions, Finally(s)
    PROVE  /\ sem' \in Nat
           /\ acquired' \in [Sessions -> BOOLEAN]
           /\ timer' \in [Sessions -> {"none", "armed", "firing"}]
           /\ pausedSet' \subseteq Sessions
           /\ holdsSlot' \subseteq Sessions
           /\ pausedByKey' \in [Keys -> Nat]
           /\ bridges' \subseteq Sessions
           /\ keyed' \subseteq Sessions
           /\ task' \in [Sessions -> TaskPC]
<1>1. pausedByKey' \in [Keys -> Nat]
  BY ReleaseKeyType DEF Finally, ReleasePauseBookkeeping
<1>2. QED
  BY <1>1 DEF TypeOK, Finally, CancelTimer, ReleasePauseBookkeeping, Goto, TaskPC, Finishing

LEMMA CancelBodyType ==
    ASSUME TypeOK, NEW s \in Sessions, CancelBody(s)
    PROVE  /\ timer' \in [Sessions -> {"none", "armed", "firing"}]
           /\ pausedSet' \subseteq Sessions
           /\ holdsSlot' \subseteq Sessions
           /\ pausedByKey' \in [Keys -> Nat]
           /\ cancelReq' \subseteq Sessions
<1>1. pausedByKey' \in [Keys -> Nat]
  BY ReleaseKeyType DEF TypeOK, CancelBody, ReleasePauseBookkeeping, pauseVars
<1>2. QED
  BY <1>1 DEF TypeOK, CancelBody, CancelTimer, ReleasePauseBookkeeping, pauseVars

\* The steps of _update_status_locked, whoever uses them.
LEMMA LockedType ==
    ASSUME TypeOK, NEW s \in Sessions, NEW st \in Status,
           NEW from, NEW to \in TaskPC, NEW next \in TaskPC,
           \/ ReadVersion(s, from, to)
           \/ /\ LockedWrite(s, from, to, next, st) \/ LockedRetry(s, from, next, st)
              /\ bridges' \subseteq Sessions
    PROVE  TypeOK'
<1> USE DEF rowVars, pauseVars, ctlVars, shutVars, Goto, Ready
<1>1. CASE ReadVersion(s, from, to)
  BY <1>1 DEF TypeOK, ReadVersion, Row
<1>2. CASE LockedWrite(s, from, to, next, st) /\ bridges' \subseteq Sessions
  <2>1. row' \in [Sessions -> Row]
    BY <1>2, BumpType DEF LockedWrite, TypeOK
  <2>2. expv' \in [Sessions -> Nat] /\ task' \in [Sessions -> TaskPC]
    <3>1. row[s].version \in Nat
      BY DEF TypeOK, Row
    <3>2. \E v \in Nat : expv' = [expv EXCEPT ![s] = v]
      BY <1>2, <3>1 DEF LockedWrite
    <3>3. task' = [task EXCEPT ![s] = next] \/ task' = [task EXCEPT ![s] = to]
      BY <1>2 DEF LockedWrite
    <3>4. expv' \in [Sessions -> Nat]
      BY <3>2 DEF TypeOK
    <3>5. task' \in [Sessions -> TaskPC]
      BY <3>3 DEF TypeOK
    <3>6. QED
      BY <3>4, <3>5
  <2>3. QED
    BY <1>2, <2>1, <2>2 DEF LockedWrite, TypeOK
<1>3. CASE LockedRetry(s, from, next, st) /\ bridges' \subseteq Sessions
  <2>1. row' \in [Sessions -> Row]
    BY <1>3, BumpType DEF LockedRetry, TypeOK
  <2>2. QED
    BY <1>3, <2>1 DEF LockedRetry, TypeOK
<1>4. QED
  BY <1>1, <1>2, <1>3

LEMMA CallWriteType ==
    ASSUME TypeOK, NEW c \in Calls, NEW st \in Status, NEW from \in PausePC \cup ResumePC,
           NEW retry \in PausePC \cup ResumePC, NEW next \in PausePC \cup {"done"},
           CallWrite(c, from, retry, next, st)
    PROVE  TypeOK'
<1> USE DEF pauseVars, runVars, ctlVars, shutVars, At
<1>1. call[c].sid \in Sessions
  BY DEF TypeOK, CallWrite, PausePC, ResumePC
<1>2. row' \in [Sessions -> Row]
  BY <1>1, BumpType DEF CallWrite, TypeOK
<1>3. \E pc \in PausePC \cup ResumePC \cup {"done"}, exp \in Nat : SetCall(c, pc, exp)
  BY <1>1 DEF CallWrite, TypeOK, Row
<1>4. call' \in [Calls -> Call] /\ \A d \in Calls : call'[d].pc # "idle" => call'[d].sid \in Sessions
  BY <1>1, <1>3 DEF TypeOK, SetCall, Call, PausePC, ResumePC
<1>5. QED
  BY <1>2, <1>4 DEF CallWrite, TypeOK

\* Every step of the manager keeps every variable in its type.
LEMMA TypeStep == TypeOK /\ [Next]_vars => TypeOK'
<1> SUFFICES ASSUME TypeOK, [Next]_vars
             PROVE  TypeOK'
  OBVIOUS
<1> USE SessionManagerAssumption
        DEF rowVars, pauseVars, runVars, ctlVars, shutVars, Goto, Ready, At
<1>1. ASSUME NEW s \in Sessions, SubmitRow(s) PROVE TypeOK'
  BY <1>1 DEF TypeOK, SubmitRow, Row, Status, TaskPC
<1>2. ASSUME NEW s \in Sessions, SubmitTask(s) PROVE TypeOK'
  BY <1>2 DEF TypeOK, SubmitTask, TaskPC
<1>3. ASSUME NEW s \in Sessions, AcquireSlot(s) PROVE TypeOK'
  BY <1>3 DEF TypeOK, AcquireSlot, TaskPC, Starting
<1>4. ASSUME NEW s \in Sessions, RunStart(s) PROVE TypeOK'
  BY <1>4 DEF TypeOK, RunStart, TaskPC, Starting
<1>5. ASSUME NEW s \in Sessions, MarkRunning(s) PROVE TypeOK'
  <2>1. bridges' \subseteq Sessions
    BY <1>5 DEF MarkRunning, ReadVersion, TypeOK
  <2>2. {"mkWrite", "mkRetry", "prepare"} \subseteq TaskPC /\ "running" \in Status
    BY DEF TaskPC, Starting, Status
  <2>3. QED
    BY <1>5, <2>1, <2>2, LockedType DEF MarkRunning, LockedUpdate
<1>6. ASSUME NEW s \in Sessions, RecordRuntime(s) PROVE TypeOK'
  <2>1. bridges' \subseteq Sessions
    BY <1>6 DEF RecordRuntime, ReadVersion, OpenWireBridge, TypeOK
  <2>2. {"rtWrite", "rtRetry", "drive"} \subseteq TaskPC /\ row[s].status \in Status
    BY DEF TaskPC, Driving, TypeOK, Row
  <2>3. QED
    BY <1>6, <2>1, <2>2, LockedType DEF RecordRuntime, LockedUpdate
<1>7. ASSUME NEW s \in Sessions, WriteTerminal(s) PROVE TypeOK'
  <2>1. bridges' \subseteq Sessions
    BY <1>7 DEF WriteTerminal, ReadVersion, TypeOK
  <2>2. {"finWrite", "finRetry", "flush"} \subseteq TaskPC /\ endStatus[s] \in Status
    BY DEF TaskPC, Finishing, TypeOK, Status
  <2>3. QED
    BY <1>7, <2>1, <2>2, LockedType DEF WriteTerminal, LockedUpdate
<1>8. ASSUME NEW s \in Sessions, PreparePlugins(s) PROVE TypeOK'
  BY <1>8 DEF TypeOK, PreparePlugins, TaskPC, Starting
<1>9. ASSUME NEW s \in Sessions, StartFails(s) PROVE TypeOK'
  BY <1>9, FinallyType DEF TypeOK, StartFails, Terminal
<1>10. ASSUME NEW s \in Sessions, StartExecutor(s) PROVE TypeOK'
  BY <1>10 DEF TypeOK, StartExecutor, TaskPC, Driving
<1>11. ASSUME NEW s \in Sessions, NEW result \in Outcomes, DriveEnds(s, result) PROVE TypeOK'
  BY <1>11, SessionManagerAssumption DEF TypeOK, DriveEnds, TaskPC
<1>12. ASSUME NEW s \in Sessions, StopExecutor(s) PROVE TypeOK'
  BY <1>12, FinallyType DEF TypeOK, StopExecutor
<1>13. ASSUME NEW s \in Sessions, FlushAndExit(s) PROVE TypeOK'
  BY <1>13 DEF TypeOK, FlushAndExit, TaskPC, Terminal
<1>14. ASSUME NEW s \in Sessions, TaskCancelled(s) PROVE TypeOK'
  <2>1. CASE CancelledBeforeStart(s)
    BY <1>14, <2>1 DEF TypeOK, TaskCancelled, CancelledBeforeStart, TaskPC
  <2>2. CASE CancelledWhileStarting(s)
    BY <1>14, <2>2, FinallyType DEF TypeOK, TaskCancelled, CancelledWhileStarting, Terminal
  <2>3. CASE CancelledWhileDriving(s)
    BY <1>14, <2>3 DEF TypeOK, TaskCancelled, CancelledWhileDriving, Terminal, TaskPC
  <2>4. CASE CancelledWhileStopping(s)
    BY <1>14, <2>4, FinallyType DEF TypeOK, TaskCancelled, CancelledWhileStopping, Terminal
  <2>5. CASE CancelledWhileFinishing(s)
    BY <1>14, <2>5 DEF TypeOK, TaskCancelled, CancelledWhileFinishing, TaskPC, Terminal
  <2>6. QED
    BY <1>14, <2>1, <2>2, <2>3, <2>4, <2>5 DEF TaskCancelled
<1>15. ASSUME NEW s \in Sessions, Cancel(s) PROVE TypeOK'
  BY <1>15, CancelBodyType DEF TypeOK, Cancel
<1>16. ASSUME NEW s \in Sessions, WatchdogFires(s) PROVE TypeOK'
  BY <1>16 DEF TypeOK, WatchdogFires
<1>17. ASSUME NEW s \in Sessions, WatchdogCancels(s) PROVE TypeOK'
  BY <1>17, CancelBodyType DEF TypeOK, WatchdogCancels
<1>18. ASSUME NEW s \in Sessions, NEW ok \in BOOLEAN, RunnerServes(s, ok) PROVE TypeOK'
  <2> DEFINE d == Head(inbox[s])
  <2>1. d \in Directive /\ inbox' \in [Sessions -> Seq(Directive)]
    BY <1>18 DEF TypeOK, RunnerServes
  <2>2. d.by \in Calls
    BY <2>1 DEF Directive
  <2>3. runnerPaused' \subseteq Sessions
    BY <1>18 DEF TypeOK, RunnerServes
  <2>4. /\ sem' \in Nat
        /\ timer' \in [Sessions -> {"none", "armed", "firing"}]
        /\ pausedSet' \subseteq Sessions
        /\ holdsSlot' \subseteq Sessions
        /\ pausedByKey' \in [Keys -> Nat]
    <3>1. CASE UNCHANGED <<sem, timer, pauseVars>>
      BY <3>1 DEF TypeOK
    <3>2. CASE PauseAcked(d.by, s)
      BY <3>2 DEF TypeOK, PauseAcked
    <3>3. CASE PauseRefused(d.by)
      BY <3>3 DEF TypeOK, PauseRefused
    <3>4. CASE ResumeAcked(d.by, s)
      BY <3>4, ReleaseKeyType DEF TypeOK, ResumeAcked, ReleasePauseBookkeeping
    <3>5. CASE ResumeRefused(d.by, s)
      BY <3>5 DEF TypeOK, ResumeRefused, ArmTimer
    <3>6. QED
      BY <1>18, <3>1, <3>2, <3>3, <3>4, <3>5 DEF RunnerServes
  <2>5. call' \in [Calls -> Call] /\ \A c \in Calls : call'[c].pc # "idle" => call'[c].sid \in Sessions
    <3>1. CASE call' = call
      BY <3>1 DEF TypeOK
    <3>2. CASE /\ Waiting(d)
               /\ \E pc \in {"pWrite", "rWrite", "done"}, exp \in Nat : SetCall(d.by, pc, exp)
      BY <2>2, <3>2, SMTT(30) DEF TypeOK, Waiting, SetCall, Call, PausePC, ResumePC
    <3>3. QED
      BY <1>18, <2>2, <3>1, <3>2 DEF TypeOK, Call, RunnerServes, PauseAcked, PauseRefused,
                                    ResumeAcked, ResumeRefused
  <2>6. QED
    BY <1>18, <2>1, <2>3, <2>4, <2>5 DEF TypeOK, RunnerServes
<1>19. ASSUME NEW c \in Calls, PauseRead(c) PROVE TypeOK'
  BY <1>19 DEF TypeOK, PauseRead, Call, PausePC, ResumePC, Row, Directive, SetCall, Send
<1>20. ASSUME NEW c \in Calls, PauseAckTimeout(c) PROVE TypeOK'
  BY <1>20 DEF TypeOK, PauseAckTimeout, Call, PausePC, ResumePC, SetCall
<1>21. ASSUME NEW c \in Calls, PauseWrite(c) PROVE TypeOK'
  BY <1>21, CallWriteType DEF PauseWrite, PausePC, Status
<1>22. ASSUME NEW c \in Calls, PauseArm(c) PROVE TypeOK'
  BY <1>22 DEF TypeOK, PauseArm, Call, PausePC, ResumePC, ArmTimer, SetCall
<1>23. ASSUME NEW c \in Calls, ResumeRead(c) PROVE TypeOK'
  BY <1>23 DEF TypeOK, ResumeRead, Call, PausePC, ResumePC, Row, SetCall
<1>24. ASSUME NEW c \in Calls, ResumeAcquire(c) PROVE TypeOK'
  BY <1>24, SMTT(30) DEF TypeOK, ResumeAcquire, Call, PausePC, ResumePC, Row, Directive, SetCall, Send
<1>25. ASSUME NEW c \in Calls, ResumeSlotTimeout(c) PROVE TypeOK'
  BY <1>25 DEF TypeOK, ResumeSlotTimeout, Call, PausePC, ResumePC, ArmTimer, SetCall
<1>26. ASSUME NEW c \in Calls, ResumeAckTimeout(c) PROVE TypeOK'
  BY <1>26 DEF TypeOK, ResumeAckTimeout, Call, PausePC, ResumePC, ResumeRefused, ArmTimer, SetCall
<1>27. ASSUME NEW c \in Calls, ResumeWrite(c) PROVE TypeOK'
  BY <1>27, CallWriteType DEF ResumeWrite, ResumePC, Status
<1>28. ASSUME NEW c \in Calls, NEW s \in Sessions, PauseCall(c, s) PROVE TypeOK'
  BY <1>28 DEF TypeOK, PauseCall, Call, PausePC, ResumePC
<1>29. ASSUME NEW c \in Calls, NEW s \in Sessions, PauseAgain(c, s) PROVE TypeOK'
  BY <1>29 DEF TypeOK, PauseAgain, Call, PausePC, ResumePC, ArmTimer
<1>30. ASSUME NEW c \in Calls, NEW s \in Sessions, ResumeCall(c, s) PROVE TypeOK'
  BY <1>30 DEF TypeOK, ResumeCall, Call, PausePC, ResumePC, CancelTimer
<1>31. CASE ShutdownStart
  BY <1>31 DEF TypeOK, ShutdownStart
<1>32. CASE ShutdownWaits
  BY <1>32 DEF TypeOK, ShutdownWaits
<1>33. CASE ShutdownGraceEnds
  BY <1>33 DEF TypeOK, ShutdownGraceEnds, LiveTask
<1>34. CASE ShutdownDone
  BY <1>34 DEF TypeOK, ShutdownDone
<1>35. ASSUME NEW s \in Sessions, ShutdownCancelsPaused(s) PROVE TypeOK'
  BY <1>35, CancelBodyType DEF TypeOK, ShutdownCancelsPaused
<1>36. CASE UNCHANGED vars
  BY <1>36 DEF TypeOK, vars
<1> QED
  BY <1>1, <1>2, <1>3, <1>4, <1>5, <1>6, <1>7, <1>8, <1>9, <1>10, <1>11, <1>12, <1>13, <1>14, <1>15, <1>16, <1>17, <1>18, <1>19, <1>20, <1>21, <1>22, <1>23, <1>24, <1>25, <1>26, <1>27, <1>28, <1>29, <1>30, <1>31, <1>32, <1>33, <1>34, <1>35, <1>36
  DEF Next, RunStep, SessionEnds, CallStep, ShutdownStep

\* The manager's variables keep their types in every behaviour: the semaphore and
\* the per-key counters never become negative, and a request at work always
\* names a session.
THEOREM TypeCorrect == Spec => []TypeOK
<1>1. Init => TypeOK
  BY SessionManagerAssumption
     DEF Init, TypeOK, Row, Status, Terminal, TaskPC, Call, Directive
<1>2. QED
  BY <1>1, TypeStep, PTL DEF Spec

----------------------------------------------------------------------------
(* Lemmas about the runner's inbox *)

LEMMA AppendIndex ==
    ASSUME NEW q \in Seq(Directive), NEW d \in Directive, NEW i \in 1..Len(Append(q, d))
    PROVE  Append(q, d)[i] = d \/ (i \in 1..Len(q) /\ Append(q, d)[i] = q[i])
OBVIOUS

LEMMA TailIndex ==
    ASSUME NEW q \in Seq(Directive), q # <<>>, NEW i \in 1..Len(Tail(q))
    PROVE  i + 1 \in 1..Len(q) /\ Tail(q)[i] = q[i + 1]
OBVIOUS

LEMMA HeadDirective ==
    ASSUME TypeOK, NEW s \in Sessions, inbox[s] # <<>>
    PROVE  /\ Head(inbox[s]).by \in Calls
           /\ Head(inbox[s]) = inbox[s][1]
           /\ Len(inbox[s]) \in Nat /\ Len(inbox[s]) >= 1
<1>1. inbox[s] \in Seq(Directive)
  BY DEF TypeOK
<1>2. Head(inbox[s]) \in Directive
  BY <1>1
<1>3. QED
  BY <1>1, <1>2 DEF Directive

----------------------------------------------------------------------------
(* The actions in four groups, by whose coroutine makes the step *)

TaskAction(s) == SubmitRow(s) \/ SubmitTask(s) \/ AcquireSlot(s) \/ RunStep(s) \/ SessionEnds(s)

RequestAction(c) ==
    CallStep(c) \/ \E s \in Sessions : PauseCall(c, s) \/ PauseAgain(c, s) \/ ResumeCall(c, s)

CancelAction ==
    \/ \E s \in Sessions : Cancel(s) \/ WatchdogFires(s) \/ WatchdogCancels(s)
    \/ ShutdownStart \/ ShutdownStep

RunnerAction(s) == \E ok \in BOOLEAN : RunnerServes(s, ok)

LEMMA NextGroups ==
    ASSUME [Next]_vars
    PROVE  \/ \E s \in Sessions : TaskAction(s) \/ RunnerAction(s)
           \/ \E c \in Calls : RequestAction(c)
           \/ CancelAction
           \/ UNCHANGED vars
BY DEF Next, TaskAction, RunnerAction, RequestAction, CancelAction

\* Only the task itself changes what it owns.
LEMMA TaskFrame ==
    ASSUME \/ \E s \in Sessions : RunnerAction(s)
           \/ \E c \in Calls : RequestAction(c)
           \/ CancelAction
           \/ UNCHANGED vars
    PROVE  UNCHANGED <<task, acquired, keyed, bridges>>
<1> USE DEF rowVars, pauseVars, runVars, ctlVars, shutVars
<1>1. CASE \E s \in Sessions : RunnerAction(s)
  BY <1>1 DEF RunnerAction, RunnerServes
<1>2. CASE \E c \in Calls : CallStep(c)
  BY <1>2 DEF CallStep, PauseRead, PauseAckTimeout, PauseWrite, PauseArm, ResumeRead,
              ResumeAcquire, ResumeSlotTimeout, ResumeAckTimeout, ResumeWrite, CallWrite
<1>3. CASE \E c \in Calls, s \in Sessions : PauseCall(c, s) \/ PauseAgain(c, s) \/ ResumeCall(c, s)
  BY <1>3 DEF PauseCall, PauseAgain, ResumeCall
<1>4. CASE CancelAction
  BY <1>4 DEF CancelAction, Cancel, WatchdogFires, WatchdogCancels, ShutdownStart, ShutdownStep,
              ShutdownCancelsPaused, ShutdownWaits, ShutdownGraceEnds, ShutdownDone
<1>5. CASE UNCHANGED vars
  BY <1>5 DEF vars
<1>6. QED
  BY <1>1, <1>2, <1>3, <1>4, <1>5 DEF RequestAction

\* Neither tasks nor cancellations touch requests and directives.
LEMMA CallFrame ==
    ASSUME (\E s \in Sessions : TaskAction(s)) \/ CancelAction \/ UNCHANGED vars
    PROVE  UNCHANGED <<call, inbox>>
<1> USE DEF rowVars, pauseVars, runVars, ctlVars, shutVars
<1>1. CASE \E s \in Sessions : TaskAction(s)
  BY SMTT(30), <1>1 DEF TaskAction, SubmitRow, SubmitTask, AcquireSlot, RunStep, SessionEnds, RunStart,
              MarkRunning, PreparePlugins, StartFails, StartExecutor, RecordRuntime, DriveEnds,
              StopExecutor, WriteTerminal, FlushAndExit, TaskCancelled,
              ReadVersion, LockedUpdate, LockedWrite, LockedRetry
<1>2. CASE CancelAction
  BY <1>2 DEF CancelAction, Cancel, WatchdogFires, WatchdogCancels, ShutdownStart, ShutdownStep,
              ShutdownCancelsPaused, ShutdownWaits, ShutdownGraceEnds, ShutdownDone
<1>3. CASE UNCHANGED vars
  BY <1>3 DEF vars
<1>4. QED
  BY <1>1, <1>2, <1>3

\* What a step of a task does: Finally, or a move to another suspension point.
Moves(s, from, to) ==
    /\ task[s] \in from /\ \E pc \in to : task' = [task EXCEPT ![s] = pc]
    /\ UNCHANGED <<sem, acquired, pausedSet, holdsSlot>>

Keeps == UNCHANGED <<bridges, keyed>>

LEMMA TaskKinds ==
    ASSUME TypeOK, NEW s \in Sessions, TaskAction(s)
    PROVE  \/ Moves(s, {"none"}, {"persisted"}) /\ Keeps
           \/ Moves(s, {"persisted"}, {"created"}) /\ bridges' = bridges /\ keyed' = keyed \cup {s}
           \/ Moves(s, {"created"}, {"slot", "done"}) /\ Keeps
           \/ AcquireSlot(s)
           \/ Moves(s, Starting \ {"slot"}, Starting \ {"slot"}) /\ Keeps
           \/ /\ Moves(s, {"start"}, {"rtRead"})
              /\ keyed' = keyed /\ bridges' \in {bridges, bridges \cup {s}}
           \/ /\ Moves(s, Driving, Driving)
              /\ keyed' = keyed /\ bridges' \in {bridges, bridges \cup {s}}
           \/ Moves(s, Driving, {"stop"}) /\ Keeps
           \/ task[s] \in Starting \cup {"stop"} /\ Finally(s)
           \/ Moves(s, Finishing, Finishing \cup {"done"}) /\ Keeps
<1> USE DEF rowVars, pauseVars, runVars, ctlVars, shutVars, Goto, Ready, Moves, Keeps,
            Starting, Driving, Finishing
<1>1. CASE SubmitRow(s)
  BY <1>1 DEF SubmitRow
<1>2. CASE SubmitTask(s)
  BY <1>2 DEF SubmitTask
<1>3. CASE RunStart(s)
  BY <1>3 DEF RunStart
<1>4. CASE MarkRunning(s)
  BY <1>4 DEF MarkRunning, ReadVersion, LockedUpdate, LockedWrite, LockedRetry
<1>5. CASE PreparePlugins(s)
  BY <1>5 DEF PreparePlugins
<1>6. CASE StartFails(s)
  BY <1>6 DEF StartFails
<1>7. CASE StartExecutor(s)
  BY <1>7 DEF StartExecutor
<1>8. CASE RecordRuntime(s)
  BY <1>8 DEF RecordRuntime, OpenWireBridge, ReadVersion, LockedUpdate, LockedWrite, LockedRetry
<1>9. CASE SessionEnds(s)
  BY <1>9 DEF SessionEnds, DriveEnds
<1>10. CASE StopExecutor(s)
  BY <1>10 DEF StopExecutor
<1>11. CASE WriteTerminal(s)
  BY <1>11 DEF WriteTerminal, ReadVersion, LockedUpdate, LockedWrite, LockedRetry
<1>12. CASE FlushAndExit(s)
  BY <1>12 DEF FlushAndExit
<1>13. CASE TaskCancelled(s)
  BY <1>13 DEF TaskCancelled, CancelledBeforeStart, CancelledWhileStarting,
               CancelledWhileDriving, CancelledWhileStopping, CancelledWhileFinishing
<1>14. QED
  BY <1>1, <1>2, <1>3, <1>4, <1>5, <1>6, <1>7, <1>8, <1>9, <1>10, <1>11, <1>12, <1>13
  DEF TaskAction, RunStep

----------------------------------------------------------------------------
(* The inductive invariant *)

\* A task takes its slot, its key and its bridge with it from one suspension
\* point to the next, and leaves all of them in its finally block.
LEMMA TaskOwnsStep ==
    ASSUME TypeOK, TaskOwns, [Next]_vars
    PROVE  TaskOwns' /\ \A r \in Sessions : BridgeSeen(r) => BridgeSeen(r)'
<1> USE DEF TaskOwns, BridgeSeen, HoldingSlot, Starting, Driving, Finishing
<1>1. ASSUME NEW s \in Sessions, TaskAction(s)
      PROVE  TaskOwns' /\ \A r \in Sessions : BridgeSeen(r) => BridgeSeen(r)'
  <2>1. CASE AcquireSlot(s)
    BY <2>1 DEF TypeOK, AcquireSlot, Ready, Goto
  <2>2. CASE task[s] \in Starting \cup {"stop"} /\ Finally(s)
    BY <2>2 DEF TypeOK, Finally, Goto
  <2>3. CASE Moves(s, {"none"}, {"persisted"}) /\ Keeps
    BY <2>3, ZenonT(40) DEF TypeOK, Moves, Keeps
  <2>4. CASE Moves(s, {"persisted"}, {"created"}) /\ bridges' = bridges /\ keyed' = keyed \cup {s}
    BY <2>4, ZenonT(30) DEF TypeOK, Moves
  <2>5. CASE Moves(s, {"created"}, {"slot", "done"}) /\ Keeps
    BY <2>5 DEF TypeOK, Moves, Keeps
  <2>6. CASE Moves(s, Starting \ {"slot"}, Starting \ {"slot"}) /\ Keeps
    BY <2>6 DEF TypeOK, Moves, Keeps
  <2>7. CASE /\ Moves(s, {"start"}, {"rtRead"}) \/ Moves(s, Driving, Driving)
             /\ keyed' = keyed /\ bridges' \in {bridges, bridges \cup {s}}
    <3>1. /\ task[s] \in Driving \cup {"start"} /\ task'[s] \in Driving
          /\ \A r \in Sessions \ {s} : task'[r] = task[r]
      BY <2>7 DEF TypeOK, Moves
    <3>2. acquired' = acquired
      BY <2>7 DEF Moves
    <3>3. \A r \in Sessions \ {s} : r \in bridges' <=> r \in bridges
      BY <2>7
    <3>4. QED
      BY <2>7, <3>1, <3>2, <3>3
  <2>8. CASE Moves(s, Driving, {"stop"}) /\ Keeps
    BY <2>8 DEF TypeOK, Moves, Keeps
  <2>9. CASE Moves(s, Finishing, Finishing \cup {"done"}) /\ Keeps
    BY <2>9 DEF TypeOK, Moves, Keeps
  <2>10. QED
    BY <1>1, <2>1, <2>2, <2>3, <2>4, <2>5, <2>6, <2>7, <2>8, <2>9, TaskKinds
<1>2. CASE UNCHANGED <<task, acquired, keyed, bridges>>
  BY <1>2
<1>3. QED
  BY <1>1, <1>2, NextGroups, TaskFrame

\* Requests are issued for sessions with a bridge and keep their session.
LEMMA CallsOwnedStep ==
    ASSUME TypeOK, TaskOwns, CallsOwned, [Next]_vars
    PROVE  CallsOwned'
<1>1. \A r \in Sessions : BridgeSeen(r) => BridgeSeen(r)'
  BY TaskOwnsStep
<1>2. ASSUME NEW c \in Calls, NEW s \in Sessions, s \in bridges,
             \/ PauseCall(c, s) \/ PauseAgain(c, s) \/ ResumeCall(c, s)
      PROVE  CallsOwned'
  <2>1. BridgeSeen(s)'
    BY <1>1, <1>2 DEF BridgeSeen
  <2>2. call'[c].sid = s /\ \A d \in Calls \ {c} : call'[d] = call[d]
    BY <1>2 DEF PauseCall, PauseAgain, ResumeCall, TypeOK
  <2>3. QED
    BY <1>1, <2>1, <2>2 DEF CallsOwned, TypeOK, PausePC, ResumePC
<1>3. ASSUME NEW c \in Calls, call[c].pc \in PausePC \cup ResumePC,
             \E pc, exp : SetCall(c, pc, exp)
      PROVE  CallsOwned'
  <2>1. call'[c].sid = call[c].sid /\ \A d \in Calls \ {c} : call'[d] = call[d]
    BY <1>3 DEF SetCall, TypeOK
  <2>2. QED
    BY <1>1, <1>3, <2>1, ZenonT(40) DEF CallsOwned, TypeOK, PausePC, ResumePC
<1>4. ASSUME NEW c \in Calls, CallStep(c)
      PROVE  call[c].pc \in PausePC \cup ResumePC /\ \E pc, exp : SetCall(c, pc, exp)
  BY <1>4 DEF CallStep, PauseRead, PauseAckTimeout, PauseWrite, PauseArm, ResumeRead,
              ResumeAcquire, ResumeSlotTimeout, ResumeAckTimeout, ResumeWrite, CallWrite,
              ResumeRefused, At, PausePC, ResumePC
<1>5. ASSUME NEW s \in Sessions, RunnerAction(s)
      PROVE  \/ call' = call
             \/ \E c \in Calls : /\ call[c].pc \in PausePC \cup ResumePC
                                /\ \E pc, exp : SetCall(c, pc, exp)
  <2>1. Head(inbox[s]).by \in Calls
    BY <1>5, HeadDirective DEF RunnerAction, RunnerServes
  <2>2. QED
    BY <1>5, <2>1 DEF RunnerAction, RunnerServes, Waiting, PauseAcked, PauseRefused,
                      ResumeAcked, ResumeRefused, PausePC, ResumePC
<1>6. CASE call' = call
  BY <1>1, <1>6 DEF CallsOwned, TypeOK, PausePC, ResumePC
<1>7. ASSUME NEW c \in Calls, RequestAction(c) PROVE CallsOwned'
  BY <1>2, <1>3, <1>4, <1>7 DEF RequestAction, PauseCall, PauseAgain, ResumeCall
<1>8. QED
  BY <1>3, <1>5, <1>6, <1>7, NextGroups, CallFrame

\* What a step does to the directives: nothing, one more from a request at work
\* on the session, or one less.
LEMMA InboxKinds ==
    ASSUME TypeOK, [Next]_vars
    PROVE  \/ inbox' = inbox
           \/ \E c \in Calls : /\ call[c].pc \in PausePC \cup ResumePC
                              /\ \E op \in {"pause", "resume"} : Send(call[c].sid, op, c)
           \/ \E s \in Sessions : /\ inbox[s] # <<>>
                                 /\ inbox' = [inbox EXCEPT ![s] = Tail(@)]
<1> USE DEF ctlVars
<1>1. ASSUME NEW c \in Calls, CallStep(c)
      PROVE  \/ inbox' = inbox
             \/ /\ call[c].pc \in PausePC \cup ResumePC
                /\ \E op \in {"pause", "resume"} : Send(call[c].sid, op, c)
  BY <1>1 DEF CallStep, PauseRead, PauseAckTimeout, PauseWrite, PauseArm, ResumeRead,
              ResumeAcquire, ResumeSlotTimeout, ResumeAckTimeout, ResumeWrite, CallWrite,
              At, PausePC, ResumePC
<1>2. ASSUME NEW c \in Calls, RequestAction(c), ~CallStep(c)
      PROVE  inbox' = inbox
  BY <1>2 DEF RequestAction, PauseCall, PauseAgain, ResumeCall
<1>3. ASSUME NEW s \in Sessions, RunnerAction(s)
      PROVE  inbox[s] # <<>> /\ inbox' = [inbox EXCEPT ![s] = Tail(@)]
  BY <1>3 DEF RunnerAction, RunnerServes
<1>4. QED
  BY <1>1, <1>2, <1>3, NextGroups, CallFrame

\* A request never changes the session it is about once it is issued.
LEMMA SidStable ==
    ASSUME TypeOK, [Next]_vars, NEW c \in Calls, call[c].pc # "idle"
    PROVE  call'[c].sid = call[c].sid /\ call'[c].pc # "idle"
<1>1. ASSUME NEW d \in Calls, NEW pc, NEW exp, pc # "idle", SetCall(d, pc, exp)
      PROVE  call'[c].sid = call[c].sid /\ call'[c].pc # "idle"
  BY <1>1 DEF SetCall, TypeOK
<1>2. ASSUME NEW d \in Calls, CallStep(d)
      PROVE  \E pc, exp : pc # "idle" /\ SetCall(d, pc, exp)
  BY <1>2 DEF CallStep, PauseRead, PauseAckTimeout, PauseWrite, PauseArm, ResumeRead,
              ResumeAcquire, ResumeSlotTimeout, ResumeAckTimeout, ResumeWrite, CallWrite,
              ResumeRefused
<1>3. ASSUME NEW s \in Sessions, RunnerAction(s)
      PROVE  \/ call' = call
             \/ \E d \in Calls : \E pc, exp : pc # "idle" /\ SetCall(d, pc, exp)
  <2>1. Head(inbox[s]).by \in Calls
    BY <1>3, HeadDirective DEF RunnerAction, RunnerServes
  <2>2. QED
    BY <1>3, <2>1 DEF RunnerAction, RunnerServes, PauseAcked, PauseRefused,
                      ResumeAcked, ResumeRefused
<1>4. ASSUME NEW d \in Calls, RequestAction(d), ~CallStep(d)
      PROVE  call'[c] = call[c]
  BY <1>4 DEF RequestAction, PauseCall, PauseAgain, ResumeCall, At, TypeOK
<1>5. QED
  BY <1>1, <1>2, <1>3, <1>4, NextGroups, CallFrame

LEMMA DirectivesOwnedStep ==
    ASSUME TypeOK, TaskOwns, CallsOwned, DirectivesOwned, [Next]_vars
    PROVE  DirectivesOwned'
<1> DEFINE Owned(r, c) == call'[c].pc # "idle" /\ call'[c].sid = r
<1>1. \A r \in Sessions : BridgeSeen(r) => BridgeSeen(r)'
  BY TaskOwnsStep
<1>2. \A r \in Sessions : \A i \in 1..Len(inbox[r]) : BridgeSeen(r)' /\ Owned(r, inbox[r][i].by)
  <2> SUFFICES ASSUME NEW r \in Sessions, NEW i \in 1..Len(inbox[r])
               PROVE  BridgeSeen(r)' /\ Owned(r, inbox[r][i].by)
    OBVIOUS
  <2>1. inbox[r][i] \in Directive
    BY DEF TypeOK
  <2>2. inbox[r][i].by \in Calls
    BY <2>1 DEF Directive
  <2>3. BridgeSeen(r) /\ call[inbox[r][i].by].sid = r /\ call[inbox[r][i].by].pc # "idle"
    BY DEF DirectivesOwned, At
  <2>4. QED
    BY <1>1, <2>2, <2>3, SidStable
<1>3. \A r \in Sessions : inbox[r] \in Seq(Directive)
  BY DEF TypeOK
<1>4. CASE inbox' = inbox
  BY <1>2, <1>4 DEF DirectivesOwned, At
<1>5. ASSUME NEW c \in Calls, call[c].pc \in PausePC \cup ResumePC,
             NEW op \in {"pause", "resume"}, Send(call[c].sid, op, c)
      PROVE  DirectivesOwned'
  <2> DEFINE s == call[c].sid
             d == [op |-> op, by |-> c]
  <2>1. s \in Sessions /\ call[c].pc # "idle"
    BY <1>5 DEF TypeOK, PausePC, ResumePC
  <2>2. Owned(s, c) /\ BridgeSeen(s)
    BY <1>5, <2>1, SidStable DEF CallsOwned
  <2>3. inbox'[s] = Append(inbox[s], d) /\ \A r \in Sessions \ {s} : inbox'[r] = inbox[r]
    BY <1>5, <2>1 DEF Send, TypeOK
  <2>4. \A i \in 1..Len(inbox'[s]) :
          inbox'[s][i] = d \/ (i \in 1..Len(inbox[s]) /\ inbox'[s][i] = inbox[s][i])
    BY <1>3, <2>1, <2>3, AppendIndex DEF Directive
  <2>5. \A i \in 1..Len(inbox'[s]) : Owned(s, inbox'[s][i].by)
    BY <1>2, <2>1, <2>2, <2>4, SMTT(90)
  <2>6. ASSUME NEW r \in Sessions, NEW i \in 1..Len(inbox'[r])
        PROVE  BridgeSeen(r)' /\ Owned(r, inbox'[r][i].by)
    <3>1. CASE r = s
      <4>1. BridgeSeen(r)'
        BY <1>1, <2>1, <2>2, <3>1
      <4>2. Owned(r, inbox'[r][i].by)
        BY <2>5, <2>6, <3>1
      <4>3. QED
        BY <4>1, <4>2
    <3>2. CASE r # s
      <4>1. inbox'[r] = inbox[r]
        BY <2>3, <2>6, <3>2
      <4>2. QED
        BY <1>2, <2>6, <4>1
    <3>3. QED
      BY <3>1, <3>2
  <2>7. QED
    BY <2>6 DEF DirectivesOwned, At
<1>6. ASSUME NEW s \in Sessions, inbox[s] # <<>>, inbox' = [inbox EXCEPT ![s] = Tail(@)]
      PROVE  DirectivesOwned'
  <2>1. inbox'[s] = Tail(inbox[s]) /\ \A r \in Sessions \ {s} : inbox'[r] = inbox[r]
    BY <1>6 DEF TypeOK
  <2>2. \A i \in 1..Len(inbox'[s]) : i + 1 \in 1..Len(inbox[s]) /\ inbox'[s][i] = inbox[s][i + 1]
    <3>1. inbox[s] \in Seq(Directive) /\ inbox[s] # <<>>
      BY <1>3, <1>6
    <3>2. \A i \in 1..Len(Tail(inbox[s])) :
            i + 1 \in 1..Len(inbox[s]) /\ Tail(inbox[s])[i] = inbox[s][i + 1]
      BY <3>1, TailIndex
    <3>3. QED
      BY <2>1, <3>2
  <2>3. ASSUME NEW r \in Sessions, NEW i \in 1..Len(inbox'[r])
        PROVE  BridgeSeen(r)' /\ Owned(r, inbox'[r][i].by)
    <3>1. \E j \in 1..Len(inbox[r]) : inbox'[r][i] = inbox[r][j]
      BY <2>1, <2>2, <2>3
    <3>2. QED
      BY <1>2, <3>1
  <2>4. QED
    BY <2>3 DEF DirectivesOwned, At
<1>7. QED
  BY <1>4, <1>5, <1>6, InboxKinds

\* A session enters the paused set only while its task drives it, and leaves the
\* set at the latest when the task enters its finally block.
LEMMA PausedStep ==
    ASSUME TypeOK, ManagerInv, [Next]_vars
    PROVE  PausedIsLive' /\ holdsSlot' = pausedSet'
<1> USE DEF PausedIsLive
<1>1. TaskOwns /\ PausedIsLive /\ holdsSlot = pausedSet
  BY DEF ManagerInv
<1>2. ASSUME NEW s \in Sessions, TaskAction(s)
      PROVE  PausedIsLive' /\ holdsSlot' = pausedSet'
  <2> USE DEF Starting, Driving, Finishing
  <2>1. CASE AcquireSlot(s)
    BY <1>1, <2>1 DEF TypeOK, AcquireSlot, Ready, Goto, pauseVars
  <2>2. CASE task[s] \in Starting \cup {"stop"} /\ Finally(s)
    BY <1>1, <2>2 DEF TypeOK, Finally, Goto, ReleasePauseBookkeeping
  <2>3. CASE /\ \/ Moves(s, {"none"}, {"persisted"})
                \/ Moves(s, {"persisted"}, {"created"})
                \/ Moves(s, {"created"}, {"slot", "done"})
                \/ Moves(s, Starting \ {"slot"}, Starting \ {"slot"})
                \/ Moves(s, {"start"}, {"rtRead"})
                \/ Moves(s, Finishing, Finishing \cup {"done"})
             /\ bridges \subseteq bridges' /\ keyed \subseteq keyed'
    <3>1. s \notin pausedSet /\ task' \in [Sessions -> TaskPC]
      BY <1>1, <2>3, TypeStep DEF Moves, TypeOK
    <3>2. bridges \subseteq bridges' /\ keyed \subseteq keyed'
      BY <2>3
    <3>3. \A r \in Sessions \ {s} : task'[r] = task[r]
      BY <2>3 DEF Moves, TypeOK
    <3>4. UNCHANGED <<acquired, pausedSet, holdsSlot>>
      BY <2>3 DEF Moves
    <3>5. QED
      BY <1>1, <3>1, <3>2, <3>3, <3>4 DEF TypeOK
  <2>4. CASE \/ /\ Moves(s, Driving, Driving)
                /\ keyed' = keyed /\ bridges' \in {bridges, bridges \cup {s}}
             \/ Moves(s, Driving, {"stop"}) /\ Keeps
    BY <1>1, <2>4 DEF Moves, Keeps, TypeOK
  <2>5. QED
    BY <1>2, <2>1, <2>2, <2>3, <2>4, TaskKinds DEF Keeps
<1>3. CASE CancelAction
  <2>1. UNCHANGED <<task, acquired, keyed, bridges>>
    BY <1>3, TaskFrame
  <2>2. \/ UNCHANGED <<pausedSet, holdsSlot>>
        \/ \E s \in Sessions : pausedSet' = pausedSet \ {s} /\ holdsSlot' = holdsSlot \ {s}
    BY <1>3 DEF CancelAction, Cancel, WatchdogFires, WatchdogCancels, ShutdownStart,
                ShutdownStep, ShutdownCancelsPaused, ShutdownWaits, ShutdownGraceEnds,
                ShutdownDone, CancelBody, ReleasePauseBookkeeping, pauseVars
  <2>3. QED
    BY <1>1, <2>1, <2>2
<1>4. ASSUME NEW s \in Sessions, RunnerAction(s)
      PROVE  PausedIsLive' /\ holdsSlot' = pausedSet'
  <2>1. UNCHANGED <<task, acquired, keyed, bridges>>
    BY <1>4, TaskFrame
  <2>2. \/ UNCHANGED <<pausedSet, holdsSlot>>
        \/ pausedSet' = pausedSet \ {s} /\ holdsSlot' = holdsSlot \ {s}
        \/ pausedSet' = pausedSet \cup {s} /\ holdsSlot' = holdsSlot \cup {s}
    BY <1>4 DEF RunnerAction, RunnerServes, PauseAcked, PauseRefused, ResumeAcked,
                ResumeRefused, ReleasePauseBookkeeping, pauseVars
  <2>3. task[s] \in Driving /\ s \in bridges
    <3>1. task[s] \in Driving /\ inbox[s] # <<>>
      BY <1>4 DEF RunnerAction, RunnerServes, RunnerAlive
    <3>2. BridgeSeen(s)
      BY <3>1, HeadDirective DEF ManagerInv, DirectivesOwned
    <3>3. QED
      BY <3>1, <3>2 DEF BridgeSeen, Driving, Finishing
  <2>4. acquired[s] /\ s \in keyed
    BY <1>1, <2>3 DEF TaskOwns, HoldingSlot
  <2>5. QED
    BY <1>1, <2>1, <2>2, <2>3, <2>4
<1>5. CASE (\E c \in Calls : RequestAction(c)) \/ UNCHANGED vars
  <2>1. UNCHANGED <<task, acquired, keyed, bridges>>
    BY <1>5, TaskFrame
  <2>2. UNCHANGED <<pausedSet, holdsSlot>>
    BY <1>5 DEF RequestAction, CallStep, PauseRead, PauseAckTimeout, PauseWrite, PauseArm,
                ResumeRead, ResumeAcquire, ResumeSlotTimeout, ResumeAckTimeout, ResumeWrite,
                CallWrite, ResumeRefused, PauseCall, PauseAgain, ResumeCall, pauseVars, vars
  <2>3. QED
    BY <1>1, <2>1, <2>2
<1>6. QED
  BY <1>2, <1>3, <1>4, <1>5, NextGroups

\* The inductive invariant holds in every behaviour.
THEOREM ManagerInvariant == Spec => [](TypeOK /\ ManagerInv)
<1>1. Init => TypeOK /\ ManagerInv
  <2> SUFFICES ASSUME Init PROVE TypeOK /\ ManagerInv
    OBVIOUS
  <2>1. TypeOK
    BY SessionManagerAssumption
       DEF Init, TypeOK, Row, Status, Terminal, TaskPC, Call, Directive
  <2>2. TaskOwns /\ DirectivesOwned
    BY DEF Init, TaskOwns, HoldingSlot, Starting, Driving, DirectivesOwned
  <2>3. CallsOwned /\ PausedIsLive /\ holdsSlot = pausedSet
    BY DEF Init, CallsOwned, PausePC, ResumePC, PausedIsLive
  <2>4. QED
    BY <2>1, <2>2, <2>3 DEF ManagerInv
<1>2. TypeOK /\ ManagerInv /\ [Next]_vars => (TypeOK /\ ManagerInv)'
  <2> SUFFICES ASSUME TypeOK, ManagerInv, [Next]_vars PROVE (TypeOK /\ ManagerInv)'
    OBVIOUS
  <2>1. TypeOK' /\ PausedIsLive' /\ holdsSlot' = pausedSet'
    BY TypeStep, PausedStep
  <2>2. TaskOwns' /\ CallsOwned' /\ DirectivesOwned'
    BY TaskOwnsStep, CallsOwnedStep, DirectivesOwnedStep DEF ManagerInv
  <2>3. QED
    BY <2>1, <2>2 DEF ManagerInv
<1>3. QED
  BY <1>1, <1>2, PTL DEF Spec

\* In every behaviour, for every number of sessions, requests and slots, a
\* session in _paused_set is driven by a live task, with its bridge and API key
\* registered and its slot on loan: an acknowledgement that arrives around the
\* end or the cancellation of a session leaves no ghost in the paused set.
THEOREM PausedSessionsAreLive == Spec => []PausedIsLive
<1>1. TypeOK /\ ManagerInv => PausedIsLive
  BY DEF ManagerInv
<1>2. QED
  BY <1>1, ManagerInvariant, PTL

----------------------------------------------------------------------------
(* The slots *)

LEMMA OwnersFinite ==
    /\ IsFiniteSet(SlotTasks) /\ Cardinality(SlotTasks) \in Nat
    /\ IsFiniteSet(SlotResumes) /\ Cardinality(SlotResumes) \in Nat
<1>1. SlotTasks \in SUBSET Sessions /\ SlotResumes \in SUBSET Calls
  BY DEF SlotTasks, SlotResumes
<1>2. IsFiniteSet(SlotTasks) /\ IsFiniteSet(SlotResumes)
  BY <1>1, FS_Subset, SessionManagerAssumption
<1>3. QED
  BY <1>2, FS_CardinalityType

\* A slot changes hands: an owner comes and one free slot goes, or the other way
\* round, or one owner takes over from another.
LEMMA OwnerComesAndGoes ==
    ASSUME TypeOK, NEW s, NEW c,
           \/ sem' = sem /\ SlotTasks' = SlotTasks /\ SlotResumes' = SlotResumes
           \/ /\ sem > 0 /\ sem' = sem - 1 /\ SlotResumes' = SlotResumes
              /\ s \notin SlotTasks /\ SlotTasks' = SlotTasks \cup {s}
           \/ /\ sem > 0 /\ sem' = sem - 1 /\ SlotTasks' = SlotTasks
              /\ c \notin SlotResumes /\ SlotResumes' = SlotResumes \cup {c}
           \/ /\ sem' = sem + 1 /\ SlotResumes' = SlotResumes
              /\ s \in SlotTasks /\ SlotTasks' = SlotTasks \ {s}
           \/ /\ sem' = sem + 1 /\ SlotTasks' = SlotTasks
              /\ c \in SlotResumes /\ SlotResumes' = SlotResumes \ {c}
           \/ /\ sem' = sem
              /\ c \in SlotResumes /\ SlotResumes' = SlotResumes \ {c}
              /\ s \notin SlotTasks /\ SlotTasks' = SlotTasks \cup {s}
    PROVE  sem' + SlotOwners' = sem + SlotOwners
<1> DEFINE T == Cardinality(SlotTasks)
           R == Cardinality(SlotResumes)
<1>1. s \notin SlotTasks => Cardinality(SlotTasks \cup {s}) = T + 1
  BY OwnersFinite, FS_AddElement
<1>2. c \notin SlotResumes => Cardinality(SlotResumes \cup {c}) = R + 1
  BY OwnersFinite, FS_AddElement
<1>3. s \in SlotTasks => Cardinality(SlotTasks \ {s}) = T - 1
  BY OwnersFinite, FS_RemoveElement
<1>4. c \in SlotResumes => Cardinality(SlotResumes \ {c}) = R - 1
  BY OwnersFinite, FS_RemoveElement
<1>5. sem \in Nat /\ T \in Nat /\ R \in Nat
  BY OwnersFinite DEF TypeOK
<1>6. SlotOwners' = T' + R' /\ SlotOwners = T + R
  BY DEF SlotOwners
<1>7. \/ sem' = sem /\ T' = T /\ R' = R
      \/ sem' = sem - 1 /\ T' = T + 1 /\ R' = R
      \/ sem' = sem - 1 /\ T' = T /\ R' = R + 1
      \/ sem' = sem + 1 /\ T' = T - 1 /\ R' = R
      \/ sem' = sem + 1 /\ T' = T /\ R' = R - 1
      \/ sem' = sem /\ T' = T + 1 /\ R' = R - 1
  BY <1>1, <1>2, <1>3, <1>4, Zenon
<1> HIDE DEF T, R
<1>8. QED
  BY <1>5, <1>6, <1>7

\* Tasks: acquire() takes a free slot, the finally block gives back the one the
\* task still owns.
LEMMA TaskBalance ==
    ASSUME TypeOK, ManagerInv, NEW s \in Sessions, TaskAction(s)
    PROVE  sem' + SlotOwners' = sem + SlotOwners
<1>1. SlotResumes' = SlotResumes
  BY CallFrame DEF SlotResumes, At
<1>2. CASE AcquireSlot(s)
  <2>1. ~acquired[s] /\ acquired' = [acquired EXCEPT ![s] = TRUE] /\ holdsSlot' = holdsSlot
    BY <1>2 DEF AcquireSlot, Ready, pauseVars, ManagerInv, TaskOwns, HoldingSlot, Starting, Driving
  <2>2. s \notin holdsSlot
    BY <2>1 DEF ManagerInv, PausedIsLive
  <2>3. s \notin SlotTasks /\ SlotTasks' = SlotTasks \cup {s}
    BY <2>1, <2>2 DEF SlotTasks, TypeOK
  <2>4. QED
    BY <1>1, <1>2, <2>3, OwnerComesAndGoes DEF AcquireSlot
<1>3. CASE Finally(s)
  <2>1. acquired' = [acquired EXCEPT ![s] = FALSE] /\ holdsSlot' = holdsSlot \ {s}
    BY <1>3 DEF Finally, ReleasePauseBookkeeping
  <2>2. SlotTasks' = SlotTasks \ {s}
    BY <2>1 DEF SlotTasks, TypeOK
  <2>3. CASE s \in SlotTasks
    BY <1>1, <1>3, <2>2, <2>3, OwnerComesAndGoes DEF Finally, SlotTasks
  <2>4. CASE s \notin SlotTasks
    <3>1. SlotTasks' = SlotTasks /\ sem' = sem
      BY <1>3, <2>2, <2>4 DEF Finally, SlotTasks
    <3>2. QED
      BY <1>1, <3>1, OwnerComesAndGoes
  <2>5. QED
    BY <2>3, <2>4
<1>4. CASE UNCHANGED <<sem, acquired, holdsSlot>>
  BY <1>1, <1>4, OwnerComesAndGoes DEF SlotTasks
<1>5. QED
  BY <1>2, <1>3, <1>4, TaskKinds DEF Moves

\* Requests: a resume takes a slot before it sends its directive and gives it
\* back when no acknowledgement comes.
LEMMA RequestBalance ==
    ASSUME TypeOK, NEW c \in Calls, RequestAction(c)
    PROVE  sem' + SlotOwners' = sem + SlotOwners
<1> USE DEF At
<1>1. SlotTasks' = SlotTasks
  <2>1. UNCHANGED acquired
    BY TaskFrame
  <2>2. UNCHANGED holdsSlot
    BY DEF RequestAction, CallStep, PauseRead, PauseAckTimeout, PauseWrite, PauseArm,
           ResumeRead, ResumeAcquire, ResumeSlotTimeout, ResumeAckTimeout, ResumeWrite,
           CallWrite, ResumeRefused, PauseCall, PauseAgain, ResumeCall, pauseVars
  <2>3. QED
    BY <2>1, <2>2 DEF SlotTasks
<1>2. CASE ResumeAcquire(c)
  <2>1. c \notin SlotResumes /\ SlotResumes' = SlotResumes \cup {c}
    BY <1>2 DEF ResumeAcquire, SetCall, SlotResumes, TypeOK
  <2>2. QED
    BY <1>1, <1>2, <2>1, OwnerComesAndGoes DEF ResumeAcquire
<1>3. CASE ResumeAckTimeout(c)
  <2>1. c \in SlotResumes /\ SlotResumes' = SlotResumes \ {c}
    BY <1>3 DEF ResumeAckTimeout, ResumeRefused, SetCall, SlotResumes, TypeOK
  <2>2. QED
    BY <1>1, <1>3, <2>1, OwnerComesAndGoes DEF ResumeAckTimeout, ResumeRefused
<1>4. CASE ~ResumeAcquire(c) /\ ~ResumeAckTimeout(c)
  <2>1. sem' = sem
    BY <1>4 DEF RequestAction, CallStep, PauseRead, PauseAckTimeout, PauseWrite, PauseArm,
           ResumeRead, ResumeSlotTimeout, ResumeWrite, CallWrite, PauseCall, PauseAgain, ResumeCall
  <2>2. call[c].pc # "rAck" /\ \E pc, sid, exp : pc # "rAck" /\ call' = [call EXCEPT ![c] = [pc |-> pc, sid |-> sid, exp |-> exp]]
    BY <1>4 DEF RequestAction, CallStep, PauseRead, PauseAckTimeout, PauseWrite, PauseArm,
           ResumeRead, ResumeSlotTimeout, ResumeWrite, CallWrite, PauseCall, PauseAgain, ResumeCall,
           SetCall
  <2>3. SlotResumes' = SlotResumes
    BY <2>2 DEF SlotResumes, TypeOK
  <2>4. QED
    BY <1>1, <2>1, <2>3, OwnerComesAndGoes
<1>5. QED
  BY <1>2, <1>3, <1>4

\* Acknowledgements: pause() lends the task's slot out, resume() hands its own
\* slot over, unless the session is not in the paused set any more.
LEMMA RunnerBalance ==
    ASSUME TypeOK, ManagerInv, NEW s \in Sessions, RunnerAction(s)
    PROVE  SlotsBalance
<1> DEFINE c == Head(inbox[s]).by
<1> USE DEF At
<1>1. task[s] \in Driving /\ inbox[s] # <<>>
  BY DEF RunnerAction, RunnerServes, RunnerAlive
<1>2. c \in Calls /\ call[c].sid = s
  BY <1>1, HeadDirective DEF ManagerInv, DirectivesOwned
<1>3. acquired[s] /\ holdsSlot = pausedSet /\ acquired' = acquired
  BY <1>1, TaskFrame DEF ManagerInv, TaskOwns, HoldingSlot
<1>4. CASE UNCHANGED <<sem, pausedSet, holdsSlot, call>>
  <2>1. SlotTasks' = SlotTasks /\ SlotResumes' = SlotResumes
    BY <1>3, <1>4 DEF SlotTasks, SlotResumes
  <2>2. QED
    BY <1>4, <2>1, OwnerComesAndGoes DEF SlotsBalance
<1>5. CASE call[c].pc = "pAck" /\ PauseAcked(c, s)
  <2>1. SlotResumes' = SlotResumes
    BY <1>2, <1>5 DEF PauseAcked, SetCall, SlotResumes, TypeOK
  <2>2. SlotTasks' = SlotTasks \ {s}
    BY <1>3, <1>5 DEF PauseAcked, SlotTasks
  <2>3. CASE s \in holdsSlot
    <3>1. SlotTasks' = SlotTasks /\ sem' = sem
      BY <1>5, <2>2, <2>3 DEF PauseAcked, SlotTasks
    <3>2. QED
      BY <2>1, <3>1, OwnerComesAndGoes DEF SlotsBalance
  <2>4. CASE s \notin holdsSlot
    <3>1. s \in SlotTasks /\ sem' = sem + 1
      BY <1>3, <1>5, <2>4 DEF PauseAcked, SlotTasks
    <3>2. QED
      BY <2>1, <2>2, <3>1, OwnerComesAndGoes DEF SlotsBalance
  <2>5. QED
    BY <2>3, <2>4
<1>6. CASE call[c].pc = "pAck" /\ PauseRefused(c)
  <2>1. SlotResumes' = SlotResumes
    BY <1>2, <1>6 DEF PauseRefused, SetCall, SlotResumes, TypeOK
  <2>2. SlotTasks' = SlotTasks /\ sem' = sem
    BY <1>3, <1>6 DEF PauseRefused, SlotTasks, pauseVars
  <2>3. QED
    BY <2>1, <2>2, OwnerComesAndGoes DEF SlotsBalance
<1>7. CASE call[c].pc = "rAck" /\ ResumeAcked(c, s)
  <2>1. c \in SlotResumes /\ SlotResumes' = SlotResumes \ {c} /\ call'[c].pc = "rWrite"
    BY <1>2, <1>7 DEF ResumeAcked, SetCall, SlotResumes, TypeOK
  <2>2. CASE s \in pausedSet
    <3>1. s \notin SlotTasks /\ SlotTasks' = SlotTasks \cup {s} /\ sem' = sem
      BY <1>3, <1>7, <2>2 DEF ResumeAcked, ReleasePauseBookkeeping, SlotTasks
    <3>2. QED
      BY <2>1, <3>1, OwnerComesAndGoes DEF SlotsBalance
  <2>3. CASE s \notin pausedSet
    BY <1>2, <1>7, <2>1, <2>3 DEF SlotsBalance
  <2>4. QED
    BY <2>2, <2>3
<1>8. CASE call[c].pc = "rAck" /\ ResumeRefused(c, s)
  <2>1. c \in SlotResumes /\ SlotResumes' = SlotResumes \ {c}
    BY <1>2, <1>8 DEF ResumeRefused, SetCall, SlotResumes, TypeOK
  <2>2. SlotTasks' = SlotTasks /\ sem' = sem + 1
    BY <1>3, <1>8 DEF ResumeRefused, SlotTasks, pauseVars
  <2>3. QED
    BY <2>1, <2>2, OwnerComesAndGoes DEF SlotsBalance
<1>9. QED
  BY <1>4, <1>5, <1>6, <1>7, <1>8 DEF RunnerAction, RunnerServes, Waiting, pauseVars

\* Cancellations: the only thing they can take from a task is its pause.
LEMMA CancelBalance ==
    ASSUME TypeOK, CancelAction
    PROVE  SlotsBalance
<1>1. UNCHANGED <<task, acquired, call, sem>>
  BY TaskFrame, CallFrame
  DEF CancelAction, Cancel, WatchdogFires, WatchdogCancels, ShutdownStart, ShutdownStep,
      ShutdownCancelsPaused, ShutdownWaits, ShutdownGraceEnds, ShutdownDone
<1>2. \/ holdsSlot' = holdsSlot
      \/ \E s \in pausedSet : pausedSet' = pausedSet \ {s}
  BY DEF CancelAction, Cancel, WatchdogFires, WatchdogCancels, ShutdownStart,
         ShutdownStep, ShutdownCancelsPaused, ShutdownWaits, ShutdownGraceEnds,
         ShutdownDone, CancelBody, ReleasePauseBookkeeping, pauseVars
<1>3. CASE holdsSlot' = holdsSlot
  <2>1. SlotTasks' = SlotTasks /\ SlotResumes' = SlotResumes
    BY <1>1, <1>3 DEF SlotTasks, SlotResumes, At
  <2>2. QED
    BY <1>1, <2>1, OwnerComesAndGoes DEF SlotsBalance
<1>4. CASE \E s \in pausedSet : pausedSet' = pausedSet \ {s}
  BY <1>1, <1>4 DEF SlotsBalance
<1>5. QED
  BY <1>2, <1>3, <1>4

\* In every behaviour, for every number of sessions, requests and slots, each
\* step keeps the number of free and owned slots, except the two that
\* SlotsBalance names: a cancellation that takes a session out of the paused set,
\* and a resume acknowledged for a session that is not in it.
THEOREM SlotAccounting == Spec => SlotsConserved
<1>1. TypeOK /\ ManagerInv /\ [Next]_vars => [SlotsBalance]_vars
  BY NextGroups, TaskBalance, RequestBalance, RunnerBalance, CancelBalance DEF SlotsBalance
<1>2. QED
  BY <1>1, ManagerInvariant, PTL DEF Spec, SlotsConserved

----------------------------------------------------------------------------
(* The counts of the keys *)

LEMMA PausedOfFinite ==
    ASSUME TypeOK, NEW k
    PROVE  IsFiniteSet(PausedOf(k)) /\ Cardinality(PausedOf(k)) \in Nat
<1>1. PausedOf(k) \in SUBSET Sessions
  BY DEF PausedOf, TypeOK
<1>2. IsFiniteSet(PausedOf(k))
  BY <1>1, FS_Subset, SessionManagerAssumption
<1>3. QED
  BY <1>2, FS_CardinalityType

\* A session leaves the paused set and its key's count, or nothing happens.
LEMMA ReleaseBalances ==
    ASSUME TypeOK, ManagerInv, NeverUndercounts, NEW s \in Sessions, ReleasePauseBookkeeping(s)
    PROVE  KeysBalance /\ NeverUndercounts'
<1> DEFINE K == KeyOf[s]
<1>1. K \in Keys /\ pausedByKey \in [Keys -> Nat] /\ pausedSet' = pausedSet \ {s}
  BY SessionManagerAssumption DEF TypeOK, ReleasePauseBookkeeping
<1>2. \A k \in Keys : k # K => PausedOf(k)' = PausedOf(k)
  BY <1>1 DEF PausedOf
<1>3. CASE s \notin pausedSet
  <2>1. pausedByKey' = pausedByKey /\ pausedSet' = pausedSet
    BY <1>1, <1>3 DEF ReleasePauseBookkeeping, ReleaseKey
  <2>2. \A k \in Keys : PausedOf(k)' = PausedOf(k)
    BY <2>1 DEF PausedOf
  <2>3. QED
    BY <2>1, <2>2 DEF KeysBalance, NeverUndercounts
<1>4. CASE s \in pausedSet
  <2>1. s \in keyed /\ s \in PausedOf(K)
    BY <1>4 DEF ManagerInv, PausedIsLive, PausedOf
  <2>2. PausedOf(K)' = PausedOf(K) \ {s}
    BY <1>1 DEF PausedOf
  <2> DEFINE n == Cardinality(PausedOf(K))
  <2>3. n \in Nat /\ Cardinality(PausedOf(K) \ {s}) = n - 1 /\ n # 0
    <3>1. IsFiniteSet(PausedOf(K)) /\ n \in Nat
      BY PausedOfFinite
    <3>2. Cardinality(PausedOf(K) \ {s}) = n - 1
      BY <2>1, <3>1, FS_RemoveElement
    <3>3. n # 0
      BY <2>1, <3>1, FS_EmptySet
    <3>4. QED
      BY <3>1, <3>2, <3>3
  <2>4. Cardinality(PausedOf(K))' = n - 1
    BY <2>2, <2>3
  <2>5. pausedByKey[K] \in Nat /\ pausedByKey[K] >= n
    BY <1>1 DEF NeverUndercounts
  <2> HIDE DEF n, K
  <2>6. pausedByKey[K] > 0
    BY <2>3, <2>5
  <2>7. pausedByKey' = [pausedByKey EXCEPT ![K] = @ - 1]
    BY <1>4, <2>1, <2>6 DEF ReleasePauseBookkeeping, ReleaseKey, K
  <2>8. pausedByKey'[K] = pausedByKey[K] - 1 /\ \A k \in Keys : k # K => pausedByKey'[k] = pausedByKey[k]
    BY <1>1, <2>7
  <2>9. pausedByKey'[K] + n = pausedByKey[K] + Cardinality(PausedOf(K))' /\ pausedByKey'[K] >= Cardinality(PausedOf(K))'
    BY <2>3, <2>4, <2>5, <2>8
  <2>10. ASSUME NEW k \in Keys, k # K
         PROVE  /\ pausedByKey'[k] = pausedByKey[k] /\ Cardinality(PausedOf(k))' = Cardinality(PausedOf(k))
                /\ pausedByKey[k] >= Cardinality(PausedOf(k))
    BY <1>2, <2>8, <2>10 DEF NeverUndercounts
  <2>11. KeysBalance
    BY <2>9, <2>10 DEF KeysBalance, n
  <2>12. NeverUndercounts'
    BY <2>9, <2>10 DEF NeverUndercounts
  <2>13. QED
    BY <2>11, <2>12
<1>5. QED
  BY <1>3, <1>4

\* A session enters the paused set and its key's count; it may be in the set.
LEMMA PauseBalances ==
    ASSUME TypeOK, NeverUndercounts, NEW s \in Sessions, s \in keyed, NEW c \in Calls,
           call[c].sid = s, At(c, "pAck"), PauseAcked(c, s)
    PROVE  KeysBalance /\ NeverUndercounts'
<1> DEFINE K == KeyOf[s]
           n == Cardinality(PausedOf(K))
<1>1. /\ K \in Keys /\ pausedByKey \in [Keys -> Nat] /\ pausedSet' = pausedSet \cup {s}
      /\ pausedByKey' = [pausedByKey EXCEPT ![K] = @ + 1] /\ call'[c].pc = "pWrite"
  BY SessionManagerAssumption DEF TypeOK, PauseAcked, SetCall
<1>2. \A k \in Keys : k # K => PausedOf(k)' = PausedOf(k)
  BY <1>1 DEF PausedOf
<1>3. PausedOf(K)' = PausedOf(K) \cup {s}
  BY <1>1 DEF PausedOf
<1>4. IsFiniteSet(PausedOf(K)) /\ n \in Nat
  BY PausedOfFinite
<1>5. pausedByKey[K] \in Nat /\ pausedByKey[K] >= n
  BY <1>1 DEF NeverUndercounts
<1>6. pausedByKey'[K] = pausedByKey[K] + 1 /\ \A k \in Keys : k # K => pausedByKey'[k] = pausedByKey[k]
  BY <1>1
<1>7. s \in PausedOf(K) <=> s \in pausedSet
  BY DEF PausedOf
<1>8. IF s \in pausedSet THEN Cardinality(PausedOf(K))' = n ELSE Cardinality(PausedOf(K))' = n + 1
  <2>1. CASE s \in pausedSet
    BY <1>1, <2>1 DEF PausedOf
  <2>2. CASE s \notin pausedSet
    <3>1. Cardinality(PausedOf(K) \cup {s}) = n + 1
      BY <1>4, <1>7, <2>2, FS_AddElement
    <3>2. QED
      BY <1>3, <2>2, <3>1
  <2>3. QED
    BY <2>1, <2>2
<1> HIDE DEF K, n
<1>9. ASSUME NEW k \in Keys, k # K
      PROVE  /\ pausedByKey'[k] = pausedByKey[k] /\ Cardinality(PausedOf(k))' = Cardinality(PausedOf(k))
             /\ pausedByKey[k] >= Cardinality(PausedOf(k))
  BY <1>2, <1>6, <1>9 DEF NeverUndercounts
<1>10. pausedByKey'[K] >= Cardinality(PausedOf(K))'
  BY <1>4, <1>5, <1>6, <1>8
<1>11. NeverUndercounts'
  BY <1>9, <1>10 DEF NeverUndercounts
<1>12. CASE s \in pausedSet
  <2>1. UNCHANGED pausedSet /\ call[c].sid \in PausedOf(K)
    BY <1>1, <1>7, <1>12
  <2>2. QED
    BY <1>1, <1>6, <1>9, <1>11, <2>1 DEF KeysBalance
<1>13. CASE s \notin pausedSet
  <2>1. pausedByKey'[K] + n = pausedByKey[K] + Cardinality(PausedOf(K))'
    BY <1>4, <1>5, <1>6, <1>8, <1>13
  <2>2. QED
    BY <1>9, <1>11, <2>1 DEF KeysBalance, n
<1>14. QED
  BY <1>12, <1>13

LEMMA KeysStep ==
    ASSUME TypeOK, ManagerInv, NeverUndercounts, [Next]_vars
    PROVE  KeysBalance /\ NeverUndercounts'
<1>1. CASE UNCHANGED <<pausedSet, pausedByKey>>
  <2>1. \A k \in Keys : PausedOf(k)' = PausedOf(k)
    BY <1>1 DEF PausedOf
  <2>2. QED
    BY <1>1, <2>1 DEF KeysBalance, NeverUndercounts
<1>2. ASSUME NEW s \in Sessions, TaskAction(s) PROVE KeysBalance /\ NeverUndercounts'
  <2>1. Finally(s) \/ UNCHANGED <<pausedSet, pausedByKey>>
    BY <1>2 DEF TaskAction, SubmitRow, SubmitTask, AcquireSlot, RunStep, SessionEnds, RunStart,
              MarkRunning, PreparePlugins, StartFails, StartExecutor, RecordRuntime, DriveEnds,
              StopExecutor, WriteTerminal, FlushAndExit, TaskCancelled,
              ReadVersion, LockedUpdate, LockedWrite, LockedRetry, CancelledBeforeStart,
              CancelledWhileStarting, CancelledWhileDriving, CancelledWhileStopping,
              CancelledWhileFinishing, pauseVars
  <2>2. QED
    BY <1>1, <2>1, ReleaseBalances DEF Finally
<1>3. CASE CancelAction
  <2>1. \/ UNCHANGED <<pausedSet, pausedByKey>>
        \/ \E s \in Sessions : ReleasePauseBookkeeping(s)
    BY <1>3 DEF CancelAction, Cancel, WatchdogFires, WatchdogCancels, ShutdownStart,
                ShutdownStep, ShutdownCancelsPaused, ShutdownWaits, ShutdownGraceEnds,
                ShutdownDone, CancelBody, pauseVars
  <2>2. QED
    BY <1>1, <2>1, ReleaseBalances
<1>4. ASSUME NEW s \in Sessions, RunnerAction(s) PROVE KeysBalance /\ NeverUndercounts'
  <2> DEFINE c == Head(inbox[s]).by
  <2>1. task[s] \in Driving /\ inbox[s] # <<>>
    BY <1>4 DEF RunnerAction, RunnerServes, RunnerAlive
  <2>2. c \in Calls /\ call[c].sid = s
    BY <2>1, HeadDirective DEF ManagerInv, DirectivesOwned
  <2>3. s \in keyed
    BY <2>1 DEF ManagerInv, TaskOwns, HoldingSlot
  <2>4. \/ UNCHANGED <<pausedSet, pausedByKey>>
        \/ ReleasePauseBookkeeping(s)
        \/ At(c, "pAck") /\ PauseAcked(c, s)
    BY <1>4 DEF RunnerAction, RunnerServes, PauseRefused, ResumeAcked, ResumeRefused, Waiting, At, pauseVars
  <2> HIDE DEF c
  <2>5. QED
    BY <1>1, <2>2, <2>3, <2>4, ReleaseBalances, PauseBalances
<1>5. CASE (\E c \in Calls : RequestAction(c)) \/ UNCHANGED vars
  <2>1. UNCHANGED <<pausedSet, pausedByKey>>
    BY <1>5 DEF RequestAction, CallStep, PauseRead, PauseAckTimeout, PauseWrite, PauseArm,
                ResumeRead, ResumeAcquire, ResumeSlotTimeout, ResumeAckTimeout, ResumeWrite,
                CallWrite, ResumeRefused, PauseCall, PauseAgain, ResumeCall, pauseVars, vars
  <2>2. QED
    BY <1>1, <2>1
<1>6. QED
  BY <1>2, <1>3, <1>4, <1>5, NextGroups

\* In every behaviour the count of a key is at least the number of its paused
\* sessions, so the per-key cap is never widened.
THEOREM KeysNeverUndercount == Spec => []NeverUndercounts
<1>1. Init => NeverUndercounts
  <2> SUFFICES ASSUME Init, NEW k \in Keys PROVE pausedByKey[k] >= Cardinality(PausedOf(k))
    BY DEF NeverUndercounts
  <2>1. pausedByKey[k] = 0 /\ PausedOf(k) = {}
    BY DEF Init, PausedOf
  <2>2. QED
    BY <2>1, FS_EmptySet
<1>2. TypeOK /\ ManagerInv /\ NeverUndercounts /\ [Next]_vars => NeverUndercounts'
  BY KeysStep
<1>3. QED
  BY <1>1, <1>2, ManagerInvariant, PTL DEF Spec

\* In every behaviour each step moves the count of a key with the number of its
\* paused sessions, except a pause acknowledged for a session already paused.
THEOREM KeyAccounting == Spec => KeyLedger
<1>1. TypeOK /\ ManagerInv /\ NeverUndercounts /\ [Next]_vars => [KeysBalance]_vars
  BY KeysStep
<1>2. QED
  BY <1>1, ManagerInvariant, KeysNeverUndercount, PTL DEF Spec, KeyLedger

----------------------------------------------------------------------------
(* The rows.  Before the first write of its task nobody else writes a row,  *)
(* so that write never fails; a terminal status is the task's last word;    *)
(* and a request that was acknowledged has read the row before it ended.    *)

RowOf(s) ==
    /\ task[s] = "none" <=> row[s].status = "absent"
    /\ task[s] # "mkRetry"
    /\ task[s] \in {"none", "persisted", "created", "slot", "mkRead", "mkWrite"} => expv[s] = 0
    /\ task[s] \in {"persisted", "created", "slot", "mkRead", "mkWrite"} =>
          row[s].status = "queued" /\ row[s].version = 0
    /\ task[s] \in {"prepare", "start", "stop"} \cup Driving => row[s].status \in {"running", "paused"}
    /\ task[s] \in Finishing \ {"flush"} => row[s].status \notin Terminal

Started(s) == row[s].status \notin {"absent", "queued"}

AnchorOf(c) ==
    /\ call[c].pc \in PausePC \cup ResumePC => Started(call[c].sid)
    /\ call[c].pc \in {"pAck", "pWrite", "rSlot", "rAck", "rWrite"} =>
          call[c].exp <= row[call[c].sid].version
    /\ call[c].pc \in {"pWrite", "rWrite"} /\ row[call[c].sid].status \in Terminal =>
          call[c].exp < row[call[c].sid].version

RowsInv == \A s \in Sessions : RowOf(s)
AnchorsInv == \A c \in Calls : AnchorOf(c)

\* A task's step concerns its own session only.
Apart(s) == \A r \in Sessions \ {s} :
    row'[r] = row[r] /\ task'[r] = task[r] /\ expv'[r] = expv[r]

\* What a step of a task does to its row: it persists it, writes it once
\* running, touches it, ends it, or leaves it alone.
LEMMA TaskRow ==
    ASSUME TypeOK, RowsInv, NEW s \in Sessions, TaskAction(s)
    PROVE  /\ Apart(s) /\ RowOf(s)'
           /\ \/ row'[s] = row[s] /\ task[s] # "none"
              \/ /\ task[s] = "none" /\ task'[s] = "persisted" /\ row'[s].status = "queued"
              \/ /\ row'[s].version = row[s].version + 1 /\ task[s] \notin {"none", "persisted", "flush", "done"}
                 /\ task'[s] \notin {"none", "persisted", "done"}
                 /\ \/ row'[s].status = "running" /\ row[s].status # "absent"
                    \/ row'[s].status = row[s].status
                    \/ row'[s].status \in Terminal /\ row[s].status \notin Terminal \cup {"absent"}
<1> USE DEF rowVars, pauseVars, runVars, ctlVars, shutVars, Goto, Ready, Apart, RowOf,
            Starting, Driving, Finishing, Bump
<1>1. /\ RowOf(s) /\ row \in [Sessions -> Row] /\ task \in [Sessions -> TaskPC]
      /\ expv \in [Sessions -> Nat] /\ endStatus[s] \in Terminal
  BY DEF RowsInv, TypeOK
<1>2. row[s].version \in Nat /\ row[s].status \in Status
  BY <1>1 DEF Row
<1>3. CASE SubmitRow(s)
  <2>1. /\ task[s] = "none" /\ task' = [task EXCEPT ![s] = "persisted"] /\ expv' = expv
        /\ row' = [row EXCEPT ![s] = [status |-> "queued", version |-> 0]]
    BY <1>3 DEF SubmitRow
  <2>2. Apart(s) /\ task'[s] = "persisted" /\ row'[s].status = "queued" /\ row'[s].version = 0
    BY <1>1, <2>1
  <2>3. expv'[s] = 0
    BY <1>1, <2>1
  <2>4. QED
    BY <1>1, <2>1, <2>2, <2>3 DEF Terminal
<1>4. CASE SubmitTask(s) \/ RunStart(s) \/ AcquireSlot(s)
  BY <1>1, <1>4 DEF SubmitTask, RunStart, AcquireSlot, Terminal
<1>5. CASE MarkRunning(s)
  <2>1. CASE ReadVersion(s, "mkRead", "mkWrite")
    BY <1>1, <2>1 DEF ReadVersion, Terminal
  <2>2. CASE LockedWrite(s, "mkWrite", "mkRetry", "prepare", "running")
    <3>1. row[s].version = expv[s]
      BY <1>1, <2>2 DEF LockedWrite
    <3>2. row' = [row EXCEPT ![s] = [status |-> "running", version |-> row[s].version + 1]]
      BY <1>1, <2>2, <3>1 DEF LockedWrite
    <3>3. row'[s].status = "running" /\ row'[s].version = row[s].version + 1
          /\ task[s] = "mkWrite" /\ task'[s] = "prepare"
      BY <1>1, <2>2, <3>1, <3>2 DEF LockedWrite
    <3>4. Apart(s)
      BY <1>1, <2>2, <3>1, <3>2 DEF LockedWrite
    <3>5. QED
      BY <1>1, <3>3, <3>4 DEF Terminal
  <2>3. CASE LockedRetry(s, "mkRetry", "prepare", "running")
    BY <1>1, <2>3 DEF LockedRetry
  <2>4. QED
    BY <1>5, <2>1, <2>2, <2>3 DEF MarkRunning, LockedUpdate
<1>6. CASE RecordRuntime(s)
  <2>1. CASE ReadVersion(s, "rtRead", "rtWrite")
    BY <1>1, <2>1 DEF ReadVersion, Terminal
  <2>2. CASE \/ LockedWrite(s, "rtWrite", "rtRetry", "drive", row[s].status)
             \/ LockedRetry(s, "rtRetry", "drive", row[s].status)
    <3>1. /\ task[s] \in {"rtWrite", "rtRetry"} /\ task'[s] \in {"rtRetry", "drive"}
          /\ \A r \in Sessions \ {s} : task'[r] = task[r] /\ expv'[r] = expv[r]
      BY <1>1, <2>2 DEF LockedWrite, LockedRetry
    <3>2. \/ row' = row
          \/ row' = [row EXCEPT ![s] = [status |-> row[s].status, version |-> row[s].version + 1]]
      BY <2>2 DEF LockedWrite, LockedRetry
    <3>3. /\ \A r \in Sessions \ {s} : row'[r] = row[r]
          /\ \/ row'[s] = row[s]
             \/ row'[s].status = row[s].status /\ row'[s].version = row[s].version + 1
      BY <1>1, <3>2
    <3>4. QED
      BY <1>1, <3>1, <3>3 DEF Terminal
  <2>3. QED
    BY <1>6, <2>1, <2>2 DEF RecordRuntime, LockedUpdate
<1>7. CASE WriteTerminal(s)
  <2>1. CASE ReadVersion(s, "finRead", "finWrite")
    BY <1>1, <2>1 DEF ReadVersion, Terminal
  <2>2. CASE \/ LockedWrite(s, "finWrite", "finRetry", "flush", endStatus[s])
             \/ LockedRetry(s, "finRetry", "flush", endStatus[s])
    <3>1. /\ task[s] \in {"finWrite", "finRetry"} /\ task'[s] \in {"finRetry", "flush"}
          /\ \A r \in Sessions \ {s} : task'[r] = task[r] /\ expv'[r] = expv[r]
      BY <1>1, <2>2 DEF LockedWrite, LockedRetry
    <3>2. \/ row' = row
          \/ /\ row' = [row EXCEPT ![s] = [status |-> endStatus[s], version |-> row[s].version + 1]]
             /\ task' = [task EXCEPT ![s] = "flush"]
      BY <2>2 DEF LockedWrite, LockedRetry
    <3>3. /\ \A r \in Sessions \ {s} : row'[r] = row[r]
          /\ \/ row'[s] = row[s]
             \/ /\ row'[s].status = endStatus[s] /\ row'[s].version = row[s].version + 1
                /\ task'[s] = "flush"
      BY <1>1, <3>2
    <3>4. QED
      BY <1>1, <3>1, <3>3 DEF Terminal
  <2>3. QED
    BY <1>7, <2>1, <2>2 DEF WriteTerminal, LockedUpdate
<1>8. CASE PreparePlugins(s) \/ StartExecutor(s) \/ SessionEnds(s) \/ FlushAndExit(s)
  BY <1>1, <1>8 DEF PreparePlugins, StartExecutor, SessionEnds, DriveEnds, FlushAndExit, Terminal
<1>9. CASE StartFails(s) \/ StopExecutor(s)
  BY <1>1, <1>9 DEF StartFails, StopExecutor, Finally, Terminal
<1>10. CASE TaskCancelled(s)
  BY <1>1, <1>10 DEF TaskCancelled, CancelledBeforeStart, CancelledWhileStarting, Finally,
               CancelledWhileDriving, CancelledWhileStopping, CancelledWhileFinishing, Terminal
<1>11. QED
  BY <1>3, <1>4, <1>5, <1>6, <1>7, <1>8, <1>9, <1>10 DEF TaskAction, RunStep

\* Only tasks and the writes of requests change rows.
LEMMA RowFrame ==
    ASSUME \/ \E s \in Sessions : RunnerAction(s)
           \/ \E c \in Calls : RequestAction(c) /\ ~PauseWrite(c) /\ ~ResumeWrite(c)
           \/ CancelAction
           \/ UNCHANGED vars
    PROVE  UNCHANGED <<row, task, expv>>
<1> USE DEF rowVars, pauseVars, runVars, ctlVars, shutVars
<1>1. CASE \E s \in Sessions : RunnerAction(s)
  BY <1>1 DEF RunnerAction, RunnerServes
<1>2. CASE \E c \in Calls : CallStep(c) /\ ~PauseWrite(c) /\ ~ResumeWrite(c)
  BY <1>2 DEF CallStep, PauseRead, PauseAckTimeout, PauseArm, ResumeRead,
              ResumeAcquire, ResumeSlotTimeout, ResumeAckTimeout
<1>3. CASE \E c \in Calls, s \in Sessions : PauseCall(c, s) \/ PauseAgain(c, s) \/ ResumeCall(c, s)
  BY <1>3 DEF PauseCall, PauseAgain, ResumeCall
<1>4. CASE CancelAction
  BY <1>4 DEF CancelAction, Cancel, WatchdogFires, WatchdogCancels, ShutdownStart, ShutdownStep,
              ShutdownCancelsPaused, ShutdownWaits, ShutdownGraceEnds, ShutdownDone
<1>5. CASE UNCHANGED vars
  BY <1>5 DEF vars
<1>6. QED
  BY <1>1, <1>2, <1>3, <1>4, <1>5 DEF RequestAction

\* What the write of a request does: it succeeds on the version it knows, and
\* then the row has the request's status, or it changes no row.
LEMMA CallRow ==
    ASSUME TypeOK, NEW c \in Calls, PauseWrite(c) \/ ResumeWrite(c)
    PROVE  /\ UNCHANGED <<task, expv>> /\ call[c].sid \in Sessions
           /\ call[c].pc \in {"pWrite", "pRetry", "rWrite", "rRetry"}
           /\ \E pc, exp : /\ SetCall(c, pc, exp)
                           /\ pc \in {"pArm", "pRetry", "rRetry", "done"}
           /\ \/ row' = row
              \/ /\ row[call[c].sid].version = call[c].exp
                 /\ \A r \in Sessions \ {call[c].sid} : row'[r] = row[r]
                 /\ row'[call[c].sid].status \in {"running", "paused"}
                 /\ row'[call[c].sid].version = row[call[c].sid].version + 1
<1> DEFINE s == call[c].sid
<1>1. call[c].pc \in {"pWrite", "pRetry", "rWrite", "rRetry"} /\ UNCHANGED <<task, expv>>
  BY DEF PauseWrite, ResumeWrite, CallWrite, At, runVars
<1>2. s \in Sessions
  BY <1>1 DEF TypeOK
<1>3. \E pc, exp : SetCall(c, pc, exp) /\ pc \in {"pArm", "pRetry", "rRetry", "done"}
  BY DEF PauseWrite, ResumeWrite, CallWrite
<1>4. \/ row' = row
      \/ /\ row[s].version = call[c].exp
         /\ \E st \in {"running", "paused"} : Bump(s, st)
  BY DEF PauseWrite, ResumeWrite, CallWrite
<1> HIDE DEF s
<1>5. ASSUME NEW st \in {"running", "paused"}, Bump(s, st)
      PROVE  /\ \A r \in Sessions \ {s} : row'[r] = row[r]
             /\ row'[s].status = st /\ row'[s].version = row[s].version + 1
  BY <1>2, <1>5 DEF Bump, TypeOK
<1>6. QED
  BY <1>1, <1>2, <1>3, <1>4, <1>5 DEF s

LEMMA RowsStep ==
    ASSUME TypeOK, RowsInv, AnchorsInv, [Next]_vars
    PROVE  RowsInv'
<1>1. ASSUME NEW s \in Sessions, TaskAction(s) PROVE RowsInv'
  <2>1. Apart(s) /\ RowOf(s)'
    BY <1>1, TaskRow
  <2>2. QED
    BY <2>1 DEF Apart, RowsInv, RowOf
<1>2. CASE UNCHANGED <<row, task, expv>>
  BY <1>2 DEF RowsInv, RowOf
<1>3. ASSUME NEW c \in Calls, PauseWrite(c) \/ ResumeWrite(c) PROVE RowsInv'
  <2>0. PICK s \in Sessions : s = call[c].sid
    BY <1>3, CallRow
  <2>1. /\ UNCHANGED <<task, expv>>
        /\ \/ row' = row
           \/ /\ \A r \in Sessions \ {s} : row'[r] = row[r]
              /\ row'[s].status \in {"running", "paused"}
    BY <1>3, <2>0, CallRow
  <2>2. Started(s)
    BY <1>3, <2>0, CallRow DEF AnchorsInv, AnchorOf, PausePC, ResumePC, Started
  <2>3. CASE row' = row
    BY <1>2, <2>1, <2>3
  <2>4. CASE (\A r \in Sessions \ {s} : row'[r] = row[r]) /\ row'[s].status \in {"running", "paused"}
    <3>1. \A r \in Sessions \ {s} : RowOf(r)'
      BY <2>1, <2>4 DEF RowsInv, RowOf
    <3>2. RowOf(s)'
      BY <2>1, <2>2, <2>4 DEF RowsInv, RowOf, Started, Terminal
    <3>3. QED
      BY <3>1, <3>2 DEF RowsInv
  <2>5. QED
    BY <2>1, <2>3, <2>4
<1>4. QED
  BY <1>1, <1>2, <1>3, NextGroups, RowFrame

\* A row that was started stays so, and nobody makes it terminal without moving
\* its version.
LEMMA RowForward ==
    ASSUME TypeOK, RowsInv, AnchorsInv, [Next]_vars, NEW r \in Sessions, Started(r)
    PROVE  \/ row'[r] = row[r]
           \/ Started(r)' /\ row'[r].version = row[r].version + 1
<1>1. row[r].version \in Nat /\ RowOf(r)
  BY DEF TypeOK, Row, RowsInv
<1>2. ASSUME NEW s \in Sessions, TaskAction(s)
      PROVE  row'[r] = row[r] \/ (Started(r)' /\ row'[r].version = row[r].version + 1)
  <2>1. CASE s # r
    BY <1>2, <2>1, TaskRow DEF Apart
  <2>2. CASE s = r
    BY <1>1, <1>2, <2>2, TaskRow DEF Started, RowOf, Terminal
  <2>3. QED
    BY <2>1, <2>2
<1>3. ASSUME NEW c \in Calls, PauseWrite(c) \/ ResumeWrite(c)
      PROVE  row'[r] = row[r] \/ (Started(r)' /\ row'[r].version = row[r].version + 1)
  BY <1>3, CallRow DEF Started
<1>4. QED
  BY <1>2, <1>3, NextGroups, RowFrame

\* What a step does to a request: it is left alone, issued for a session with a
\* bridge, reads its row, is acknowledged by a runner at work, writes, or goes
\* on or ends with the anchor it has.
LEMMA CallKinds ==
    ASSUME TypeOK, ManagerInv, [Next]_vars, NEW c \in Calls
    PROVE  \/ call'[c] = call[c]
           \/ call'[c].pc \in {"idle", "done"}
           \/ /\ call[c].pc = "idle" /\ call'[c].pc \in {"pRead", "rRead"}
              /\ call'[c].sid \in bridges /\ row' = row
           \/ /\ call[c].pc \in PausePC \cup ResumePC /\ call'[c].sid = call[c].sid /\ row' = row
              /\ call'[c].pc \in {"pAck", "rSlot"} /\ call'[c].exp = row[call[c].sid].version
           \/ /\ call[c].pc = "rSlot" /\ call'[c].pc = "rAck" /\ row' = row
              /\ call'[c].sid = call[c].sid /\ call'[c].exp = call[c].exp
           \/ /\ call[c].pc \in {"pAck", "rAck"} /\ call'[c].pc \in {"pWrite", "rWrite"} /\ row' = row
              /\ call'[c].sid = call[c].sid /\ call'[c].exp = call[c].exp
              /\ task[call[c].sid] \in Driving
           \/ /\ call[c].pc \in {"pWrite", "rWrite", "pRetry", "rRetry"}
              /\ call'[c].pc \in {"pArm", "pRetry", "rRetry"} /\ call'[c].sid = call[c].sid
<1> USE DEF At, SetCall
<1>1. ASSUME NEW d \in Calls, d # c, \E v : call' = [call EXCEPT ![d] = v]
      PROVE  call'[c] = call[c]
  BY <1>1 DEF TypeOK
<1>2. ASSUME NEW d \in Calls, RequestAction(d) PROVE \E v : call' = [call EXCEPT ![d] = v]
  BY <1>2 DEF RequestAction, CallStep, PauseRead, PauseAckTimeout, PauseWrite, PauseArm,
              ResumeRead, ResumeAcquire, ResumeSlotTimeout, ResumeAckTimeout, ResumeWrite,
              CallWrite, ResumeRefused, PauseCall, PauseAgain, ResumeCall
<1>3. CASE RequestAction(c)
  <2> USE DEF rowVars
  <2>1. CASE PauseWrite(c) \/ ResumeWrite(c)
    <3>1. PICK pc, exp : SetCall(c, pc, exp) /\ pc \in {"pArm", "pRetry", "rRetry", "done"}
      BY <2>1, CallRow
    <3>2. call'[c].pc = pc /\ call'[c].sid = call[c].sid
      BY <3>1 DEF TypeOK
    <3>3. call[c].pc \in {"pWrite", "pRetry", "rWrite", "rRetry"}
      BY <2>1, CallRow
    <3>4. QED
      BY <3>1, <3>2, <3>3
  <2>2. CASE PauseRead(c) \/ ResumeRead(c)
    BY <2>2 DEF PauseRead, ResumeRead, TypeOK, PausePC, ResumePC
  <2>3. CASE ResumeAcquire(c)
    BY <2>3 DEF ResumeAcquire, TypeOK
  <2>4. CASE PauseAckTimeout(c) \/ PauseArm(c) \/ ResumeSlotTimeout(c) \/ ResumeAckTimeout(c)
    BY <2>4 DEF PauseAckTimeout, PauseArm, ResumeSlotTimeout, ResumeAckTimeout, ResumeRefused, TypeOK
  <2>5. ASSUME NEW s \in Sessions, PauseCall(c, s) \/ PauseAgain(c, s) \/ ResumeCall(c, s)
        PROVE  \/ call'[c].pc = "done"
               \/ /\ call[c].pc = "idle" /\ call'[c].pc \in {"pRead", "rRead"}
                  /\ call'[c].sid \in bridges /\ row' = row
    BY <2>5 DEF PauseCall, PauseAgain, ResumeCall, TypeOK
  <2>6. QED
    BY <1>3, <2>1, <2>2, <2>3, <2>4, <2>5 DEF RequestAction, CallStep
<1>4. ASSUME NEW s \in Sessions, RunnerAction(s)
      PROVE  \/ call'[c] = call[c]
             \/ call'[c].pc = "done"
             \/ /\ call[c].pc \in {"pAck", "rAck"} /\ call'[c].pc \in {"pWrite", "rWrite"} /\ row' = row
                /\ call'[c].sid = call[c].sid /\ call'[c].exp = call[c].exp
                /\ task[call[c].sid] \in Driving
  <2> DEFINE d == Head(inbox[s]).by
  <2>1. task[s] \in Driving /\ inbox[s] # <<>> /\ row' = row
    BY <1>4 DEF RunnerAction, RunnerServes, RunnerAlive, rowVars
  <2>2. d \in Calls /\ call[d].sid = s
    BY <2>1, HeadDirective DEF ManagerInv, DirectivesOwned
  <2>3. \/ call' = call
        \/ call' = [call EXCEPT ![d] = [pc |-> "done", sid |-> @.sid, exp |-> 0]]
        \/ /\ call[d].pc \in {"pAck", "rAck"}
           /\ \E pc \in {"pWrite", "rWrite"} :
                call' = [call EXCEPT ![d] = [pc |-> pc, sid |-> @.sid, exp |-> call[d].exp]]
    BY <1>4 DEF RunnerAction, RunnerServes, Waiting, PauseAcked, PauseRefused, ResumeAcked, ResumeRefused
  <2> HIDE DEF d
  <2>4. QED
    BY <2>1, <2>2, <2>3 DEF TypeOK
<1>5. QED
  BY <1>1, <1>2, <1>3, <1>4, NextGroups, CallFrame

LEMMA AnchorsStep ==
    ASSUME TypeOK, ManagerInv, RowsInv, AnchorsInv, [Next]_vars
    PROVE  AnchorsInv'
<1> SUFFICES ASSUME NEW c \in Calls PROVE AnchorOf(c)'
  BY DEF AnchorsInv
<1> DEFINE s == call[c].sid
           t == call'[c].sid
<1>1. AnchorOf(c) /\ call[c].exp \in Nat
  BY DEF AnchorsInv, TypeOK, Call
<1>2. call[c].pc # "idle" => s \in Sessions /\ row[s].version \in Nat /\ RowOf(s)
  BY DEF TypeOK, Row, RowsInv
<1>3. call[c].pc \in PausePC \cup ResumePC =>
        /\ Started(s)
        /\ row'[s] = row[s] \/ (row'[s].status \notin {"absent", "queued"} /\ row'[s].version = row[s].version + 1)
  BY <1>1, <1>2, RowForward DEF AnchorOf, Started, PausePC, ResumePC
<1> USE DEF AnchorOf, Started, PausePC, ResumePC
<1>4. CASE call'[c] = call[c]
  BY <1>1, <1>2, <1>3, <1>4
<1>5. CASE call'[c].pc \in {"idle", "done"}
  BY <1>5
<1>6. CASE call[c].pc = "idle" /\ call'[c].pc \in {"pRead", "rRead"} /\ t \in bridges /\ row' = row
  <2>1. t \in Sessions /\ task[t] \in Driving \cup {"stop"}
    BY <1>6 DEF ManagerInv, TaskOwns, TypeOK
  <2>2. RowOf(t)
    BY <2>1 DEF RowsInv
  <2>3. row[t].status \in {"running", "paused"}
    BY <2>1, <2>2 DEF RowOf
  <2>4. QED
    BY <1>6, <2>3
<1>7. CASE /\ call[c].pc \in PausePC \cup ResumePC /\ t = s /\ row' = row
           /\ call'[c].pc \in {"pAck", "rSlot"} /\ call'[c].exp = row[s].version
  BY <1>2, <1>3, <1>7
<1>8. CASE /\ call[c].pc = "rSlot" /\ call'[c].pc = "rAck" /\ row' = row
           /\ t = s /\ call'[c].exp = call[c].exp
  BY <1>1, <1>8
<1>9. CASE /\ call[c].pc \in {"pAck", "rAck"} /\ call'[c].pc \in {"pWrite", "rWrite"} /\ row' = row
           /\ t = s /\ call'[c].exp = call[c].exp /\ task[s] \in Driving
  <2>1. row[s].status \in {"running", "paused"}
    BY <1>2, <1>9 DEF RowOf
  <2>2. QED
    BY <1>1, <1>9, <2>1 DEF Terminal
<1>10. CASE /\ call[c].pc \in {"pWrite", "rWrite", "pRetry", "rRetry"}
            /\ call'[c].pc \in {"pArm", "pRetry", "rRetry"} /\ t = s
  BY <1>3, <1>10
<1>11. QED
  BY <1>4, <1>5, <1>6, <1>7, <1>8, <1>9, <1>10, CallKinds

LEMMA RowsInvariant == Spec => [](RowsInv /\ AnchorsInv)
<1>1. Init => RowsInv /\ AnchorsInv
  BY DEF Init, RowsInv, RowOf, AnchorsInv, AnchorOf, Driving, Finishing, PausePC, ResumePC
<1>2. TypeOK /\ ManagerInv /\ RowsInv /\ AnchorsInv /\ [Next]_vars => (RowsInv /\ AnchorsInv)'
  BY RowsStep, AnchorsStep
<1>3. QED
  BY <1>1, <1>2, ManagerInvariant, PTL DEF Spec

\* In every behaviour a terminal row is rewritten only by the second attempt of
\* a pause or a resume: the version read before the directive is out of date by
\* the time the task has ended the row, whoever wrote in between.
THEOREM TerminalRowsAreGuarded == Spec => TerminalRewrittenOnlyByRetry
<1> DEFINE A == \A s \in Sessions :
                  row[s].status \in Terminal /\ row'[s] # row[s] =>
                     \E c \in Calls : call[c].pc \in {"pRetry", "rRetry"} /\ call[c].sid = s
<1>1. TypeOK /\ RowsInv /\ AnchorsInv /\ [Next]_vars => A
  <2> SUFFICES ASSUME TypeOK, RowsInv, AnchorsInv, [Next]_vars,
                      NEW s \in Sessions, row[s].status \in Terminal, row'[s] # row[s]
               PROVE  \E c \in Calls : call[c].pc \in {"pRetry", "rRetry"} /\ call[c].sid = s
    OBVIOUS
  <2>1. row[s].version \in Nat /\ RowOf(s)
    BY DEF TypeOK, Row, RowsInv
  <2>2. ASSUME NEW r \in Sessions, TaskAction(r) PROVE FALSE
    <3>1. r = s
      BY <2>2, TaskRow DEF Apart
    <3>2. task[s] \notin {"none", "flush", "done"} \/ (task[s] = "none" /\ row'[s].status = "queued")
      BY <2>2, <3>1, TaskRow
    <3>3. task[s] \in TaskPC
      BY DEF TypeOK
    <3>4. QED
      BY <2>1, <3>2, <3>3 DEF RowOf, Terminal, TaskPC, Starting, Driving, Finishing
  <2>3. ASSUME NEW c \in Calls, PauseWrite(c) \/ ResumeWrite(c)
        PROVE  call[c].pc \in {"pRetry", "rRetry"} /\ call[c].sid = s
    <3>1. /\ call[c].pc \in {"pWrite", "pRetry", "rWrite", "rRetry"} /\ call[c].sid = s
          /\ row[s].version = call[c].exp
      BY <2>3, CallRow
    <3>2. call[c].pc \in {"pWrite", "rWrite"} => call[c].exp < row[s].version
      BY <3>1 DEF AnchorsInv, AnchorOf
    <3>3. QED
      BY <2>1, <3>1, <3>2
  <2>4. QED
    BY <2>2, <2>3, NextGroups, RowFrame
<1>2. TypeOK /\ RowsInv /\ AnchorsInv /\ [Next]_vars => [A]_vars
  BY <1>1
<1>3. QED
  BY <1>2, ManagerInvariant, RowsInvariant, PTL DEF Spec, TerminalRewrittenOnlyByRetry

----------------------------------------------------------------------------
(* The refinement *)

\* How far a task is, as SessionLifecycle sees it.
LifeOf(pc) == CASE pc = "none" -> "no" [] pc = "persisted" -> "pending" [] pc = "done" -> "over" [] OTHER -> "yes"

StatusMap == [s \in Sessions |-> row[s].status]
LiveMap == [s \in Sessions |-> LifeOf(task[s])]

LEMMA LifeValues ==
    ASSUME NEW pc
    PROVE  /\ LifeOf(pc) \in {"no", "pending", "yes", "over"}
           /\ LifeOf(pc) = "no" <=> pc = "none"
           /\ LifeOf(pc) = "pending" <=> pc = "persisted"
           /\ LifeOf(pc) = "over" <=> pc = "done"
BY DEF LifeOf

\* What the lifecycle says of one session, over the two maps.
LifecycleMoves(s, st, lv) ==
    LET old == StatusMap[s]
        was == LiveMap[s]
    IN  \/ st = old /\ lv = was
        \/ old = "absent" /\ st = "queued" /\ lv = "pending"
        \/ was = "pending" /\ lv = "yes" /\ st = old
        \/ was = "yes" /\ old = "queued" /\ st = "running" /\ lv = was
        \/ was \in {"yes", "over"} /\ old \notin {"absent", "queued", "interrupted"}
              /\ st \in {"paused", "running"} /\ lv = was
        \/ was = "yes" /\ old \in {"queued", "running", "paused"} /\ st \in Terminal /\ lv = was
        \/ was = "yes" /\ lv = "over" /\ st = old

LEMMA MovesAreSteps ==
    ASSUME NEW s \in Sessions, NEW st, NEW lv, LifecycleMoves(s, st, lv),
           StatusMap' = [StatusMap EXCEPT ![s] = st], LiveMap' = [LiveMap EXCEPT ![s] = lv]
    PROVE  [Lifecycle!LifecycleNext]_(Lifecycle!lifecycleVars)
<1> DEFINE S == StatusMap
           L == LiveMap
<1>1. S = [r \in Sessions |-> row[r].status]
      /\ L = [r \in Sessions |-> CASE task[r] = "none" -> "no"
                                   [] task[r] = "persisted" -> "pending"
                                   [] task[r] = "done" -> "over"
                                   [] OTHER -> "yes"]
  BY DEF StatusMap, LiveMap, LifeOf
<1>2. S' = [r \in Sessions |-> row'[r].status]
      /\ L' = [r \in Sessions |-> CASE task'[r] = "none" -> "no"
                                   [] task'[r] = "persisted" -> "pending"
                                   [] task'[r] = "done" -> "over"
                                   [] OTHER -> "yes"]
  BY DEF StatusMap, LiveMap, LifeOf
<1>3. DOMAIN S = Sessions /\ DOMAIN L = Sessions
  BY DEF StatusMap, LiveMap
<1>4. /\ [S EXCEPT ![s] = S[s]] = S /\ [L EXCEPT ![s] = L[s]] = L
  BY <1>3 DEF StatusMap, LiveMap
<1>5. S' = [S EXCEPT ![s] = st] /\ L' = [L EXCEPT ![s] = lv]
  OBVIOUS
<1> HIDE DEF S, L
<1>6. \/ st = S[s] /\ lv = L[s]
      \/ S[s] = "absent" /\ st = "queued" /\ lv = "pending"
      \/ L[s] = "pending" /\ lv = "yes" /\ st = S[s]
      \/ L[s] = "yes" /\ S[s] = "queued" /\ st = "running" /\ lv = L[s]
      \/ L[s] \in {"yes", "over"} /\ S[s] \notin {"absent", "queued", "interrupted"}
            /\ st \in {"paused", "running"} /\ lv = L[s]
      \/ L[s] = "yes" /\ S[s] \in {"queued", "running", "paused"} /\ st \in Terminal /\ lv = L[s]
      \/ L[s] = "yes" /\ lv = "over" /\ st = S[s]
  BY DEF LifecycleMoves, S, L
<1>7. CASE st = S[s] /\ lv = L[s]
  <2>1. S' = S /\ L' = L
    BY <1>4, <1>5, <1>7
  <2>2. QED
    BY <1>1, <1>2, <2>1 DEF Lifecycle!lifecycleVars
<1>8. CASE S[s] = "absent" /\ st = "queued" /\ lv = "pending"
  <2>1. Lifecycle!Create(s)
    BY <1>1, <1>2, <1>5, <1>8 DEF Lifecycle!Create
  <2>2. QED
    BY <2>1 DEF Lifecycle!LifecycleNext, Lifecycle!LifecycleStep
<1>9. CASE L[s] = "pending" /\ lv = "yes" /\ st = S[s]
  <2>1. S' = S
    BY <1>4, <1>5, <1>9
  <2>2. Lifecycle!Spawn(s)
    BY <1>1, <1>2, <1>5, <1>9, <2>1 DEF Lifecycle!Spawn, Lifecycle!SetLive
  <2>3. QED
    BY <2>2 DEF Lifecycle!LifecycleNext, Lifecycle!LifecycleStep
<1>10. CASE L[s] = "yes" /\ S[s] = "queued" /\ st = "running" /\ lv = L[s]
  <2>1. L' = L
    BY <1>4, <1>5, <1>10
  <2>2. Lifecycle!Start(s)
    BY <1>1, <1>2, <1>5, <1>10, <2>1 DEF Lifecycle!Start, Lifecycle!SetStatus
  <2>3. QED
    BY <2>2 DEF Lifecycle!LifecycleNext, Lifecycle!LifecycleStep
<1>11. CASE /\ L[s] \in {"yes", "over"} /\ S[s] \notin {"absent", "queued", "interrupted"}
            /\ st \in {"paused", "running"} /\ lv = L[s]
  <2>1. L' = L
    BY <1>4, <1>5, <1>11
  <2>2. Lifecycle!PauseRow(s) \/ Lifecycle!ResumeRow(s)
    BY <1>1, <1>2, <1>5, <1>11, <2>1 DEF Lifecycle!PauseRow, Lifecycle!ResumeRow, Lifecycle!SetStatus
  <2>3. QED
    BY <2>2 DEF Lifecycle!LifecycleNext, Lifecycle!LifecycleStep
<1>12. CASE L[s] = "yes" /\ S[s] \in {"queued", "running", "paused"} /\ st \in Terminal /\ lv = L[s]
  <2>1. L' = L
    BY <1>4, <1>5, <1>12
  <2>2. Lifecycle!End(s, st) /\ st \in Lifecycle!Terminal
    BY <1>1, <1>2, <1>5, <1>12, <2>1 DEF Lifecycle!End, Lifecycle!SetStatus, Lifecycle!Terminal, Terminal
  <2>3. QED
    BY <2>2 DEF Lifecycle!LifecycleNext, Lifecycle!LifecycleStep
<1>13. CASE L[s] = "yes" /\ lv = "over" /\ st = S[s]
  <2>1. S' = S
    BY <1>4, <1>5, <1>13
  <2>2. Lifecycle!Exit(s)
    BY <1>1, <1>2, <1>5, <1>13, <2>1 DEF Lifecycle!Exit, Lifecycle!SetLive
  <2>3. QED
    BY <2>2 DEF Lifecycle!LifecycleNext, Lifecycle!LifecycleStep
<1>14. QED
  BY <1>6, <1>7, <1>8, <1>9, <1>10, <1>11, <1>12, <1>13

\* Where a task may go, as far as the lifecycle is concerned.
LEMMA TaskLife ==
    ASSUME TypeOK, NEW s \in Sessions, TaskAction(s)
    PROVE  \/ task[s] = "none" /\ task'[s] = "persisted"
           \/ task[s] = "persisted" /\ task'[s] = "created"
           \/ task[s] \notin {"none", "persisted", "done"} /\ task'[s] \notin {"none", "persisted"}
<1>1. CASE AcquireSlot(s) \/ (task[s] \in Starting \cup {"stop"} /\ Finally(s))
  BY <1>1 DEF TypeOK, AcquireSlot, Ready, Finally, Goto, Starting
<1>2. CASE ~AcquireSlot(s) /\ ~(task[s] \in Starting \cup {"stop"} /\ Finally(s))
  BY <1>2, TaskKinds DEF TypeOK, Moves, Starting, Driving, Finishing
<1>3. QED
  BY <1>1, <1>2

LEMMA LifecycleSteps ==
    ASSUME TypeOK, ManagerInv, RowsInv, AnchorsInv, [Next]_vars
    PROVE  [Lifecycle!LifecycleNext]_(Lifecycle!lifecycleVars)
<1>1. ASSUME NEW s \in Sessions, TaskAction(s)
      PROVE  [Lifecycle!LifecycleNext]_(Lifecycle!lifecycleVars)
  <2>1. PICK st, lv : st = row'[s].status /\ lv = LifeOf(task'[s])
    OBVIOUS
  <2>2. Apart(s) /\ RowOf(s) /\ RowOf(s)' /\ row[s].version \in Nat /\ row[s].status \in Status
    BY <1>1, TaskRow DEF RowsInv, TypeOK, Row
  <2>3. StatusMap' = [StatusMap EXCEPT ![s] = st] /\ LiveMap' = [LiveMap EXCEPT ![s] = lv]
    BY <2>1, <2>2 DEF StatusMap, LiveMap, Apart
  <2>4. StatusMap[s] = row[s].status /\ LiveMap[s] = LifeOf(task[s])
    BY DEF StatusMap, LiveMap
  <2>5. LifecycleMoves(s, st, lv)
    <3>1. CASE task[s] = "none"
      <4>1. task'[s] = "persisted" /\ st = "queued" /\ row[s].status = "absent"
        BY <1>1, <2>1, <2>2, <3>1, TaskRow DEF RowOf
      <4>2. QED
        BY <2>1, <2>4, <4>1, LifeValues DEF LifecycleMoves
    <3>2. CASE task[s] = "persisted"
      <4>1. task'[s] = "created" /\ row'[s] = row[s]
        BY <1>1, <3>2, TaskRow, TaskLife
      <4>2. lv = "yes" /\ LiveMap[s] = "pending" /\ st = StatusMap[s]
        BY <2>1, <2>4, <3>2, <4>1, LifeValues DEF LifeOf
      <4>3. QED
        BY <4>2 DEF LifecycleMoves
    <3>3. CASE task[s] \notin {"none", "persisted"}
      <4>1. task[s] # "done" /\ task'[s] \notin {"none", "persisted"}
        BY <1>1, <3>3, TaskLife
      <4>2. LiveMap[s] = "yes" /\ lv \in {"yes", "over"}
        BY <2>1, <2>4, <3>3, <4>1, LifeValues
      <4>3. CASE row'[s] = row[s]
        BY <2>1, <2>4, <4>2, <4>3 DEF LifecycleMoves
      <4>4. CASE row'[s] # row[s]
        <5>1. /\ task'[s] \notin {"none", "persisted", "done"}
              /\ \/ st = "running" /\ row[s].status # "absent"
                 \/ st = row[s].status
                 \/ st \in Terminal /\ row[s].status \notin Terminal \cup {"absent"}
          BY <1>1, <2>1, <3>3, <4>4, TaskRow
        <5>2. lv = "yes"
          BY <2>1, <5>1, LifeValues
        <5>3. row[s].status # "interrupted"
          BY <2>2 DEF Status, Terminal
        <5>4. QED
          BY <2>2, <2>4, <4>2, <5>1, <5>2, <5>3 DEF LifecycleMoves, Status
      <4>5. QED
        BY <4>3, <4>4
    <3>4. QED
      BY <3>1, <3>2, <3>3
  <2>6. QED
    BY <2>3, <2>5, MovesAreSteps
<1>2. ASSUME NEW c \in Calls, PauseWrite(c) \/ ResumeWrite(c)
      PROVE  [Lifecycle!LifecycleNext]_(Lifecycle!lifecycleVars)
  <2>1. PICK s \in Sessions : s = call[c].sid
    BY <1>2, CallRow
  <2>2. PICK st, lv : st = row'[s].status /\ lv = LifeOf(task[s])
    OBVIOUS
  <2>3. /\ UNCHANGED task /\ \A r \in Sessions \ {s} : row'[r] = row[r]
        /\ row'[s] = row[s] \/ st \in {"running", "paused"}
    BY <1>2, <2>1, <2>2, CallRow
  <2>4. row[s].status \notin {"absent", "queued"} /\ BridgeSeen(s)
    BY <1>2, <2>1, CallRow DEF AnchorsInv, AnchorOf, PausePC, ResumePC, Started, ManagerInv, CallsOwned
  <2>5. row[s].status \in Status /\ task[s] \notin {"none", "persisted"}
    BY <2>4 DEF TypeOK, Row, BridgeSeen, ManagerInv, TaskOwns, Driving, Finishing
  <2>6. StatusMap' = [StatusMap EXCEPT ![s] = st] /\ LiveMap' = [LiveMap EXCEPT ![s] = lv]
    BY <2>2, <2>3 DEF StatusMap, LiveMap
  <2>7. StatusMap[s] = row[s].status /\ LiveMap[s] = lv
    BY <2>2 DEF StatusMap, LiveMap
  <2>8. lv \in {"yes", "over"} /\ row[s].status # "interrupted"
    BY <2>2, <2>5, LifeValues DEF Status, Terminal
  <2>9. LifecycleMoves(s, st, lv)
    BY <2>2, <2>3, <2>4, <2>7, <2>8 DEF LifecycleMoves
  <2>10. QED
    BY <2>6, <2>9, MovesAreSteps
<1>3. CASE UNCHANGED <<row, task, expv>>
  BY <1>3 DEF Lifecycle!lifecycleVars
<1>4. QED
  BY <1>1, <1>2, <1>3, NextGroups, RowFrame

\* In every behaviour the manager does to its rows and tasks what
\* SessionLifecycle promises: a row leaves queued only through its own task or
\* its end, is never queued again once it was started, and no terminal status
\* replaces another.
THEOREM ManagerImplementsLifecycle == Spec => ImplementsLifecycle
<1>1. Init => Lifecycle!LifecycleInit
  BY DEF Init, Lifecycle!LifecycleInit
<1>2. TypeOK /\ ManagerInv /\ RowsInv /\ AnchorsInv /\ [Next]_vars
        => [Lifecycle!LifecycleNext]_(Lifecycle!lifecycleVars)
  BY LifecycleSteps
<1>3. QED
  BY <1>1, <1>2, ManagerInvariant, RowsInvariant, PTL
  DEF Spec, ImplementsLifecycle, Lifecycle!LifecycleSpec
=============================================================================
