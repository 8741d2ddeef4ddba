------------------------------ MODULE Recovery ------------------------------
(***************************************************************************)
(* Crashes and restarts of the relay process (session/recovery.py, the     *)
(* start of the lifespan in api/main.py and the recovery queries of        *)
(* store/repository.py).  While the process is up, rows and tasks move as  *)
(* SessionLifecycle allows.  A crash keeps the rows and loses everything   *)
(* in memory: tasks, watchdogs and the paused set.                         *)
(***************************************************************************)
EXTENDS SessionLifecycle, Naturals

CONSTANT MaxCrashes   \* bound on the number of crashes

ASSUME RecoveryAssumption == MaxCrashes \in Nat

VARIABLES proc,       \* where the process is in its life
          crashes,    \* crashes so far
          pausedSet,  \* _paused_set of the current process
          timers,     \* _paused_timers of the current process
          expired,    \* paused rows whose paused_timeout_s is over
          todo        \* paused rows recover_paused_timers still has to visit

vars == <<status, live, proc, crashes, pausedSet, timers, expired, todo>>
memory == <<pausedSet, timers>>

Boot == {"bootRunning", "bootQueued", "bootPaused", "bootLoop"}

\* Rows, tasks and the state of start-up have their shapes.
TypeOK ==
    /\ LifecycleTypeOK
    /\ proc \in {"up", "down"} \cup Boot
    /\ crashes \in 0..MaxCrashes
    /\ pausedSet \subseteq Sessions
    /\ timers \subseteq Sessions
    /\ expired \subseteq Sessions
    /\ todo \subseteq Sessions

Init ==
    /\ LifecycleInit
    /\ proc = "up"
    /\ crashes = 0
    /\ pausedSet = {}
    /\ timers = {}
    /\ expired = {}
    /\ todo = {}

----------------------------------------------------------------------------
(* The manager at work.  A pause enters the paused set and arms the         *)
(* watchdog, a resume and the end of the task undo both.  (A pause whose    *)
(* row is written after the end of its task arms the watchdog only.)        *)

Pausing(s) ==
    /\ PauseRow(s)
    /\ pausedSet' = IF live[s] = "yes" THEN pausedSet \cup {s} ELSE pausedSet
    /\ timers' = timers \cup {s}
    /\ expired' = expired \ {s}

Unpausing(s) ==
    /\ \/ ResumeRow(s)
       \/ Exit(s)
       \/ \E result \in Terminal : End(s, result)
    /\ pausedSet' = pausedSet \ {s}
    /\ timers' = timers \ {s}
    /\ UNCHANGED expired

Manages(s) ==
    /\ proc = "up"
    /\ \/ Pausing(s)
       \/ Unpausing(s)
       \/ Create(s) /\ UNCHANGED <<memory, expired>>
       \/ Spawn(s) /\ UNCHANGED <<memory, expired>>
       \/ Start(s) /\ UNCHANGED <<memory, expired>>
    /\ UNCHANGED <<proc, crashes, todo>>

\* paused_timeout_s passes for a paused row, whether or not a process runs.
Expires(s) ==
    /\ status[s] = "paused"
    /\ expired' = expired \cup {s}
    /\ UNCHANGED <<status, live, proc, crashes, memory, todo>>

\* _paused_timeout_watchdog: a session this process paused is cancelled (its
\* task then writes the terminal row), any other one is left alone.
WatchdogFires(s) ==
    /\ proc # "down"
    /\ s \in timers \cap expired
    /\ timers' = timers \ {s}
    /\ IF s \in pausedSet /\ live[s] = "yes"
       THEN End(s, "cancelled") \/ Exit(s)
       ELSE UNCHANGED <<status, live>>
    /\ pausedSet' = pausedSet \ {s}
    /\ UNCHANGED <<proc, crashes, expired, todo>>

----------------------------------------------------------------------------
(* Crash and restart *)

Crash ==
    /\ proc # "down"
    /\ crashes < MaxCrashes
    /\ crashes' = crashes + 1
    /\ proc' = "down"
    /\ live' = [s \in Sessions |-> "no"]
    /\ pausedSet' = {}
    /\ timers' = {}
    /\ todo' = {}
    /\ UNCHANGED <<status, expired>>

Restart ==
    /\ proc = "down"
    /\ proc' = "bootRunning"
    /\ UNCHANGED <<status, live, crashes, memory, expired, todo>>

\* One transaction: every row with status st becomes interrupted.
Interrupt(st) ==
    status' = [s \in Sessions |-> IF status[s] = st THEN "interrupted" ELSE status[s]]

\* Mutant: running rows of the previous process are left alone.
RecoverNoRunning ==
    /\ proc = "bootRunning"
    /\ proc' = "bootQueued"
    /\ UNCHANGED <<status, live, crashes, memory, expired, todo>>

\* mark_in_flight_as_interrupted
RecoverRunning ==
    /\ proc = "bootRunning"
    /\ Interrupt("running")
    /\ proc' = "bootQueued"
    /\ UNCHANGED <<live, crashes, memory, expired, todo>>

\* The `recover` command, run by hand after a crash.
CliRecover ==
    /\ proc = "down"
    /\ Interrupt("running")
    /\ UNCHANGED <<live, proc, crashes, memory, expired, todo>>

\* Mutant: only the rows that had a task are considered.
RecoverNoQueued ==
    /\ proc = "bootQueued"
    /\ proc' = "bootPaused"
    /\ UNCHANGED <<status, live, crashes, memory, expired, todo>>

\* mark_queued_as_interrupted: no request is served before the lifespan is
\* through, so every queued row is older than the cutoff.
RecoverQueued ==
    /\ proc = "bootQueued"
    /\ Interrupt("queued")
    /\ proc' = "bootPaused"
    /\ UNCHANGED <<live, crashes, memory, expired, todo>>

\* recover_paused_timers: list_paused, then one row after the other.
ListPaused ==
    /\ proc = "bootPaused"
    /\ todo' = {s \in Sessions : status[s] = "paused"}
    /\ proc' = "bootLoop"
    /\ UNCHANGED <<status, live, crashes, memory, expired>>

\* manager.cancel() of an expired row finds neither a task nor a paused-set
\* entry; a row still in its window gets a watchdog.
RecoverPaused(s) ==
    /\ proc = "bootLoop"
    /\ s \in todo
    /\ timers' = IF s \in expired THEN timers \ {s} ELSE timers \cup {s}
    /\ todo' = todo \ {s}
    /\ UNCHANGED <<status, live, proc, crashes, pausedSet, expired>>

BootDone ==
    /\ proc = "bootLoop"
    /\ todo = {}
    /\ proc' = "up"
    /\ UNCHANGED <<status, live, crashes, memory, expired, todo>>

BootStep ==
    \/ Restart \/ RecoverRunning \/ RecoverQueued \/ ListPaused \/ BootDone
    \/ \E s \in Sessions : RecoverPaused(s)

Next ==
    \/ \E s \in Sessions : Manages(s) \/ Expires(s) \/ WatchdogFires(s)
    \/ Crash \/ CliRecover \/ BootStep

Spec == Init /\ [][Next]_vars

\* The operator restarts a crashed process, its start-up proceeds, time passes
\* and due watchdogs run.
Fairness ==
    /\ WF_vars(BootStep)
    /\ \A s \in Sessions : WF_vars(Expires(s)) /\ WF_vars(WatchdogFires(s))

FairSpec == Spec /\ Fairness

----------------------------------------------------------------------------
(* Properties *)

\* When the process serves requests, every queued or running row belongs to it:
\* whatever step of submit(), _run or an earlier start-up the crash hit, no row
\* of a dead process is left looking active.
ActiveRowsAreOurs ==
    proc = "up" =>
        \A s \in Sessions : status[s] \in {"queued", "running"} => live[s] # "no"

\* A row that was active when its process died ends up interrupted, even if the
\* next start-ups crash as well.
OrphansAreInterrupted ==
    \A s \in Sessions :
        status[s] \in {"queued", "running"} /\ live[s] = "no" ~> status[s] = "interrupted"

----------------------------------------------------------------------------
(* The inductive invariant behind ActiveRowsAreOurs *)

OurRows(st) == \A s \in Sessions : status[s] = st => live[s] # "no"

\* Until the start-up is through there is no task, and it leaves one active
\* status after the other behind.
BootInv ==
    /\ proc # "up" => \A s \in Sessions : live[s] = "no"
    /\ proc \notin {"down", "bootRunning"} => OurRows("running")
    /\ proc \notin {"down", "bootRunning", "bootQueued"} => OurRows("queued")

----------------------------------------------------------------------------
(* A statement of the documentation that the code does not keep *)

\* recovery.py: a paused row of a dead process is cancelled, at start-up or by
\* the re-armed watchdog, "so the row settles deterministically".
OrphanedPauseSettles ==
    \A s \in Sessions :
        status[s] = "paused" /\ live[s] = "no" ~> status[s] # "paused"
=============================================================================
