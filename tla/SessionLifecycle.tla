-------------------------- MODULE SessionLifecycle --------------------------
(***************************************************************************)
(* What SessionManager promises about the rows of the sessions table: how  *)
(* the status of a row and the existence of its background task move       *)
(* together.  SessionManager implements this specification; Recovery adds  *)
(* crashes and restarts to it.                                             *)
(***************************************************************************)
CONSTANT Sessions

VARIABLES status,  \* the status column of each session's row
          live     \* the background task of each session

lifecycleVars == <<status, live>>

Terminal == {"completed", "failed", "cancelled"}

LifecycleTypeOK ==
    /\ status \in [Sessions -> {"absent", "queued", "running", "paused", "interrupted"}
                                  \cup Terminal]
    /\ live \in [Sessions -> {"no", "pending", "yes", "over"}]

LifecycleInit ==
    /\ status = [s \in Sessions |-> "absent"]
    /\ live = [s \in Sessions |-> "no"]

SetStatus(s, st) == status' = [status EXCEPT ![s] = st] /\ UNCHANGED live
SetLive(s, l) == live' = [live EXCEPT ![s] = l] /\ UNCHANGED status

\* submit() persists the row, and creates the task only after further awaits.
Create(s) ==
    /\ status[s] = "absent"
    /\ status' = [status EXCEPT ![s] = "queued"]
    /\ live' = [live EXCEPT ![s] = "pending"]

Spawn(s) == live[s] = "pending" /\ SetLive(s, "yes")

\* _run's first write: nobody else has touched the row yet.
Start(s) == live[s] = "yes" /\ status[s] = "queued" /\ SetStatus(s, "running")

\* The writes of pause() and resume() only concern sessions that were started,
\* but their second attempt may come after the task is over.
PauseRow(s) ==
    /\ live[s] \in {"yes", "over"}
    /\ status[s] \notin {"absent", "queued", "interrupted"}
    /\ SetStatus(s, "paused")

ResumeRow(s) ==
    /\ live[s] \in {"yes", "over"}
    /\ status[s] \notin {"absent", "queued", "interrupted"}
    /\ SetStatus(s, "running")

\* _run's terminal write: it never replaces one terminal status by another.
End(s, result) ==
    /\ live[s] = "yes"
    /\ status[s] \in {"queued", "running", "paused"}
    /\ SetStatus(s, result)

\* The task is over; a CancelledError in _run's finally block gets it here
\* without the terminal write.
Exit(s) == live[s] = "yes" /\ SetLive(s, "over")

LifecycleStep(s) ==
    \/ Create(s) \/ Spawn(s) \/ Start(s) \/ PauseRow(s) \/ ResumeRow(s) \/ Exit(s)
    \/ \E result \in Terminal : End(s, result)

LifecycleNext == \E s \in Sessions : LifecycleStep(s)

LifecycleSpec == LifecycleInit /\ [][LifecycleNext]_lifecycleVars
=============================================================================
