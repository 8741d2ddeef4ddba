----------------------------- MODULE Executors ------------------------------
(* DockerExecutor and K8sJobExecutor: what starting and stopping a session's *)
(* runner creates on the host and in the cluster, and what is left when one  *)
(* of the steps fails or the session is cancelled half-way.                  *)
EXTENDS Naturals, FiniteSets

CONSTANTS Sess,          \* sessions
          KindOfExec,    \* [Sess -> {"docker", "k8s"}]
          MaxJobs,       \* k8s_max_concurrent_jobs
          MayCancel      \* sessions that may be cancelled while they start

VARIABLES xpc,           \* where _run is with each session's executor
          inflight,      \* K8sJobExecutor._inflight
          servers,       \* DockerExecutor._servers, the bound sockets
          containers,    \* DockerExecutor._containers
          secrets, jobs, \* objects in the cluster
          boxes,         \* containers of the docker daemon
          runner,        \* the process in the pod or container
          unsure         \* sessions with a call whose outcome was not reported
tables == <<inflight, servers, containers>>
objects == <<secrets, jobs, boxes>>
execVars == <<xpc, tables, objects, runner, unsure>>

ASSUME ExecAssumption == MaxJobs \in Nat /\ MayCancel \subseteq Sess

ExecInit ==
    /\ xpc = [s \in Sess |-> "idle"]
    /\ inflight = {} /\ servers = {} /\ containers = {}
    /\ secrets = {} /\ jobs = {} /\ boxes = {}
    /\ runner = [s \in Sess |-> "none"]
    /\ unsure = {}

Goto(s, l) == xpc' = [xpc EXCEPT ![s] = l]
Run(s, st) == runner' = [runner EXCEPT ![s] = st]

\* Over: start() raised, or stop() returned.  "noclient": start() raised between
\* binding the socket and the try around containers.run.
Over == {"failed", "noclient", "cancelled", "stopped"}

-----------------------------------------------------------------------------
(* K8sJobExecutor.start.                                                     *)

\* The admission test, before anything is created.
K8sAdmit(s) ==
    /\ KindOfExec[s] = "k8s" /\ xpc[s] = "idle"
    /\ Goto(s, IF Cardinality(inflight) >= MaxJobs THEN "failed" ELSE "secret")
    /\ UNCHANGED <<tables, objects, runner, unsure>>

\* create_secret; a call that reports an error may have reached the server.
CreateSecret(s) ==
    /\ xpc[s] = "secret"
    /\ \/ Goto(s, "job") /\ secrets' = secrets \cup {s} /\ UNCHANGED unsure
       \/ Goto(s, "failed") /\ UNCHANGED <<secrets, unsure>>
       \/ Goto(s, "failed") /\ secrets' = secrets \cup {s} /\ unsure' = unsure \cup {s}
    /\ UNCHANGED <<tables, jobs, boxes, runner>>

\* create_job, owned by the Secret; the pod starts with it.
CreateJob(s) ==
    /\ xpc[s] = "job"
    /\ \/ Goto(s, "pod") /\ jobs' = jobs \cup {s} /\ Run(s, "up")
       \/ Goto(s, "undo") /\ UNCHANGED <<jobs, runner>>
       \/ Goto(s, "undo") /\ jobs' = jobs \cup {s} /\ Run(s, "up")
    /\ UNCHANGED <<tables, secrets, boxes, unsure>>

\* wait_for_pod_ip.
WaitForPod(s) ==
    /\ xpc[s] = "pod"
    /\ \E l \in {"connect", "undo"} : Goto(s, l)
    /\ UNCHANGED <<tables, objects, runner, unsure>>

\* TcpTransport.connect, then the entry in _inflight.
ConnectPod(s) ==
    /\ xpc[s] = "connect"
    /\ \/ runner[s] = "up" /\ Goto(s, "live") /\ inflight' = inflight \cup {s}
       \/ Goto(s, "undo") /\ UNCHANGED inflight
    /\ UNCHANGED <<servers, containers, objects, runner, unsure>>

\* delete_secret: errors are logged and dropped.
DeleteSecret(s, l) ==
    /\ Goto(s, l)
    /\ \/ secrets' = secrets \ {s} /\ UNCHANGED unsure
       \/ unsure' = unsure \cup {s} /\ UNCHANGED secrets

\* Mutant: a start that fails leaves its Secret.
KeepSecret(s) == xpc[s] = "undo" /\ Goto(s, "failed") /\ UNCHANGED <<tables, objects, runner, unsure>>

\* The cleanup of a start that failed after the Secret was created.
UndoSecret(s) ==
    /\ xpc[s] = "undo"
    /\ DeleteSecret(s, "failed")
    /\ UNCHANGED <<tables, jobs, boxes, runner>>

-----------------------------------------------------------------------------
(* DockerExecutor.start.                                                     *)

\* UnixSocketServer.listen, then the container's configuration and _client(),
\* which are outside the try: when they raise, the socket stays bound.
BindSocket(s) ==
    /\ KindOfExec[s] = "docker" /\ xpc[s] = "idle"
    /\ \/ servers' = servers \cup {s} /\ \E l \in {"container", "noclient"} : Goto(s, l)
       \/ Goto(s, "failed") /\ UNCHANGED servers
    /\ UNCHANGED <<inflight, containers, objects, runner, unsure>>

\* containers.run creates the container, then starts it.  start() gets a container
\* it can kill only when both have answered: one that was created and not
\* started stays (AutoRemove waits for an exit), and one whose start lost its
\* answer runs.
RunContainer(s) ==
    /\ xpc[s] = "container"
    /\ \/ /\ Goto(s, "accept")
          /\ boxes' = boxes \cup {s} /\ containers' = containers \cup {s} /\ Run(s, "up")
          /\ UNCHANGED <<servers, unsure>>
       \/ /\ Goto(s, "failed") /\ servers' = servers \ {s}
          /\ \/ UNCHANGED <<boxes, runner, unsure>>
             \/ boxes' = boxes \cup {s} /\ UNCHANGED <<runner, unsure>>
             \/ boxes' = boxes \cup {s} /\ Run(s, "up") /\ unsure' = unsure \cup {s}
          /\ UNCHANGED containers
    /\ UNCHANGED <<inflight, secrets, jobs>>

\* container.kill, whose errors are suppressed.  AutoRemove removes the rest.
Kill(s) ==
    \/ boxes' = boxes \ {s} /\ Run(s, "exited") /\ UNCHANGED unsure
    \/ unsure' = unsure \cup {s} /\ UNCHANGED <<boxes, runner>>

\* server.accept: the runner connects, or the container is killed.
AcceptRunner(s) ==
    /\ xpc[s] = "accept"
    /\ \/ runner[s] = "up" /\ Goto(s, "live") /\ UNCHANGED <<servers, containers, boxes, runner, unsure>>
       \/ /\ Goto(s, "failed") /\ Kill(s)
          /\ servers' = servers \ {s} /\ containers' = containers \ {s}
    /\ UNCHANGED <<inflight, secrets, jobs>>

-----------------------------------------------------------------------------
(* The session ends.                                                         *)

\* What the call that is under way creates when nobody waits for its answer.
Reaches(s) ==
    \/ xpc[s] = "secret" /\ secrets' = secrets \cup {s} /\ UNCHANGED <<jobs, boxes, runner>>
    \/ xpc[s] = "job" /\ jobs' = jobs \cup {s} /\ Run(s, "up") /\ UNCHANGED <<secrets, boxes>>
    \/ /\ xpc[s] = "container" /\ boxes' = boxes \cup {s} /\ UNCHANGED <<secrets, jobs>>
       /\ Run(s, "up") \/ UNCHANGED runner

\* A cancellation while start() is awaiting (CancelledError passes every
\* `except Exception`, and _run has no handle to stop), or a second one while
\* stop() is.
CancelExec(s) ==
    /\ s \in MayCancel
    /\ xpc[s] \in {"secret", "job", "pod", "connect", "undo", "container", "accept", "grace"}
    /\ Goto(s, "cancelled")
    /\ Reaches(s) \/ UNCHANGED <<objects, runner>>
    /\ UNCHANGED <<tables, unsure>>

\* Mutant: stop leaves the session in the table that is counted.
StopUncounted(s) ==
    /\ xpc[s] = "live" /\ Goto(s, "grace")
    /\ UNCHANGED <<tables, objects, runner, unsure>>

\* _run's finally: stop() takes the session out of its table first.
BeginStop(s) ==
    /\ xpc[s] = "live"
    /\ Goto(s, "grace")
    /\ inflight' = inflight \ {s} /\ containers' = containers \ {s}
    /\ UNCHANGED <<servers, objects, runner, unsure>>

\* DockerExecutor.stop: the container exits within the grace period or is
\* killed, then the socket goes.
StopContainer(s) ==
    /\ xpc[s] = "grace" /\ KindOfExec[s] = "docker"
    /\ Goto(s, "stopped")
    /\ IF runner[s] = "exited" THEN UNCHANGED <<boxes, runner, unsure>> ELSE Kill(s)
    /\ servers' = servers \ {s}
    /\ UNCHANGED <<inflight, containers, secrets, jobs>>

\* K8sJobExecutor.stop after the grace period.
StopJob(s) ==
    /\ xpc[s] = "grace" /\ KindOfExec[s] = "k8s"
    /\ DeleteSecret(s, "stopped")
    /\ UNCHANGED <<tables, jobs, boxes, runner>>

\* The runner ends by itself: its session is over, nobody connected in time, or
\* it crashed.
RunnerExits(s) ==
    /\ runner[s] = "up"
    /\ Run(s, "exited")
    /\ boxes' = boxes \ {s}
    /\ UNCHANGED <<xpc, tables, secrets, jobs, unsure>>

\* Mutant: the Job does not name the Secret as its owner.
NoOwner(s) == FALSE

\* owner_references of the Job.
OwnerGone(s) == s \notin secrets

\* The cluster's collector: a Job without its owner, or finished for long enough.
CollectJob(s) ==
    /\ s \in jobs
    /\ OwnerGone(s) \/ runner[s] = "exited"
    /\ jobs' = jobs \ {s}
    /\ Run(s, "exited")
    /\ UNCHANGED <<xpc, tables, secrets, boxes, unsure>>

ExecNext ==
    \E s \in Sess :
        \/ K8sAdmit(s) \/ CreateSecret(s) \/ CreateJob(s) \/ WaitForPod(s) \/ ConnectPod(s) \/ UndoSecret(s)
        \/ BindSocket(s) \/ RunContainer(s) \/ AcceptRunner(s)
        \/ CancelExec(s) \/ BeginStop(s) \/ StopContainer(s) \/ StopJob(s)
        \/ RunnerExits(s) \/ CollectJob(s)

\* Calls return, and the cluster collects.  Nothing is assumed about runners: a
\* hung one never exits by itself.
ExecFairness ==
    \A s \in Sess : /\ WF_execVars(UndoSecret(s)) /\ WF_execVars(StopJob(s)) /\ WF_execVars(StopContainer(s))
                    /\ WF_execVars(CollectJob(s))

ExecSpec == ExecInit /\ [][ExecNext]_execVars /\ ExecFairness

-----------------------------------------------------------------------------
(* Properties.                                                               *)

\* Start-up points, sockets, containers, Secrets and Jobs have their shapes.
ExecTypeOK ==
    /\ xpc \in [Sess -> Over \cup {"idle", "secret", "job", "pod", "connect", "undo", "container",
                                   "accept", "live", "grace"}]
    /\ inflight \cup secrets \cup jobs \subseteq {s \in Sess : KindOfExec[s] = "k8s"}
    /\ servers \cup containers \cup boxes \subseteq {s \in Sess : KindOfExec[s] = "docker"}
    /\ runner \in [Sess -> {"none", "up", "exited"}]

\* When a start has raised or a session has been stopped, as long as every call
\* reported its outcome: no entry counts against the limit and no Secret is left;
\* a socket is left only by a start that failed on its way to the daemon, and a
\* container only by one that created it and could not start it.  Both stay until
\* somebody removes them by hand.
NothingLeftBehind ==
    \A s \in Sess : xpc[s] \in {"failed", "noclient", "stopped"} /\ s \notin unsure =>
        /\ s \notin inflight \cup containers \cup secrets
        /\ s \in servers => xpc[s] = "noclient"
        /\ s \in boxes => xpc[s] = "failed" /\ runner[s] = "none"

\* The executor's tables hold the sessions that run and no others: a session
\* that is live can be stopped, and one that is over is not counted.
TablesMatchSessions ==
    \A s \in Sess :
        /\ s \in inflight <=> KindOfExec[s] = "k8s" /\ xpc[s] = "live"
        /\ xpc[s] = "live" /\ KindOfExec[s] = "docker" => s \in servers \cap containers
        /\ s \in containers => xpc[s] \in {"accept", "live", "cancelled"}

\* Whatever fails, what exists and what is counted is what runs.
ExecInv == ExecTypeOK /\ NothingLeftBehind /\ TablesMatchSessions

\* The Job of a session that was stopped or never got to run is collected, even
\* when its runner hangs, once its Secret is gone.
JobsAreCollected ==
    \A s \in Sess : (xpc[s] \in {"failed", "stopped"} /\ s \notin unsure) ~> s \notin jobs

\* Refuted: "Submits beyond this raise K8sJobQueueFull ... instead of silently
\* piling up Jobs".
JobsWithinLimit == Cardinality(inflight) <= MaxJobs

\* Refuted: "Callers MUST always invoke stop (the SessionManager teardown chain
\* handles this) so the per-session Secret + cascaded Job are GC'd".
CancelledStartLeavesNothing ==
    \A s \in Sess : xpc[s] = "cancelled" => s \notin secrets \cup servers \cup boxes

=============================================================================
