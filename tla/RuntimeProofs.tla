--------------------------- MODULE RuntimeProofs ----------------------------
(***************************************************************************)
(* Theorems about a container's link to the host, the executors, the       *)
(* lifespan of the process and the rows a dead process leaves, for every   *)
(* number of sessions, connections and crashes, every limit and every      *)
(* configuration.                                                          *)
(***************************************************************************)
EXTENDS WireLink, Executors, Lifespan, Recovery, TLAPS

(***************************************************************************)
(* The link.  Two facts make LinkInv inductive: where the executor's       *)
(* connection is decides who has been accepted, and misses are counted     *)
(* against pings that are still to be answered.                            *)
(***************************************************************************)

\* What the listener knows of the executor's connection.
HandshakeInv ==
    /\ accepted \in Seq(Conns)
    /\ \A c \in Conns : conn[c] \in {"token", "acked"} => c = Host
    /\ IF conn[Host] = "acked" THEN \/ taken = Host /\ accepted = << >>
                                    \/ taken = NoConn /\ accepted = <<Host>>
                               ELSE taken = NoConn /\ accepted = << >>
    /\ hostLink = "up" => conn[Host] = "acked"

\* While the runner answers, every miss is a ping or a pong on its way.
HeartbeatInv ==
    /\ pings \in Nat /\ pongs \in Nat
    /\ ~silent => misses <= pings + pongs
    /\ hb = "unhealthy" => silent

LinkIInv == LinkTypeOK /\ HandshakeInv /\ HeartbeatInv

LEMMA HandshakeKeepsIInv == LinkIInv /\ Handshake => LinkIInv'
<1> SUFFICES ASSUME LinkIInv, Handshake PROVE LinkIInv'
  OBVIOUS
<1> USE DEF LinkIInv, LinkTypeOK, HandshakeInv, HeartbeatInv, beatVars, Conns
<1>1. CASE Listen
  BY <1>1 DEF Listen
<1>2. CASE HostConnected
  BY <1>2 DEF HostConnected
<1>3. CASE HostFails
  BY <1>3 DEF HostFails
<1>4. CASE Accept
  BY <1>4 DEF Accept
<1>5. CASE AcceptTimeout
  <2>1. conn[Host] # "acked"
    BY <1>5, NoConnAssumption DEF AcceptTimeout
  <2>2. /\ conn' \in [Conns -> {"none", "open", "token", "guess", "acked", "refused"}]
        /\ \A c \in Conns : conn'[c] \in {"none", "refused"}
        /\ UNCHANGED <<accepted, taken, hostLink, hb, misses, pings, pongs, silent>>
    BY <1>5 DEF AcceptTimeout
  <2>3. QED
    BY <1>5, <2>1, <2>2 DEF AcceptTimeout
<1>6. ASSUME NEW c \in Conns, OpenConn(c) PROVE LinkIInv'
  BY <1>6 DEF OpenConn
<1>7. ASSUME NEW c \in Conns, SendAuth(c) PROVE LinkIInv'
  BY <1>7 DEF SendAuth
<1>8. ASSUME NEW c \in Conns, CheckAuth(c) PROVE LinkIInv'
  <2>1. CASE conn[c] = "token"
    <3>1. c = Host /\ accepted = << >> /\ taken = NoConn
      BY <2>1
    <3>2. accepted' = <<Host>> /\ conn' = [conn EXCEPT ![Host] = "acked"]
      BY <1>8, <2>1, <3>1 DEF CheckAuth, TokenOk
    <3>3. QED
      BY <1>8, <3>1, <3>2 DEF CheckAuth
  <2>2. CASE conn[c] = "guess"
    BY <1>8, <2>2 DEF CheckAuth, TokenOk
  <2>3. QED
    BY <1>8, <2>1, <2>2 DEF CheckAuth
<1>9. ASSUME NEW c \in Conns, AuthTimeout(c) PROVE LinkIInv'
  BY <1>9 DEF AuthTimeout
<1>10. QED
  BY <1>1, <1>2, <1>3, <1>4, <1>5, <1>6, <1>7, <1>8, <1>9 DEF Handshake

LEMMA HeartbeatKeepsIInv == LinkIInv /\ Heartbeat => LinkIInv'
<1> SUFFICES ASSUME LinkIInv, Heartbeat PROVE LinkIInv'
  OBVIOUS
<1> USE MissLimitAssumption DEF LinkIInv, LinkTypeOK, HandshakeInv, HeartbeatInv, shakeVars
<1>1. CASE StartBridge
  BY <1>1 DEF StartBridge
<1>2. CASE Beat
  BY <1>2 DEF Beat, InTime, TooManyMisses, CountMiss
<1>3. CASE AnswerPing
  BY <1>3 DEF AnswerPing
<1>4. CASE GetPong
  BY <1>4 DEF GetPong
<1>5. CASE GoSilent
  BY <1>5 DEF GoSilent
<1>6. CASE StopBridge
  BY <1>6 DEF StopBridge
<1>7. QED
  BY <1>1, <1>2, <1>3, <1>4, <1>5, <1>6 DEF Heartbeat

\* A runner works for the executor that created it and for nobody else, an
\* executor whose connect returned has the runner's attention, and a bridge
\* gives a runner up only when it no longer answers, whatever the threshold and
\* however pongs bunch (TcpServer._on_accept, WireBridge._heartbeat_loop).
THEOREM LinkIsExclusive == LinkSpec => []LinkInv
<1>1. LinkInit => LinkIInv
  BY MissLimitAssumption DEF LinkInit, LinkIInv, LinkTypeOK, HandshakeInv, HeartbeatInv, Conns
<1>2. LinkIInv /\ [LinkNext]_linkVars => LinkIInv'
  <2>1. LinkIInv /\ UNCHANGED linkVars => LinkIInv'
    BY DEF linkVars, shakeVars, beatVars, LinkIInv, LinkTypeOK, HandshakeInv, HeartbeatInv
  <2>2. QED
    BY <2>1, HandshakeKeepsIInv, HeartbeatKeepsIInv DEF LinkNext
<1>3. LinkIInv => LinkInv
  BY DEF LinkIInv, LinkInv, LinkTypeOK, HandshakeInv, HeartbeatInv, RunnerServesItsHost,
         OnlyTheSilentAreGivenUp
<1>4. QED
  BY <1>1, <1>2, <1>3, PTL DEF LinkSpec

(***************************************************************************)
(* The executors.  What exists of a session is a function of where start   *)
(* and stop are with it, unless a call did not report its outcome.         *)
(***************************************************************************)

\* Which points belong to which executor.
PointsInv ==
    \A s \in Sess :
        /\ xpc[s] \in {"secret", "job", "pod", "connect", "undo"} => KindOfExec[s] = "k8s"
        /\ xpc[s] \in {"container", "accept"} => KindOfExec[s] = "docker"

\* What may exist at each point.
HoldingsInv ==
    \A s \in Sess :
        /\ s \in secrets =>
              xpc[s] \in {"job", "pod", "connect", "undo", "live", "grace", "cancelled"} \/ s \in unsure
        /\ s \in servers =>
              xpc[s] \in {"container", "noclient", "accept", "live", "grace", "cancelled"}
        /\ s \in boxes => \/ xpc[s] \in {"accept", "live", "grace", "cancelled"} /\ runner[s] = "up"
                          \/ xpc[s] \in {"failed", "cancelled"} /\ runner[s] = "none"
                          \/ s \in unsure

\* What a start still under way has already opened.
StartedInv ==
    \A s \in Sess :
        /\ xpc[s] \in {"container", "accept"} => s \in servers
        /\ xpc[s] = "accept" => s \in containers
        /\ xpc[s] \in {"idle", "container"} /\ KindOfExec[s] = "docker" =>
              s \notin boxes /\ runner[s] = "none"

ExecIInv == ExecTypeOK /\ TablesMatchSessions /\ PointsInv /\ HoldingsInv /\ StartedInv

LEMMA ExecKeepsIInv == ExecIInv /\ [ExecNext]_execVars => ExecIInv'
<1> SUFFICES ASSUME ExecIInv, [ExecNext]_execVars PROVE ExecIInv'
  OBVIOUS
<1> USE DEF ExecIInv, ExecTypeOK, TablesMatchSessions, PointsInv, HoldingsInv, StartedInv,
            Over, Goto, Run, tables, objects
<1>1. ASSUME NEW s \in Sess, K8sAdmit(s) PROVE ExecIInv'
  BY <1>1 DEF K8sAdmit
<1>2. ASSUME NEW s \in Sess, CreateSecret(s) PROVE ExecIInv'
  BY <1>2 DEF CreateSecret
<1>3. ASSUME NEW s \in Sess, CreateJob(s) PROVE ExecIInv'
  BY <1>3 DEF CreateJob
<1>4. ASSUME NEW s \in Sess, WaitForPod(s) PROVE ExecIInv'
  BY <1>4 DEF WaitForPod
<1>5. ASSUME NEW s \in Sess, ConnectPod(s) PROVE ExecIInv'
  BY <1>5 DEF ConnectPod
<1>6. ASSUME NEW s \in Sess, UndoSecret(s) PROVE ExecIInv'
  BY <1>6 DEF UndoSecret, DeleteSecret
<1>7. ASSUME NEW s \in Sess, BindSocket(s) PROVE ExecIInv'
  BY <1>7 DEF BindSocket
<1>8. ASSUME NEW s \in Sess, RunContainer(s) PROVE ExecIInv'
  BY <1>8 DEF RunContainer
<1>9. ASSUME NEW s \in Sess, AcceptRunner(s) PROVE ExecIInv'
  BY <1>9 DEF AcceptRunner, Kill
<1>10. ASSUME NEW s \in Sess, CancelExec(s) PROVE ExecIInv'
  BY <1>10 DEF CancelExec, Reaches
<1>11. ASSUME NEW s \in Sess, BeginStop(s) PROVE ExecIInv'
  BY <1>11 DEF BeginStop
<1>12. ASSUME NEW s \in Sess, StopContainer(s) PROVE ExecIInv'
  BY <1>12 DEF StopContainer, Kill
<1>13. ASSUME NEW s \in Sess, StopJob(s) PROVE ExecIInv'
  BY <1>13 DEF StopJob, DeleteSecret
<1>14. ASSUME NEW s \in Sess, RunnerExits(s) PROVE ExecIInv'
  BY <1>14 DEF RunnerExits
<1>15. ASSUME NEW s \in Sess, CollectJob(s) PROVE ExecIInv'
  BY <1>15 DEF CollectJob
<1>16. CASE UNCHANGED execVars
  BY <1>16 DEF execVars
<1>17. QED
  BY <1>1, <1>2, <1>3, <1>4, <1>5, <1>6, <1>7, <1>8, <1>9, <1>10, <1>11, <1>12, <1>13, <1>14,
     <1>15, <1>16 DEF ExecNext

\* Wherever a start fails or a session is stopped, and however many sessions
\* share the executor, a socket is left only by a start that failed before
\* containers.run and a container only when it was created and never started, as
\* long as every call reported its outcome, and the executor's tables hold
\* exactly the sessions that run (DockerExecutor, K8sJobExecutor).
THEOREM NothingIsLeaked == ExecSpec => []ExecInv
<1>1. ExecInit => ExecIInv
  BY DEF ExecInit, ExecIInv, ExecTypeOK, TablesMatchSessions, PointsInv, HoldingsInv, StartedInv
<1>2. ExecIInv => ExecInv
  BY DEF ExecIInv, ExecInv, ExecTypeOK, TablesMatchSessions, HoldingsInv, NothingLeftBehind
<1>3. QED
  BY <1>1, <1>2, ExecKeepsIInv, PTL DEF ExecSpec

(***************************************************************************)
(* The lifespan.  Each part is open from one stage to another; a part it   *)
(* relies on is open at least as long.                                     *)
(***************************************************************************)

Serving == {"serving", "manager"}
AlertsUp == {"sweep", "executors", "stopAlerts"} \cup Serving
ImUp == AlertsUp \cup {"im"}
FeishuUp == ImUp \cup {"feishu"}
TasksUp == FeishuUp \cup {"bgTasks"}
KeysUp == TasksUp \cup {"stopKeys", "subscribers"}
BusUp == KeysUp \cup {"recover", "limiter", "otel", "keys", "closeBus"}
RedisUp == BusUp \cup {"redis"}
EngineUp == RedisUp \cup {"bus", "engine"}

\* The stages at which each part may be open.
StagesOf(p) ==
    CASE p = "engine" -> EngineUp
      [] p = "redis" -> RedisUp
      [] p \in {"localBus", "redisBus"} -> BusUp
      [] p = "limiterRedis" -> {"otel", "keys", "subscribers", "sweep"}
      [] p = "manager" -> {"keys", "subscribers", "sweep"} \cup Serving
      [] p = "keys" -> KeysUp
      [] p \in {"tasks", "otel"} -> TasksUp
      [] p = "feishu" -> FeishuUp
      [] p = "im" -> ImUp
      [] p = "alerts" -> AlertsUp
      [] p = "sweep" -> {"serving"}
      [] OTHER -> Serving \cup {"executors"}

\* While lifespan() is on its way, what is open is what its stage says.
StageInv ==
    /\ stage \in EngineUp \cup {"validate", "stopped"}
    /\ \A p \in open : stage \in StagesOf(p)
    /\ stage \in EngineUp => "engine" \in open
    /\ stage \in BusUp => \/ "localBus" \in open /\ "redisBus" \notin open
                          \/ {"redisBus", "redis"} \subseteq open
    /\ stage \in FeishuUp /\ (HasSendCreds \/ HasWebhookCreds) => "feishu" \in open
    /\ "im" \in open => HasSendCreds
    /\ open \cap Kinds \subseteq cleanups
    /\ "limiterRedis" \in open => limiter = "redis"
    /\ limiter = "redis" => stage \in {"otel", "keys", "subscribers", "sweep"}
    /\ stage # "validate" => SecretsPresent
    /\ stage \in BusUp /\ cfg.strict /\ cfg.bus = "redis" /\ cfg.url => "redisBus" \in open

LifespanIInv ==
    /\ LifespanTypeOK
    /\ stage = "failed" \/ StageInv
    /\ NobodyOutlivesItsSupport

\* At every stage, whatever is open has what it relies on.
LEMMA StagesAreNested ==
    ASSUME LifespanTypeOK, StageInv
    PROVE  NobodyOutlivesItsSupport
<1> SUFFICES ASSUME NEW p \in open PROVE ReliesOn(p) \subseteq open
  BY DEF NobodyOutlivesItsSupport
<1>1. stage \in StagesOf(p) /\ p \in Parts
  BY DEF StageInv, LifespanTypeOK
<1> USE DEF Serving, AlertsUp, ImUp, FeishuUp, TasksUp, KeysUp, BusUp, RedisUp, EngineUp
<1>2. stage \in BusUp => Bus \in open /\ "engine" \in open
  BY DEF StageInv, Bus
<1>3. CASE p \in {"manager", "keys"}
  BY <1>1, <1>2, <1>3 DEF StagesOf, ReliesOn
<1>4. CASE p = "alerts"
  BY <1>1, <1>2, <1>4 DEF StagesOf, ReliesOn, StageInv
<1>5. CASE p = "im"
  BY <1>1, <1>2, <1>5 DEF StagesOf, ReliesOn, StageInv
<1>6. CASE p \in {"otel", "tasks"}
  BY <1>1, <1>2, <1>6 DEF StagesOf, ReliesOn
<1>7. CASE p = "localBus"
  BY <1>1, <1>2, <1>7 DEF StagesOf, ReliesOn
<1>8. CASE p = "redisBus"
  BY <1>1, <1>8 DEF StagesOf, ReliesOn, StageInv
<1>9. CASE p \in {"engine", "redis", "limiterRedis", "feishu", "sweep"} \cup Kinds
  BY <1>9 DEF ReliesOn, Kinds
<1>10. QED
  BY <1>1, <1>3, <1>4, <1>5, <1>6, <1>7, <1>8, <1>9 DEF Parts, Subscribers

\* A start-up that is given up leaves open what was open.
LEMMA AbortKeepsIInv ==
    ASSUME LifespanIInv, NEW s, NEW services \in SUBSET {"redis", "database"}, Abort(s, services)
    PROVE  LifespanIInv'
BY DEF LifespanIInv, LifespanTypeOK, Abort, At, NobodyOutlivesItsSupport, ReliesOn, Bus,
       HasSendCreds, HasWebhookCreds

\* Steps that do not abort.
LEMMA StageKeepsIInv ==
    ASSUME LifespanIInv, LifespanTypeOK', StageInv'
    PROVE  LifespanIInv'
<1>1. NobodyOutlivesItsSupport'
  BY StagesAreNested, PTL
<1>2. QED
  BY <1>1 DEF LifespanIInv

LEMMA StartUpKeepsIInv == LifespanIInv /\ StartUp => LifespanIInv'
<1> SUFFICES ASSUME LifespanIInv, StartUp PROVE LifespanIInv'
  OBVIOUS
<1> USE DEF Serving, AlertsUp, ImUp, FeishuUp, TasksUp, KeysUp, BusUp, RedisUp, EngineUp
<1>1. ASSUME stage # "failed", LifespanTypeOK', StageInv' PROVE LifespanIInv'
  BY <1>1, StageKeepsIInv
<1>2. LifespanTypeOK
  BY DEF LifespanIInv
<1>3. CASE Validate
  <2>1. CASE SecretsPresent /\ At("validate", "bus") /\ Opens({"engine"}) /\ UNCHANGED limiter
    <3>1. StageInv
      BY <2>1 DEF LifespanIInv, At
    <3>2. LifespanTypeOK'
      BY <1>2, <2>1 DEF LifespanTypeOK, Opens, Parts
    <3>3. StageInv'
      BY <2>1, <3>1 DEF StageInv, At, Opens, StagesOf, HasSendCreds, HasWebhookCreds, SecretsPresent, Kinds
    <3>4. QED
      BY <1>1, <2>1, <3>2, <3>3 DEF At
  <2>2. QED
    BY <1>3, <2>1, AbortKeepsIInv DEF Validate
<1>4. ASSUME NEW ping \in Pings, BuildBus(ping) PROVE LifespanIInv'
  <2>1. CASE /\ cfg.bus = "redis"
             /\ At("bus", "recover") /\ Opens({"redis", "redisBus"}) /\ UNCHANGED limiter
    <3>1. StageInv
      BY <2>1 DEF LifespanIInv, At
    <3>2. LifespanTypeOK'
      BY <1>2, <2>1 DEF LifespanTypeOK, Opens, Parts
    <3>3. StageInv'
      BY <2>1, <3>1 DEF StageInv, At, Opens, StagesOf, HasSendCreds, HasWebhookCreds, SecretsPresent, Kinds
    <3>4. QED
      BY <1>1, <2>1, <3>2, <3>3 DEF At
  <2>2. CASE /\ cfg.bus = "redis" => ~ping /\ (cfg.url => FallsBack)
             /\ At("bus", "recover") /\ Opens({"localBus"}) /\ UNCHANGED limiter
    <3>1. StageInv
      BY <2>2 DEF LifespanIInv, At
    <3>2. LifespanTypeOK'
      BY <1>2, <2>2 DEF LifespanTypeOK, Opens, Parts
    <3>3. StageInv'
      <4>1. cfg.bus = "redis" /\ cfg.url => ~cfg.strict
        BY <2>2 DEF FallsBack
      <4>2. "redisBus" \notin open
        BY <2>2, <3>1 DEF StageInv, StagesOf, At
      <4>3. QED
        BY <2>2, <3>1, <4>1, <4>2
        DEF StageInv, At, Opens, StagesOf, HasSendCreds, HasWebhookCreds, SecretsPresent, Kinds
    <3>4. QED
      BY <1>1, <2>2, <3>2, <3>3 DEF At
  <2>3. QED
    BY <1>4, <2>1, <2>2, AbortKeepsIInv DEF BuildBus
<1>5. CASE Recover
  <2>1. CASE At("recover", "limiter") /\ Opens({}) /\ UNCHANGED limiter
    <3>1. StageInv /\ open' = open
      BY <2>1 DEF LifespanIInv, At, Opens
    <3>2. LifespanTypeOK'
      BY <1>2, <2>1 DEF LifespanTypeOK, Opens
    <3>3. StageInv'
      BY <2>1, <3>1 DEF StageInv, At, Opens, StagesOf, HasSendCreds, HasWebhookCreds, SecretsPresent
    <3>4. QED
      BY <1>1, <2>1, <3>2, <3>3 DEF At
  <2>2. QED
    BY <1>5, <2>1, AbortKeepsIInv DEF Recover
<1>6. ASSUME NEW ping \in Pings, BuildLimiter(ping) PROVE LifespanIInv'
  <2>1. StageInv
    BY <1>6 DEF LifespanIInv, At, BuildLimiter
  <2>2. /\ UNCHANGED <<cfg, cleanups, down>> /\ stage = "limiter" /\ stage' = "otel"
        /\ \/ open' = open /\ limiter' \in {limiter, "redis"}
           \/ open' = open \cup {"limiterRedis"} /\ limiter' = "redis"
    BY <1>6 DEF BuildLimiter, At, Opens
  <2>3. LifespanTypeOK'
    BY <1>2, <2>2 DEF LifespanTypeOK, Parts
  <2>4. StageInv'
    BY <2>1, <2>2 DEF StageInv, StagesOf, HasSendCreds, HasWebhookCreds, SecretsPresent, Kinds
  <2>5. QED
    BY <1>1, <2>2, <2>3, <2>4
<1>7. CASE BuildManager
  <2>1. CASE At("otel", "keys") /\ Opens({"manager"}) /\ UNCHANGED limiter
    <3>1. StageInv
      BY <2>1 DEF LifespanIInv, At
    <3>2. LifespanTypeOK'
      BY <1>2, <2>1 DEF LifespanTypeOK, Opens, Parts
    <3>3. StageInv'
      BY <2>1, <3>1 DEF StageInv, At, Opens, StagesOf, HasSendCreds, HasWebhookCreds, SecretsPresent, Kinds
    <3>4. QED
      BY <1>1, <2>1, <3>2, <3>3 DEF At
  <2>2. QED
    BY <1>7, <2>1, AbortKeepsIInv DEF BuildManager
<1>8. CASE StartKeys
  <2>1. StageInv
    BY <1>8 DEF LifespanIInv, At, StartKeys
  <2>2. LifespanTypeOK'
    BY <1>2, <1>8 DEF LifespanTypeOK, Opens, Parts, Subscribers, StartKeys
  <2>3. StageInv'
    BY <1>8, <2>1 DEF StartKeys, StageInv, At, Opens, StagesOf, HasSendCreds, HasWebhookCreds,
                      SecretsPresent, Kinds
  <2>4. QED
    BY <1>1, <1>8, <2>2, <2>3 DEF At, StartKeys
<1>9. CASE StartSubscribers
  <2>1. StageInv /\ stage = "subscribers" /\ stage' = "sweep"
    BY <1>9 DEF LifespanIInv, At, StartSubscribers
  <2>2. /\ \A p \in open' : p \in open \/ p \in {"tasks", "alerts", "otel", "feishu", "im"}
        /\ open \subseteq open'
        /\ "im" \in open' => "im" \in open \/ HasSendCreds
        /\ HasSendCreds \/ HasWebhookCreds => "feishu" \in open'
        /\ UNCHANGED <<cfg, cleanups, down, limiter>>
    BY <1>9 DEF StartSubscribers, Opens
  <2>3. LifespanTypeOK'
    BY <1>2, <2>2 DEF LifespanTypeOK, Parts, Subscribers
  <2>4. StageInv'
    BY <2>1, <2>2 DEF StageInv, StagesOf, HasSendCreds, HasWebhookCreds, SecretsPresent, Kinds
  <2>5. QED
    BY <1>1, <2>1, <2>3, <2>4
<1>10. CASE StartSweep
  <2>1. CASE /\ limiter # "redis"
             /\ At("sweep", "serving") /\ UNCHANGED limiter /\ (Opens({"sweep"}) \/ Opens({}))
    <3>1. StageInv
      BY <2>1 DEF LifespanIInv, At
    <3>2. open' \in {open, open \cup {"sweep"}} /\ UNCHANGED <<cfg, cleanups, down>>
      BY <2>1 DEF Opens
    <3>3. LifespanTypeOK'
      BY <1>2, <2>1, <3>2 DEF LifespanTypeOK, Parts
    <3>4. "limiterRedis" \notin open
      BY <2>1, <3>1 DEF StageInv
    <3>5. StageInv'
      BY <2>1, <3>1, <3>2, <3>4 DEF StageInv, At, StagesOf, HasSendCreds, HasWebhookCreds,
                                    SecretsPresent, Kinds
    <3>6. QED
      BY <1>1, <2>1, <3>3, <3>5 DEF At
  <2>2. QED
    BY <1>10, <2>1, AbortKeepsIInv DEF StartSweep
<1>11. QED
  BY <1>3, <1>4, <1>5, <1>6, <1>7, <1>8, <1>9, <1>10 DEF StartUp

LEMMA FinallyKeepsIInv == LifespanIInv /\ Finally => LifespanIInv'
<1> SUFFICES ASSUME LifespanIInv, Finally PROVE LifespanIInv'
  OBVIOUS
<1> USE DEF Serving, AlertsUp, ImUp, FeishuUp, TasksUp, KeysUp, BusUp, RedisUp, EngineUp
<1>1. \E s, t, ps : Closes(s, t, ps) /\ s # "failed"
  BY DEF Finally, StopSweep, StopManager, CloseExecutors, StopAlerts, StopIm, CloseFeishu,
         StopTasks, StopKeys, CloseBus, CloseRedis, Dispose
<1>2. /\ StageInv /\ LifespanTypeOK /\ stage # "failed"
      /\ open' \subseteq open /\ UNCHANGED <<cfg, limiter, cleanups, down>>
  BY <1>1 DEF Closes, At, LifespanIInv
<1>3. LifespanTypeOK'
  BY <1>2 DEF LifespanTypeOK
<1> USE DEF Closes, At, StageInv, StagesOf, HasSendCreds, HasWebhookCreds, SecretsPresent
<1>4. CASE StopSweep
  BY <1>2, <1>3, <1>4, StageKeepsIInv DEF StopSweep
<1>5. CASE StopManager
  BY <1>2, <1>3, <1>5, StageKeepsIInv DEF StopManager
<1>6. CASE CloseExecutors
  BY <1>2, <1>3, <1>6, StageKeepsIInv DEF CloseExecutors, Kinds, Parts, Subscribers, LifespanTypeOK
<1>7. CASE StopAlerts
  BY <1>2, <1>3, <1>7, StageKeepsIInv DEF StopAlerts
<1>8. CASE StopIm
  BY <1>2, <1>3, <1>8, StageKeepsIInv DEF StopIm
<1>9. CASE CloseFeishu
  BY <1>2, <1>3, <1>9, StageKeepsIInv DEF CloseFeishu
<1>10. CASE StopTasks
  BY <1>2, <1>3, <1>10, StageKeepsIInv DEF StopTasks
<1>11. CASE StopKeys
  BY <1>2, <1>3, <1>11, StageKeepsIInv DEF StopKeys
<1>12. CASE CloseBus
  BY <1>2, <1>3, <1>12, StageKeepsIInv DEF CloseBus
<1>13. CASE CloseRedis
  BY <1>2, <1>3, <1>13, StageKeepsIInv DEF CloseRedis
<1>14. CASE Dispose
  BY <1>2, <1>3, <1>14, StageKeepsIInv DEF Dispose
<1>15. QED
  BY <1>4, <1>5, <1>6, <1>7, <1>8, <1>9, <1>10, <1>11, <1>12, <1>13, <1>14 DEF Finally

\* No part of a relay process is up while something it relies on is not, a
\* process that stopped has closed everything, a strict one never serves on a
\* private bus, and one that sends cards in production can verify the answers:
\* for every configuration, and whichever service is unreachable when
\* (lifespan(), validate_required_secrets, build_event_bus).
THEOREM LifespanIsNested == LifespanSpec => []LifespanInv
<1> USE DEF Serving, AlertsUp, ImUp, FeishuUp, TasksUp, KeysUp, BusUp, RedisUp, EngineUp
<1>1. LifespanInit => LifespanIInv
  BY DEF LifespanInit, LifespanIInv, LifespanTypeOK, StageInv, NobodyOutlivesItsSupport, Kinds
<1>2. ASSUME LifespanIInv, NEW k \in Kinds, BuildExecutor(k) PROVE LifespanIInv'
  <2>1. StageInv /\ LifespanTypeOK /\ stage \in Serving /\ stage' = stage
    BY <1>2 DEF LifespanIInv, BuildExecutor
  <2>2. LifespanTypeOK'
    BY <1>2, <2>1 DEF BuildExecutor, RegisterCleanup, LifespanTypeOK, Parts
  <2>3. StageInv'
    BY <1>2, <2>1 DEF BuildExecutor, RegisterCleanup, StageInv, StagesOf, HasSendCreds,
                      HasWebhookCreds, SecretsPresent, Kinds
  <2>4. QED
    BY <1>2, <2>1, <2>2, <2>3, StageKeepsIInv
<1>3. LifespanIInv /\ UNCHANGED lifespanVars => LifespanIInv'
  BY DEF lifespanVars, LifespanIInv, LifespanTypeOK, StageInv, NobodyOutlivesItsSupport, ReliesOn, Bus,
         StagesOf, HasSendCreds, HasWebhookCreds, SecretsPresent
<1>4. LifespanIInv /\ [LifespanNext]_lifespanVars => LifespanIInv'
  BY <1>2, <1>3, StartUpKeepsIInv, FinallyKeepsIInv DEF LifespanNext
<1>5. LifespanIInv => LifespanInv
  <2> SUFFICES ASSUME LifespanIInv PROVE LifespanInv
    OBVIOUS
  <2>1. StopLeavesNothingOpen
    <3> SUFFICES ASSUME stage = "stopped", NEW p \in open PROVE FALSE
      BY DEF StopLeavesNothingOpen
    <3>1. p \in Parts /\ "stopped" \in StagesOf(p)
      BY DEF LifespanIInv, StageInv, LifespanTypeOK
    <3>2. QED
      BY <3>1 DEF StagesOf, Parts, Subscribers, Kinds
  <2>2. StrictBusIsShared
    BY DEF StrictBusIsShared, LifespanIInv, StageInv
  <2>3. CardsCanBeAnswered
    BY DEF CardsCanBeAnswered, LifespanIInv, StageInv, SecretsPresent, HasSendCreds, HasWebhookCreds,
           FeishuFields
  <2>4. QED
    BY <2>1, <2>2, <2>3 DEF LifespanInv, LifespanIInv
<1>6. QED
  BY <1>1, <1>4, <1>5, PTL DEF LifespanSpec

(***************************************************************************)
(* Start-up after a crash.                                                 *)
(***************************************************************************)
\* A step of the running manager: it only touches rows whose task it has.
LEMMA ManagesStep ==
    ASSUME TypeOK, BootInv, NEW s \in Sessions, Manages(s)
    PROVE  TypeOK' /\ BootInv'
<1> USE DEF TypeOK, LifecycleTypeOK, BootInv, OurRows, Manages, memory, Terminal, SetStatus, SetLive
<1>1. CASE Pausing(s)
  BY <1>1 DEF Pausing, PauseRow
<1>2. CASE Unpausing(s)
  <2>1. CASE ResumeRow(s)
    BY <1>2, <2>1 DEF Unpausing, ResumeRow
  <2>2. CASE Exit(s)
    BY <1>2, <2>2 DEF Unpausing, Exit
  <2>3. ASSUME NEW result \in Terminal, End(s, result)
        PROVE  TypeOK' /\ BootInv'
    BY <1>2, <2>3 DEF Unpausing, End
  <2>4. QED
    BY <1>2, <2>1, <2>2, <2>3 DEF Unpausing
<1>3. CASE Create(s) /\ UNCHANGED <<memory, expired>>
  BY <1>3 DEF Create
<1>4. CASE (Spawn(s) \/ Start(s)) /\ UNCHANGED <<memory, expired>>
  BY <1>4 DEF Spawn, Start
<1>5. QED
  BY <1>1, <1>2, <1>3, <1>4

LEMMA BootInvStep == TypeOK /\ BootInv /\ [Next]_vars => TypeOK' /\ BootInv'
<1> SUFFICES ASSUME TypeOK, BootInv, [Next]_vars
             PROVE  TypeOK' /\ BootInv'
  OBVIOUS
<1> USE RecoveryAssumption
        DEF TypeOK, LifecycleTypeOK, BootInv, OurRows, Boot, memory, Interrupt
<1>1. ASSUME NEW s \in Sessions, Manages(s) PROVE TypeOK' /\ BootInv'
  BY <1>1, ManagesStep
<1>2. ASSUME NEW s \in Sessions, Expires(s) PROVE TypeOK' /\ BootInv'
  BY <1>2 DEF Expires
<1>3. ASSUME NEW s \in Sessions, WatchdogFires(s) PROVE TypeOK' /\ BootInv'
  BY <1>3 DEF WatchdogFires, End, Exit, SetStatus, SetLive, Terminal
<1>4. CASE Crash
  BY <1>4 DEF Crash
<1>5. CASE Restart
  BY <1>5 DEF Restart
<1>6. CASE RecoverRunning
  BY <1>6 DEF RecoverRunning
<1>7. CASE CliRecover
  BY <1>7 DEF CliRecover
<1>8. CASE RecoverQueued
  BY <1>8 DEF RecoverQueued
<1>9. CASE ListPaused
  BY <1>9 DEF ListPaused
<1>10. ASSUME NEW s \in Sessions, RecoverPaused(s) PROVE TypeOK' /\ BootInv'
  BY <1>10 DEF RecoverPaused
<1>11. CASE BootDone
  BY <1>11 DEF BootDone
<1>12. CASE UNCHANGED vars
  BY <1>12 DEF vars
<1>13. QED
  BY <1>1, <1>2, <1>3, <1>4, <1>5, <1>6, <1>7, <1>8, <1>9, <1>10, <1>11, <1>12
  DEF Next, BootStep

\* Rows, tasks and start-up keep their shapes through every crash, and until
\* start-up is through no task of this process exists and each finished step of it
\* has left one active status behind.
THEOREM RecoveryInvariant == Spec => [](TypeOK /\ BootInv)
<1>1. Init => TypeOK /\ BootInv
  BY RecoveryAssumption
     DEF Init, LifecycleInit, TypeOK, LifecycleTypeOK, BootInv, OurRows
<1>2. QED
  BY <1>1, BootInvStep, PTL DEF Spec

\* However often the process crashes, and wherever, the rows that look queued or
\* running once it serves requests again are those of the current process.
THEOREM NoOrphanLooksActive == Spec => []ActiveRowsAreOurs
<1>1. TypeOK /\ BootInv => ActiveRowsAreOurs
  BY DEF BootInv, OurRows, ActiveRowsAreOurs
<1>2. QED
  BY <1>1, RecoveryInvariant, PTL
=============================================================================
