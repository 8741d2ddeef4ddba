------------------------------ MODULE Lifespan ------------------------------
(* The lifespan of one relay process: the configuration checks, the parts    *)
(* opened in order, serving, and the parts closed in order.  Sessions go on  *)
(* asking the executor factory for executors until the manager has stopped.  *)
EXTENDS FiniteSets

CONSTANT Configs         \* the configurations considered, records as in CfgType

VARIABLES cfg,
          stage,         \* where lifespan() is
          open,          \* the parts that are up
          limiter,       \* app.state.rate_limiter
          cleanups,      \* executor_cleanup_callbacks
          down           \* services found unreachable
lifespanVars == <<cfg, stage, open, limiter, cleanups, down>>

FeishuFields == {"app_id", "app_secret", "webhook_secret"}
CfgType == [production : BOOLEAN, keys : BOOLEAN, sqlite : BOOLEAN,
            feishu : SUBSET FeishuFields,
            mode : {"single_worker", "multi_worker"}, bus : {"inmemory", "redis"},
            limited : BOOLEAN, limit : {"inmemory", "redis"}, url : BOOLEAN, strict : BOOLEAN,
            fernet : {"none", "good", "bad"}, otel : BOOLEAN]
ASSUME ConfigAssumption == Configs \subseteq CfgType

Kinds == {"docker", "k8s_job"}
Subscribers == {"otel", "tasks", "im", "alerts", "keys"}
Parts == {"engine", "localBus", "redisBus", "redis", "limiterRedis", "manager", "feishu", "sweep"}
         \cup Subscribers \cup Kinds

LifespanInit ==
    /\ cfg \in Configs /\ stage = "validate" /\ open = {} /\ cleanups = {} /\ down = {}
    /\ limiter = IF cfg.limited THEN "local" ELSE "none"

At(s, t) == stage = s /\ stage' = t
Opens(ps) == open' = open \cup ps /\ UNCHANGED <<cfg, cleanups, down>>
Bus == IF "redisBus" \in open THEN "redisBus" ELSE "localBus"

-----------------------------------------------------------------------------
(* Start-up.  An exception on the way leaves what is open as it is.          *)

Abort(s, services) == /\ At(s, "failed") /\ down' = down \cup services
                      /\ UNCHANGED <<cfg, open, limiter, cleanups>>

\* validate_required_secrets.
SecretsPresent ==
    ~cfg.production \/ (cfg.keys /\ ~cfg.sqlite /\ cfg.feishu \in {{}, FeishuFields})

\* validate_deployment_mode.
DeploymentSafe ==
    cfg.mode = "multi_worker" => cfg.bus = "redis" /\ cfg.limit = "redis" /\ cfg.url

Validate ==
    \/ SecretsPresent /\ DeploymentSafe /\ At("validate", "bus") /\ Opens({"engine"}) /\ UNCHANGED limiter
    \/ ~(SecretsPresent /\ DeploymentSafe) /\ Abort("validate", {})

\* A failed ping is answered with the local implementation.
FallsBack == ~cfg.strict

\* _build_redis_client with a URL: whether the ping succeeds.
Pings == {p \in BOOLEAN : p => cfg.url}

\* build_event_bus.
BuildBus(ping) ==
    \/ /\ cfg.bus = "redis" /\ ping
       /\ At("bus", "recover") /\ Opens({"redis", "redisBus"}) /\ UNCHANGED limiter
    \/ /\ cfg.bus = "redis" => ~ping /\ (cfg.url => FallsBack)
       /\ At("bus", "recover") /\ Opens({"localBus"}) /\ UNCHANGED limiter
    \/ cfg.bus = "redis" /\ cfg.url /\ ~ping /\ ~FallsBack /\ Abort("bus", {"redis"})

\* recover_on_startup_with_events and recover_queued_rows; the database may be down.
Recover == \/ At("recover", "limiter") /\ Opens({}) /\ UNCHANGED limiter
           \/ Abort("recover", {"database"})

\* build_rate_limit_store: the bus's client, or one of its own; a failure is logged.
BuildLimiter(ping) ==
    /\ At("limiter", "otel")
    /\ \/ /\ cfg.limited /\ cfg.limit = "redis" /\ ("redis" \in open \/ ping)
          /\ limiter' = "redis"
          /\ Opens(IF "redis" \in open THEN {} ELSE {"limiterRedis"})
       \/ /\ cfg.limited /\ cfg.limit = "redis" => "redis" \notin open /\ ~ping
          /\ Opens({}) /\ UNCHANGED limiter

\* The exporter and the Fernet key.
BuildManager ==
    \/ cfg.fernet # "bad" /\ At("otel", "keys") /\ Opens({"manager"}) /\ UNCHANGED limiter
    \/ cfg.fernet = "bad" /\ Abort("otel", {})

\* Keys and paused timers (errors are logged), then the subscribers.
StartKeys == At("keys", "subscribers") /\ Opens({"keys"}) /\ UNCHANGED limiter

HasSendCreds == {"app_id", "app_secret"} \subseteq cfg.feishu
HasWebhookCreds == "webhook_secret" \in cfg.feishu

StartSubscribers ==
    /\ At("subscribers", "sweep")
    /\ Opens({"tasks", "alerts"}
             \cup {p \in {"otel"} : cfg.otel}
             \cup {p \in {"feishu"} : HasSendCreds \/ HasWebhookCreds}
             \cup {p \in {"im"} : HasSendCreds})
    /\ UNCHANGED limiter

\* start_sweep: the Redis limiter has no such method.
StartSweep ==
    \/ limiter = "local" /\ At("sweep", "serving") /\ Opens({"sweep"}) /\ UNCHANGED limiter
    \/ limiter = "none" /\ At("sweep", "serving") /\ Opens({}) /\ UNCHANGED limiter
    \/ limiter = "redis" /\ Abort("sweep", {})

StartUp == \/ Validate \/ Recover \/ BuildManager \/ StartKeys \/ StartSubscribers \/ StartSweep
           \/ \E p \in Pings : BuildBus(p) \/ BuildLimiter(p)

-----------------------------------------------------------------------------
(* Serving, and the finally block.                                           *)

\* _register_cleanup_once.
RegisterCleanup(k) == cleanups \cup {k}

\* The factory builds an executor for a session that reaches its start.
BuildExecutor(k) ==
    /\ stage \in {"serving", "manager"} /\ k \notin open
    /\ open' = open \cup {k} /\ cleanups' = RegisterCleanup(k)
    /\ UNCHANGED <<cfg, stage, limiter, down>>

Closes(s, t, ps) == At(s, t) /\ open' = open \ ps /\ UNCHANGED <<cfg, limiter, cleanups, down>>

StopSweep == Closes("serving", "manager", {"sweep"})

\* manager.shutdown returns when the last session task has ended.
StopManager == Closes("manager", "executors", {"manager"})
CloseExecutors == Closes("executors", "stopAlerts", cleanups)
StopAlerts == Closes("stopAlerts", "im", {"alerts"})

\* Mutant: the HTTP client is closed before the dispatcher that uses it.
BackendFirst == Closes("im", "feishu", {"feishu"})

StopIm == Closes("im", "feishu", {"im"})
CloseFeishu == Closes("feishu", "bgTasks", {"feishu"})
StopTasks == Closes("bgTasks", "stopKeys", {"tasks", "otel"})
StopKeys == Closes("stopKeys", "closeBus", {"keys"})
CloseBus == Closes("closeBus", "redis", {"localBus", "redisBus"})
CloseRedis == Closes("redis", "engine", {"redis"})
Dispose == Closes("engine", "stopped", {"engine"})

Finally == \/ StopSweep \/ StopManager \/ CloseExecutors \/ StopAlerts \/ StopIm \/ CloseFeishu
           \/ StopTasks \/ StopKeys \/ CloseBus \/ CloseRedis \/ Dispose

LifespanNext == StartUp \/ (\E k \in Kinds : BuildExecutor(k)) \/ Finally

LifespanSpec == LifespanInit /\ [][LifespanNext]_lifespanVars

-----------------------------------------------------------------------------
(* Properties.                                                               *)

\* The lifespan's state has its shape.
LifespanTypeOK ==
    /\ cfg \in Configs /\ open \subseteq Parts /\ cleanups \subseteq Kinds
    /\ limiter \in {"none", "local", "redis"} /\ down \subseteq {"redis", "database"}

\* What a part relies on.
ReliesOn(p) ==
    CASE p \in {"manager", "keys"} -> {"engine", Bus}
      [] p \in {"alerts"} -> {"engine", Bus} \cup {q \in {"feishu"} : HasSendCreds \/ HasWebhookCreds}
      [] p = "im" -> {Bus, "feishu"}
      [] p \in {"otel", "tasks"} -> {Bus}
      [] p = "localBus" -> {"engine"}
      [] p = "redisBus" -> {"redis"}
      [] OTHER -> {}

\* No part of lifespan() is up while something it relies on is not yet or no
\* longer there: subscribers go before the bus, the bus before its Redis
\* client and its tables, cards before the backend that sends them.
NobodyOutlivesItsSupport == \A p \in open : ReliesOn(p) \subseteq open

\* A relay that has served and stopped has closed everything it opened, the
\* executors too that a session asked for during the grace period.
StopLeavesNothingOpen == stage = "stopped" => open = {}

\* A strict relay that was given a Redis serves with the shared bus only: two
\* workers never run with private buses that do not see each other's events.
StrictBusIsShared ==
    stage = "serving" /\ cfg.strict /\ cfg.bus = "redis" /\ cfg.url => "redisBus" \in open

\* In production a relay that sends approval cards can verify the answers.
CardsCanBeAnswered ==
    cfg.production /\ stage = "serving" /\ "im" \in open => HasWebhookCreds

\* Whatever the configuration and whatever is unreachable, a process that serves
\* has what it needs, and one that stopped has closed it in a sound order.
LifespanInv == /\ LifespanTypeOK /\ NobodyOutlivesItsSupport /\ StopLeavesNothingOpen
               /\ StrictBusIsShared /\ CardsCanBeAnswered

\* What the documentation names as reasons not to start: missing secrets, unsafe
\* backends, a strict relay without its Redis, a malformed key, a dead database.
\* The code also fails when everything the documentation asks for is there.
ValidConfigBoots ==
    stage = "failed" => ~SecretsPresent \/ ~DeploymentSafe \/ cfg.fernet = "bad" \/ down # {}

=============================================================================
