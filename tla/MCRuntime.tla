----------------------------- MODULE MCRuntime ------------------------------
(* The process and the runners of its sessions, one view of them in each     *)
(* behaviour: what a runner does (three scripts), its link to the host, the  *)
(* executors' bookkeeping, the lifespan of the process, and the rows across  *)
(* crashes and restarts.                                                     *)
EXTENDS Runner, WireLink, Executors, Lifespan, Recovery, TLC

VARIABLE part

MCKindOf == <<"bash", "bash", "read">>
MCKindOfExec == [s \in Sess |-> IF s = "d1" THEN "docker" ELSE "k8s"]

\* What the conversation of each script contains, and whether the runner goes on
\* by itself when the connection breaks or the host has left.
Script == [tools  |-> [uses |-> Uses, misc |-> 0, extra |-> 0, cmds |-> {0}, alone |-> FALSE],
           frames |-> [uses |-> {1}, misc |-> 1, extra |-> MaxAcks, cmds |-> {0}, alone |-> FALSE],
           guards |-> [uses |-> {}, misc |-> MaxMisc, extra |-> 0, cmds |-> 0..MaxCmds, alone |-> TRUE]]
Views == DOMAIN Script \cup {"link", "executors", "lifespan", "recovery"}

\* Configurations that vary in their secrets, and ones that vary in their backends.
MCConfigs ==
    [production : BOOLEAN, keys : BOOLEAN, sqlite : BOOLEAN, feishu : SUBSET FeishuFields,
     mode : {"single_worker"}, bus : {"inmemory"}, limited : {TRUE}, limit : {"inmemory"},
     url : {FALSE}, strict : {FALSE}, fernet : {"good", "bad"}, otel : {TRUE}]
    \cup
    [production : {TRUE}, keys : {TRUE}, sqlite : {FALSE}, feishu : {{}},
     mode : {"single_worker", "multi_worker"}, bus : {"inmemory", "redis"}, limited : BOOLEAN,
     limit : {"inmemory", "redis"}, url : BOOLEAN, strict : BOOLEAN, fernet : {"good"}, otel : {FALSE}]

RuntimeInit ==
    /\ part \in Views
    /\ LifespanInit
    /\ part # "lifespan" => ~cfg.production /\ cfg.keys /\ cfg.sqlite /\ cfg.feishu = {} /\ cfg.fernet = "good"
    /\ RunnerInit
    /\ cmds \in IF part \in DOMAIN Script THEN Script[part].cmds ELSE {0}
    /\ part \notin DOMAIN Script => backend = "wire"
    /\ LinkInit /\ ExecInit /\ Init

RunnerStep ==
    /\ part \in DOMAIN Script /\ RunnerNext
    /\ asked' \cup shown' \subseteq Script[part].uses
    /\ misc' <= Script[part].misc
    /\ \/ Script[part].alone
       \/ host = "drain" /\ (transport' = "up" \/ host' = "ended")
       \/ host = "ended" /\ rpc' \in {"done", "stopped"}
    /\ ackSeq' <= Script[part].extra /\ hookSeq' <= HookBase + Script[part].extra
    /\ UNCHANGED <<linkVars, execVars, lifespanVars, vars>>
LinkStep == part = "link" /\ LinkNext /\ UNCHANGED <<runnerVars, execVars, lifespanVars, vars>>
ExecStep == part = "executors" /\ ExecNext /\ UNCHANGED <<runnerVars, linkVars, lifespanVars, vars>>
LifespanStep == part = "lifespan" /\ LifespanNext /\ UNCHANGED <<runnerVars, linkVars, execVars, vars>>
RecoveryStep == part = "recovery" /\ Next /\ UNCHANGED <<runnerVars, linkVars, execVars, lifespanVars>>

RuntimeNext == /\ UNCHANGED part
               /\ RunnerStep \/ LinkStep \/ ExecStep \/ LifespanStep \/ RecoveryStep

\* The fair actions of one view are disabled in the others.
RuntimeSpec ==
    /\ RuntimeInit /\ [][RuntimeNext]_<<part, runnerVars, linkVars, execVars, lifespanVars, vars>>
    /\ LinkFairness /\ ExecFairness /\ Fairness

=============================================================================
