------------------------------ MODULE MCEvents ------------------------------
(***************************************************************************)
(* The event side of the relay for TLC: the in-process bus with its SSE    *)
(* streams, the Redis bus, the observing subscribers and the alerts.  The  *)
(* four share no state; `part' says which of them a behaviour is about.    *)
(***************************************************************************)
EXTENDS EventBus, RedisBus, Observers, Alerts

CONSTANTS Parts, s1, r1, a1, a2

VARIABLE part

MCToolOwner == r1 :> s1
MCAskOf == [q \in {a1, a2} |-> [sid |-> s1, to |-> IF q = a2 THEN "running" ELSE "paused"]]

Change(to, reason) == [to |-> to, reason |-> reason, owner |-> "alice", notify |-> TRUE]
MCChanges == {Change("failed", "error"), Change("failed", "timeout"),
              Change("cancelled", "user_request")}

Init == part \in Parts /\ BusInit /\ RedisInit /\ ObsInit /\ AlertInit

Next ==
    /\ UNCHANGED part
    /\ \/ part = "bus" /\ BusNext /\ UNCHANGED <<redisVars, obsVars, alertVars>>
       \/ part = "redis" /\ RedisNext /\ UNCHANGED <<busVars, obsVars, alertVars>>
       \/ part = "observers" /\ ObsNext /\ UNCHANGED <<busVars, redisVars, alertVars>>
       \/ part = "alerts" /\ AlertNext /\ UNCHANGED <<busVars, redisVars, obsVars>>

vars == <<part, busVars, redisVars, obsVars, alertVars>>

Spec == Init /\ [][Next]_vars /\ BusFairness /\ AlertFairness

=============================================================================
