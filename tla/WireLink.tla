------------------------------ MODULE WireLink ------------------------------
(* The connection between the host and the runner of one session: the TCP    *)
(* listener of a pod and its token handshake, then the bridge's heartbeat.   *)
EXTENDS Naturals, Sequences, FiniteSets

CONSTANTS Host,          \* the connection the executor opens
          Strangers,     \* connections of others
          NoConn,
          MissLimit      \* heartbeat_misses_before_unhealthy

VARIABLES conn,          \* state of each connection, as the listener sees it
          listening,
          accepted,      \* TcpServer._accepted
          taken,         \* the transport the runner works with
          hostLink,      \* TcpTransport.connect as the executor sees it
          hb,            \* the heartbeat task
          misses,        \* _heartbeat_misses
          pings, pongs,  \* on their way
          silent         \* the runner no longer answers
shakeVars == <<conn, listening, accepted, taken, hostLink>>
beatVars == <<hb, misses, pings, pongs, silent>>
linkVars == <<shakeVars, beatVars>>

Conns == {Host} \cup Strangers

ASSUME MissLimitAssumption == MissLimit \in Nat \ {0}
ASSUME NoConnAssumption == NoConn \notin Conns

LinkInit ==
    /\ conn = [c \in Conns |-> "none"]
    /\ listening = FALSE /\ accepted = << >> /\ taken = NoConn /\ hostLink = "connecting"
    /\ hb = "waiting" /\ misses = 0 /\ pings = 0 /\ pongs = 0 /\ silent = FALSE

-----------------------------------------------------------------------------
(* The handshake.                                                            *)

\* TcpServer.listen, when the pod's process is up.
Listen ==
    /\ ~listening /\ taken = NoConn /\ hostLink # "lost"
    /\ listening' = TRUE
    /\ UNCHANGED <<conn, accepted, taken, hostLink, beatVars>>

\* open_connection succeeds; until then connect retries.
OpenConn(c) ==
    /\ listening /\ conn[c] = "none"
    /\ c = Host => hostLink = "connecting"
    /\ conn' = [conn EXCEPT ![c] = "open"]
    /\ UNCHANGED <<listening, accepted, taken, hostLink, beatVars>>

\* The auth line: only the executor has the token of the pod's Secret.
SendAuth(c) ==
    /\ conn[c] = "open"
    /\ conn' = [conn EXCEPT ![c] = IF c = Host THEN "token" ELSE "guess"]
    /\ UNCHANGED <<listening, accepted, taken, hostLink, beatVars>>

\* Mutant: the connection is queued before its token has been compared.
QueueUnchecked(c) == TRUE

\* token_ok.
TokenOk(c) == conn[c] = "token"

\* _on_accept: the answer, and the connection is handed on or closed.
CheckAuth(c) ==
    /\ conn[c] \in {"token", "guess"}
    /\ IF TokenOk(c)
       THEN conn' = [conn EXCEPT ![c] = "acked"] /\ accepted' = Append(accepted, c)
       ELSE conn' = [conn EXCEPT ![c] = "refused"] /\ UNCHANGED accepted
    /\ UNCHANGED <<listening, taken, hostLink, beatVars>>

\* _on_accept: no line within five seconds, or end of file.
AuthTimeout(c) ==
    /\ conn[c] = "open"
    /\ conn' = [conn EXCEPT ![c] = "refused"]
    /\ UNCHANGED <<listening, accepted, taken, hostLink, beatVars>>

\* connect returns with the acknowledgement.
HostConnected ==
    /\ hostLink = "connecting" /\ conn[Host] = "acked"
    /\ hostLink' = "up"
    /\ UNCHANGED <<conn, listening, accepted, taken, beatVars>>

\* connect gives up: the listener never came up, refused, or was too slow.
HostFails ==
    /\ hostLink = "connecting"
    /\ hostLink' = "lost"
    /\ UNCHANGED <<conn, listening, accepted, taken, beatVars>>

\* wire_runner takes the first transport and starts the session on it.
Accept ==
    /\ taken = NoConn /\ accepted # << >>
    /\ taken' = Head(accepted) /\ accepted' = Tail(accepted)
    /\ UNCHANGED <<conn, listening, hostLink, beatVars>>

\* accept(timeout=120): the runner's process exits.
AcceptTimeout ==
    /\ taken = NoConn /\ listening /\ accepted = << >>
    /\ listening' = FALSE
    /\ conn' = [c \in Conns |-> IF conn[c] = "none" THEN "none" ELSE "refused"]
    /\ UNCHANGED <<accepted, taken, hostLink, beatVars>>

Handshake ==
    \/ Listen \/ HostConnected \/ HostFails \/ Accept \/ AcceptTimeout
    \/ \E c \in Conns : OpenConn(c) \/ SendAuth(c) \/ CheckAuth(c) \/ AuthTimeout(c)

-----------------------------------------------------------------------------
(* The heartbeat.                                                            *)

\* WireBridge.run starts the heartbeat once the executor has its transport.
StartBridge ==
    /\ hb = "waiting" /\ hostLink = "up" /\ taken = Host
    /\ hb' = "on"
    /\ UNCHANGED <<shakeVars, misses, pings, pongs, silent>>

\* A runner that answers does so within MissLimit intervals.
InTime == silent \/ pings + pongs < MissLimit

\* The test at the head of _heartbeat_loop.
TooManyMisses == misses >= MissLimit

\* Mutant: the ping is sent and not counted.
Uncounted == misses

\* self._heartbeat_misses += 1.
CountMiss == misses + 1

\* One round of _heartbeat_loop, every interval.  Pings to a runner that does
\* not read them need not be counted.
Beat ==
    /\ hb = "on" /\ InTime
    /\ IF TooManyMisses
       THEN hb' = "unhealthy" /\ UNCHANGED <<pings, misses>>
       ELSE /\ misses' = CountMiss
            /\ pings' = IF silent THEN pings ELSE pings + 1
            /\ UNCHANGED hb
    /\ UNCHANGED <<shakeVars, pongs, silent>>

\* consume_loop answers a ping.
AnswerPing ==
    /\ ~silent /\ pings > 0
    /\ pings' = pings - 1 /\ pongs' = pongs + 1
    /\ UNCHANGED <<shakeVars, hb, misses, silent>>

\* run: any pong clears the counter.
GetPong ==
    /\ pongs > 0 /\ hb = "on"
    /\ pongs' = pongs - 1 /\ misses' = 0
    /\ UNCHANGED <<shakeVars, hb, pings, silent>>

\* The runner hangs, or its consume loop has ended.
GoSilent ==
    /\ hb = "on" /\ ~silent
    /\ silent' = TRUE
    /\ UNCHANGED <<shakeVars, hb, misses, pings, pongs>>

\* session.end, the end of the stream, or shutdown: run's finally.
StopBridge ==
    /\ hb \in {"on", "unhealthy"}
    /\ hb' = "off"
    /\ UNCHANGED <<shakeVars, misses, pings, pongs, silent>>

Heartbeat == StartBridge \/ Beat \/ AnswerPing \/ GetPong \/ GoSilent \/ StopBridge

LinkNext == Handshake \/ Heartbeat

\* The heartbeat task is scheduled, and so is the reader.
LinkFairness == WF_linkVars(Beat) /\ WF_linkVars(GetPong) /\ WF_linkVars(AnswerPing)

LinkSpec == LinkInit /\ [][LinkNext]_linkVars /\ LinkFairness

-----------------------------------------------------------------------------
(* Properties.                                                               *)

\* Both ends of a link and the heartbeat counter have their shapes; misses never pass the threshold.
LinkTypeOK ==
    /\ conn \in [Conns -> {"none", "open", "token", "guess", "acked", "refused"}]
    /\ taken \in Conns \cup {NoConn} /\ hostLink \in {"connecting", "up", "lost"}
    /\ hb \in {"waiting", "on", "unhealthy", "off"}
    /\ misses \in 0..MissLimit /\ pings + pongs <= MissLimit

\* The runner works for the executor that created it and for nobody else, and
\* an executor whose connect returned has the runner's attention, now or as
\* soon as accept is called (TcpServer: "the calling runner never sees an
\* un-authenticated transport").
RunnerServesItsHost ==
    /\ taken \in {NoConn, Host} /\ \A i \in DOMAIN accepted : accepted[i] = Host
    /\ hostLink = "up" => taken = Host \/ accepted = <<Host>>

\* A runner is only given up when it stopped answering: as long as each ping is
\* answered within MissLimit intervals, late and bunched pongs do no harm
\* (WireBridge._heartbeat_loop).
OnlyTheSilentAreGivenUp == hb = "unhealthy" => silent

\* A runner serves its host only, and is given up only when it is silent.
LinkInv == LinkTypeOK /\ RunnerServesItsHost /\ OnlyTheSilentAreGivenUp

\* A runner that hangs is noticed, or its bridge has ended by then.
HungRunnerIsNoticed == silent ~> hb # "on"

=============================================================================
