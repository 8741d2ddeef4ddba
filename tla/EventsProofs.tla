---------------------------- MODULE EventsProofs ----------------------------
(***************************************************************************)
(* Theorems about the events: the readers of the state log, the alerts and *)
(* their cooldown, the pump of the Redis bus and the streams that follow   *)
(* the in-process bus, for every number of events, subscribers, consumers, *)
(* connections and sessions and for every limit.                           *)
(***************************************************************************)
EXTENDS EventBus, RedisBus, Observers, Alerts, DataLemmas

(* Observers: what the two readers of the state log rely on.               *)

LifeStates == {"queued", "running", "ending", "ended"}
Known      == {"queued", "running", "paused"}
StateEntry == [sid : OSessions, from : Known, to : Terminal \cup {"running", "paused"}]

ObsTypeInv ==
    /\ life \in [OSessions -> LifeStates] /\ known \in [OSessions -> Known]
    /\ states \in Seq(StateEntry)
    /\ at \in [ObsTasks -> Nat]
    /\ at["otel_state"] <= Len(states) /\ at["metrics_state"] <= Len(states)

(* The end of a session is told once and only when it ended, and a session *)
(* that runs was said to.                                                  *)
LogInv ==
    /\ \A i \in 1 .. Len(states) :
         states[i].to \in Terminal => life[states[i].sid] = "ended"
    /\ \A i, j \in 1 .. Len(states) :
         /\ states[i].sid = states[j].sid
         /\ states[i].to \in Terminal /\ states[j].to \in Terminal
         => i = j
    /\ \A s \in OSessions : life[s] = "running" => Announced(s)

(* Of the first n transitions, a RUNNING of s follows every end of s.      *)
OpenAt(s, n) == \E j \in 1 .. n : /\ TellsOf(j, s, {"running"})
                                  /\ \A i \in j .. n : ~TellsOf(i, s, Terminal)

ReadInv ==
    /\ runs \subseteq roots /\ roots \subseteq OSessions
    /\ \A s \in roots : OpenAt(s, at["otel_state"])
    /\ \A s \in OSessions : s \in clocks <=> OpenAt(s, at["metrics_state"])

ObsIInv == ObsTypeInv /\ LogInv /\ ReadInv

LEMMA ObsInitInv == ObsInit => ObsIInv
<1> SUFFICES ASSUME ObsInit PROVE ObsIInv
  OBVIOUS
<1>1. ObsTypeInv
  BY DEF ObsInit, ObsTypeInv, LifeStates, Known, ObsTasks
<1>2. LogInv
  BY DEF ObsInit, LogInv
<1>3. at["otel_state"] = 0 /\ at["metrics_state"] = 0
  BY DEF ObsInit, ObsTasks
<1>4. \A s : ~OpenAt(s, 0)
  BY DEF OpenAt
<1>5. ReadInv
  BY <1>3, <1>4 DEF ObsInit, ReadInv
<1>6. QED
  BY <1>1, <1>2, <1>5 DEF ObsIInv

(* A transition is published that keeps to the manager's rules.            *)
LEMMA TellStatesInv ==
    ASSUME ObsIInv, NEW e \in StateEntry, TellStates(e),
           e.to \in Terminal => life'[e.sid] = "ended" /\ life[e.sid] # "ended",
           life' \in [OSessions -> LifeStates], known' \in [OSessions -> Known],
           \A s \in OSessions : life[s] = "ended" => life'[s] = "ended",
           \A s \in OSessions : life'[s] = "running" =>
             life[s] = "running" \/ (e.sid = s /\ e.to = "running"),
           UNCHANGED <<at, roots, runs, clocks>>
    PROVE  ObsIInv'
<1>0. PICK n \in Nat : n = Len(states)
  BY DEF ObsIInv, ObsTypeInv
<1>1. /\ states \in Seq(StateEntry) /\ at \in [ObsTasks -> Nat] /\ n \in Nat
      /\ at["otel_state"] \in 0 .. n /\ at["metrics_state"] \in 0 .. n
  BY <1>0 DEF ObsIInv, ObsTypeInv, ObsTasks
<1>3. /\ states' = Append(states, e) /\ Len(states') = n + 1
      /\ \A i \in 1 .. n : states'[i] = states[i]
      /\ states'[n + 1] = e
  BY <1>0, <1>1 DEF TellStates
<1>4. /\ \A i \in 1 .. n + 1 : i \in 1 .. n \/ i = n + 1
      /\ \A i \in 1 .. n : i \in 1 .. n + 1
      /\ n + 1 \in 1 .. n + 1
  BY <1>1
<1>5. \A i \in 1 .. n : states[i].sid \in OSessions
  <2>1. \A i \in 1 .. n : states[i] \in StateEntry
    BY <1>0, <1>1
  <2>2. \A f \in StateEntry : f.sid \in OSessions
    BY DEF StateEntry
  <2>3. QED
    BY <2>1, <2>2
<1>6. ObsTypeInv'
  <2>1. states' \in Seq(StateEntry)
    BY <1>1, <1>3
  <2>2. QED
    BY <2>1, <1>1, <1>3 DEF ObsTypeInv
<1>7. LogInv'
  <2>1. \A i \in 1 .. n + 1 : states'[i].to \in Terminal => life'[states'[i].sid] = "ended"
    BY <1>0, <1>3, <1>4, <1>5 DEF ObsIInv, LogInv
  <2>2. ASSUME NEW i \in 1 .. n + 1, NEW j \in 1 .. n + 1, states'[i].sid = states'[j].sid,
               states'[i].to \in Terminal, states'[j].to \in Terminal
        PROVE  i = j
    <3>1. \A k \in 1 .. n : states[k].to \in Terminal => states[k].sid # e.sid \/ e.to \notin Terminal
      BY <1>0 DEF ObsIInv, LogInv
    <3>2. CASE i \in 1 .. n /\ j \in 1 .. n
      BY <3>2, <2>2, <1>0, <1>3 DEF ObsIInv, LogInv
    <3>3. QED
      BY <3>1, <3>2, <2>2, <1>3, <1>4
  <2>3. ASSUME NEW s \in OSessions, life'[s] = "running" PROVE Announced(s)'
    <3>1. CASE life[s] = "running"
      BY <3>1, <1>0, <1>3, <1>4 DEF ObsIInv, LogInv, Announced, TellsOf
    <3>2. CASE e.sid = s /\ e.to = "running"
      BY <3>2, <1>3, <1>4 DEF Announced, TellsOf
    <3>3. QED
      BY <3>1, <3>2, <2>3
  <2>4. QED
    BY <2>1, <2>2, <2>3, <1>3 DEF LogInv
<1>8. ASSUME NEW s, NEW k \in 0 .. n PROVE OpenAt(s, k)' <=> OpenAt(s, k)
  <2>1. \A i \in 1 .. k : i \in 1 .. n /\ \A m \in i .. k : m \in 1 .. n
    BY <1>1
  <2>2. QED
    BY <2>1, <1>3 DEF OpenAt, TellsOf
<1>9. ReadInv'
  <2>1. \A s : /\ OpenAt(s, at["otel_state"])' <=> OpenAt(s, at["otel_state"])
               /\ OpenAt(s, at["metrics_state"])' <=> OpenAt(s, at["metrics_state"])
    <3>1. PICK a \in 0 .. n, b \in 0 .. n : a = at["otel_state"] /\ b = at["metrics_state"]
      BY <1>1
    <3>2. a = at'["otel_state"] /\ b = at'["metrics_state"]
      BY <3>1
    <3>3. \A s : /\ OpenAt(s, at["otel_state"])' <=> OpenAt(s, a)'
                 /\ OpenAt(s, at["metrics_state"])' <=> OpenAt(s, b)'
      BY <3>2 DEF OpenAt
    <3>4. QED
      BY <3>1, <3>3, <1>8
  <2>2. QED
    BY <2>1 DEF ReadInv, ObsIInv
<1>10. QED
  BY <1>6, <1>7, <1>9 DEF ObsIInv

(* The steps that publish no transition and read none.                     *)
LEMMA ObsOtherInv ==
    ASSUME ObsIInv, UNCHANGED <<states, roots, runs, clocks>>,
           life' \in [OSessions -> LifeStates], known' \in [OSessions -> Known],
           \A s \in OSessions : life[s] = "ended" => life'[s] = "ended",
           \A s \in OSessions : life'[s] = "running" => life[s] = "running",
           at' \in [ObsTasks -> Nat],
           at'["otel_state"] = at["otel_state"], at'["metrics_state"] = at["metrics_state"]
    PROVE  ObsIInv'
<1>1. ObsTypeInv'
  BY DEF ObsIInv, ObsTypeInv
<1>2. LogInv'
  <2>0. \A f \in StateEntry : f.sid \in OSessions
    BY DEF StateEntry
  <2>1. \A i \in 1 .. Len(states) : states[i].sid \in OSessions
    BY <2>0 DEF ObsIInv, ObsTypeInv
  <2>2. \A s : Announced(s)' <=> Announced(s)
    BY DEF Announced, TellsOf
  <2>3. \A i \in 1 .. Len(states) : states[i].to \in Terminal => life'[states[i].sid] = "ended"
    BY <2>1 DEF ObsIInv, LogInv
  <2>4. \A s \in OSessions : life'[s] = "running" => Announced(s)'
    BY <2>2 DEF ObsIInv, LogInv
  <2>5. QED
    BY <2>3, <2>4 DEF ObsIInv, LogInv
<1>3. ReadInv'
  <2>1. \A s : /\ OpenAt(s, at["otel_state"])' <=> OpenAt(s, at["otel_state"])
               /\ OpenAt(s, at["metrics_state"])' <=> OpenAt(s, at["metrics_state"])
    BY DEF OpenAt, TellsOf
  <2>2. ReadInv
    BY DEF ObsIInv
  <2>3. QED
    BY <2>1, <2>2 DEF ReadInv
<1>4. QED
  BY <1>1, <1>2, <1>3 DEF ObsIInv

LEMMA RunInv ==
    ASSUME ObsIInv, NEW s \in OSessions,
           \/ RunStarts(s) \/ RunNeverStarts(s) \/ RunFinishes(s)
           \/ \E to \in Terminal \cup {"nothing"} : RunEnds(s, to)
    PROVE  ObsIInv'
<1>0. /\ life \in [OSessions -> LifeStates] /\ known \in [OSessions -> Known]
      /\ at \in [ObsTasks -> Nat]
  BY DEF ObsIInv, ObsTypeInv
<1>1. UNCHANGED <<at, roots, runs, clocks>>
  BY DEF RunStarts, RunNeverStarts, RunFinishes, RunEnds, spans, gauges
<1> DEFINE started == StateEvent(s, "queued", "running")
<1>2. started \in StateEntry /\ started.sid = s /\ started.to = "running"
  BY DEF StateEvent, StateEntry, Known
<1>3. started.to \notin Terminal
  BY <1>2 DEF Terminal
<1> HIDE DEF started
<1>4. CASE RunStarts(s)
  <2>1. /\ TellStates(started) /\ life[s] = "queued"
        /\ life' = [life EXCEPT ![s] = "running"] /\ known' = [known EXCEPT ![s] = "running"]
    BY <1>4 DEF RunStarts, started
  <2>2. /\ life' \in [OSessions -> LifeStates] /\ known' \in [OSessions -> Known]
        /\ \A r \in OSessions : life[r] = "ended" => life'[r] = "ended"
        /\ \A r \in OSessions : life'[r] = "running" => life[r] = "running" \/ r = s
    BY <2>1, <1>0 DEF LifeStates, Known
  <2>3. QED
    BY <2>1, <2>2, <1>1, <1>2, <1>3, TellStatesInv
<1>5. CASE RunNeverStarts(s)
  <2>1. /\ life[s] = "queued" /\ life' = [life EXCEPT ![s] = "ending"] /\ known' = known
    BY <1>5 DEF RunNeverStarts
  <2>2. /\ life' \in [OSessions -> LifeStates] /\ known' \in [OSessions -> Known]
        /\ \A r \in OSessions : life[r] = "ended" => life'[r] = "ended"
        /\ \A r \in OSessions : life'[r] = "running" => life[r] = "running"
    BY <2>1, <1>0 DEF LifeStates
  <2>3. CASE TellStates(started)
    BY <2>2, <2>3, <1>1, <1>2, <1>3, TellStatesInv
  <2>4. CASE UNCHANGED logs
    BY <2>2, <2>4, <1>0, <1>1, ObsOtherInv DEF logs
  <2>5. QED
    BY <2>3, <2>4, <1>5 DEF RunNeverStarts, started
<1>6. CASE RunFinishes(s)
  <2>1. /\ life' = [life EXCEPT ![s] = "ending"] /\ known' = known /\ life[s] = "running"
        /\ states' = states
    BY <1>6 DEF RunFinishes, logs
  <2>2. /\ life' \in [OSessions -> LifeStates] /\ known' \in [OSessions -> Known]
        /\ \A r \in OSessions : life[r] = "ended" => life'[r] = "ended"
        /\ \A r \in OSessions : life'[r] = "running" => life[r] = "running"
    BY <2>1, <1>0 DEF LifeStates
  <2>3. QED
    BY <2>1, <2>2, <1>0, <1>1, ObsOtherInv
<1>7. ASSUME NEW to \in Terminal \cup {"nothing"}, RunEnds(s, to) PROVE ObsIInv'
  <2>1. /\ life' = [life EXCEPT ![s] = "ended"] /\ known' = known /\ life[s] = "ending"
    BY <1>7 DEF RunEnds
  <2>2. /\ life' \in [OSessions -> LifeStates] /\ known' \in [OSessions -> Known]
        /\ \A r \in OSessions : life[r] = "ended" => life'[r] = "ended"
        /\ \A r \in OSessions : life'[r] = "running" => life[r] = "running"
        /\ life'[s] = "ended"
    BY <2>1, <1>0 DEF LifeStates
  <2>3. CASE to = "nothing"
    <3>1. states' = states
      BY <2>3, <1>7 DEF RunEnds, logs
    <3>2. QED
      BY <3>1, <2>2, <1>0, <1>1, ObsOtherInv
  <2>4. CASE to # "nothing"
    <3> DEFINE e == StateEvent(s, known[s], to)
    <3>1. TellStates(e)
      BY <2>4, <1>7 DEF RunEnds
    <3>2. e \in StateEntry /\ e.sid = s /\ e.to \in Terminal
      BY <2>4, <1>0 DEF StateEvent, StateEntry
    <3>3. e.to # "running"
      BY <3>2 DEF Terminal
    <3> HIDE DEF e
    <3>4. QED
      BY <3>1, <3>2, <3>3, <2>1, <2>2, <1>1, TellStatesInv
  <2>5. QED
    BY <2>3, <2>4
<1>8. QED
  BY <1>4, <1>5, <1>6, <1>7

LEMMA AskInv ==
    ASSUME ObsIInv, NEW q \in OAsks,
           AskSends(q) \/ AskIsAcked(q) \/ AskWrites(q) \/ AskPublishes(q)
    PROVE  ObsIInv'
<1>0. /\ life \in [OSessions -> LifeStates] /\ known \in [OSessions -> Known]
      /\ at \in [ObsTasks -> Nat]
  BY DEF ObsIInv, ObsTypeInv
<1>1. AskOf[q].sid \in OSessions /\ AskOf[q].to \in {"running", "paused"}
  BY ObserverAssumption
<1>2. UNCHANGED <<life, at, roots, runs, clocks>>
  BY DEF AskSends, AskIsAcked, AskWrites, AskPublishes, spans, gauges
<1>3. CASE AskSends(q) \/ AskIsAcked(q)
  <2>1. UNCHANGED <<known, states>>
    BY <1>3 DEF AskSends, AskIsAcked, logs
  <2>2. QED
    BY <2>1, <1>0, <1>2, ObsOtherInv
<1>4. CASE AskWrites(q)
  <2>1. states' = states /\ known' \in [OSessions -> Known]
    BY <1>4, <1>0, <1>1 DEF AskWrites, logs, Known
  <2>2. QED
    BY <2>1, <1>0, <1>2, ObsOtherInv
<1>5. CASE AskPublishes(q)
  <2> DEFINE e == StateEvent(AskOf[q].sid, OtherOf(AskOf[q].to), AskOf[q].to)
  <2>1. TellStates(e) /\ known' = known
    BY <1>5 DEF AskPublishes
  <2>2. e \in StateEntry /\ e.to \in {"running", "paused"}
    BY <1>1 DEF StateEvent, StateEntry, OtherOf, Known
  <2>3. e.to \notin Terminal
    BY <2>2 DEF Terminal
  <2> HIDE DEF e
  <2>4. QED
    BY <2>1, <2>2, <2>3, <1>0, <1>2, TellStatesInv
<1>6. QED
  BY <1>3, <1>4, <1>5

(* One more transition is read: a RUNNING opens, the session's end closes. *)
LEMMA OpenNext ==
    ASSUME NEW s, NEW k \in Nat
    PROVE  OpenAt(s, k + 1) <=>
             IF TellsOf(k + 1, s, Terminal) THEN FALSE
             ELSE OpenAt(s, k) \/ TellsOf(k + 1, s, {"running"})
<1>0. ~(TellsOf(k + 1, s, Terminal) /\ TellsOf(k + 1, s, {"running"}))
  BY DEF TellsOf, Terminal
<1>1. \A j \in 1 .. k + 1 : k + 1 \in j .. k + 1
  OBVIOUS
<1>2. CASE TellsOf(k + 1, s, Terminal)
  BY <1>1, <1>2 DEF OpenAt
<1>3. CASE ~TellsOf(k + 1, s, Terminal)
  <2>1. ASSUME OpenAt(s, k + 1) PROVE OpenAt(s, k) \/ TellsOf(k + 1, s, {"running"})
    <3>1. PICK j \in 1 .. k + 1 : /\ TellsOf(j, s, {"running"})
                                  /\ \A i \in j .. k + 1 : ~TellsOf(i, s, Terminal)
      BY <2>1 DEF OpenAt
    <3>2. CASE j = k + 1
      BY <3>1, <3>2
    <3>3. CASE j # k + 1
      <4>1. j \in 1 .. k /\ \A i \in j .. k : i \in j .. k + 1
        BY <3>3
      <4>2. QED
        BY <4>1, <3>1 DEF OpenAt
    <3>4. QED
      BY <3>2, <3>3
  <2>2. ASSUME TellsOf(k + 1, s, {"running"}) PROVE OpenAt(s, k + 1)
    <3>1. k + 1 \in 1 .. k + 1 /\ \A i \in k + 1 .. k + 1 : i = k + 1
      OBVIOUS
    <3>2. QED
      BY <3>1, <2>2, <1>3 DEF OpenAt
  <2>3. ASSUME OpenAt(s, k) PROVE OpenAt(s, k + 1)
    <3>1. PICK j \in 1 .. k : /\ TellsOf(j, s, {"running"})
                              /\ \A i \in j .. k : ~TellsOf(i, s, Terminal)
      BY <2>3 DEF OpenAt
    <3>2. j \in 1 .. k + 1 /\ \A i \in j .. k + 1 : i \in j .. k \/ i = k + 1
      OBVIOUS
    <3>3. QED
      BY <3>1, <3>2, <1>3 DEF OpenAt
  <2>4. QED
    BY <2>1, <2>2, <2>3, <1>3
<1>4. QED
  BY <1>2, <1>3

LEMMA OtelStateInv == ASSUME ObsIInv, OtelState PROVE ObsIInv'
<1>0. PICK k \in Nat : k = at["otel_state"]
  BY DEF ObsIInv, ObsTypeInv, ObsTasks
<1> DEFINE e == states[k + 1]
<1>1. /\ at \in [ObsTasks -> Nat] /\ states \in Seq(StateEntry) /\ k < Len(states)
      /\ k + 1 \in 1 .. Len(states)
      /\ at' = [at EXCEPT !["otel_state"] = @ + 1]
      /\ states' = states /\ life' = life /\ known' = known /\ clocks' = clocks
  BY <1>0 DEF ObsIInv, ObsTypeInv, OtelState, Reads, logs, manager, gauges
<1>2. e \in StateEntry
  BY <1>1
<1>3. /\ at'["otel_state"] = k + 1 /\ at'["metrics_state"] = at["metrics_state"]
      /\ at' \in [ObsTasks -> Nat]
  BY <1>0, <1>1 DEF ObsTasks
<1>4. ObsTypeInv' /\ LogInv'
  BY <1>1, <1>3 DEF ObsIInv, ObsTypeInv, LogInv, Announced, TellsOf
<1>5. \/ e.to = "running" /\ OpenOrResumeRun(e.sid)
      \/ e.to = "paused" /\ EndRun(e.sid)
      \/ e.to \in Terminal /\ Terminate(e.sid)
  <2>1. e.to \in Terminal \cup {"running", "paused"}
    BY <1>2 DEF StateEntry
  <2>2. (CASE e.to = "running" -> OpenOrResumeRun(e.sid)
           [] e.to = "paused"  -> EndRun(e.sid)
           [] OTHER            -> Terminate(e.sid))
    BY <1>0 DEF OtelState
  <2>3. QED
    BY <2>1, <2>2
<1>6. e.sid \in OSessions
  BY <1>2 DEF StateEntry
<1>7. /\ runs \subseteq roots /\ roots \subseteq OSessions
      /\ \A s \in roots : OpenAt(s, k)
  BY <1>0 DEF ObsIInv, ReadInv
<1>8. \A s : OpenAt(s, k + 1) <=> IF e.sid = s /\ e.to \in Terminal THEN FALSE
                                  ELSE OpenAt(s, k) \/ (e.sid = s /\ e.to = "running")
  BY OpenNext DEF TellsOf
<1> HIDE DEF e
<1>9. /\ runs' \subseteq roots' /\ roots' \subseteq OSessions
      /\ \A s \in roots' : OpenAt(s, k + 1)
  <2>0. "running" \notin Terminal /\ "paused" \notin Terminal
    BY DEF Terminal
  <2>1. CASE e.to = "running" /\ OpenOrResumeRun(e.sid)
    BY <2>0, <2>1, <1>6, <1>7, <1>8 DEF OpenOrResumeRun
  <2>2. CASE e.to = "paused" /\ EndRun(e.sid)
    BY <2>0, <2>2, <1>7, <1>8 DEF EndRun
  <2>3. CASE e.to \in Terminal /\ Terminate(e.sid)
    BY <2>3, <1>7, <1>8 DEF Terminate
  <2>4. QED
    BY <1>5, <2>1, <2>2, <2>3
<1>10. ReadInv'
  <2>1. \A s : OpenAt(s, at["otel_state"])' <=> OpenAt(s, k + 1)
    BY <1>1, <1>3 DEF OpenAt, TellsOf
  <2>2. \A s : OpenAt(s, at["metrics_state"])' <=> OpenAt(s, at["metrics_state"])
    BY <1>1, <1>3 DEF OpenAt, TellsOf
  <2>3. QED
    BY <2>1, <2>2, <1>1, <1>9 DEF ReadInv, ObsIInv
<1>11. QED
  BY <1>4, <1>10 DEF ObsIInv

LEMMA MetricsStateInv == ASSUME ObsIInv, MetricsState PROVE ObsIInv'
<1>0. PICK k \in Nat : k = at["metrics_state"]
  BY DEF ObsIInv, ObsTypeInv, ObsTasks
<1> DEFINE e == states[k + 1]
<1>1. /\ at \in [ObsTasks -> Nat] /\ states \in Seq(StateEntry) /\ k < Len(states)
      /\ k + 1 \in 1 .. Len(states)
      /\ at' = [at EXCEPT !["metrics_state"] = @ + 1]
      /\ states' = states /\ life' = life /\ known' = known
      /\ roots' = roots /\ runs' = runs
  BY <1>0 DEF ObsIInv, ObsTypeInv, MetricsState, Reads, logs, manager, spans
<1>2. e \in StateEntry
  BY <1>1
<1>3. /\ at'["metrics_state"] = k + 1 /\ at'["otel_state"] = at["otel_state"]
      /\ at' \in [ObsTasks -> Nat]
  BY <1>0, <1>1 DEF ObsTasks
<1>4. ObsTypeInv' /\ LogInv'
  BY <1>1, <1>3 DEF ObsIInv, ObsTypeInv, LogInv, Announced, TellsOf
<1>5. \/ e.to = "running" /\ clocks' = clocks \cup {e.sid}
      \/ e.to = "paused" /\ clocks' = clocks
      \/ e.to \in Terminal /\ clocks' = clocks \ {e.sid}
  <2>1. e.to \in Terminal \cup {"running", "paused"} /\ "running" \notin Terminal /\ "paused" \notin Terminal
    BY <1>2 DEF StateEntry, Terminal
  <2>2. clocks' = CASE e.to = "running" -> clocks \cup {e.sid}
                    [] e.to \in Terminal -> clocks \ {e.sid}
                    [] OTHER -> clocks
    BY <1>0 DEF MetricsState
  <2>3. QED
    BY <2>1, <2>2
<1>6. e.sid \in OSessions /\ "running" \notin Terminal /\ "paused" \notin Terminal
  BY <1>2 DEF StateEntry, Terminal
<1>7. \A s \in OSessions : s \in clocks <=> OpenAt(s, k)
  BY <1>0 DEF ObsIInv, ReadInv
<1>8. \A s : OpenAt(s, k + 1) <=> IF e.sid = s /\ e.to \in Terminal THEN FALSE
                                  ELSE OpenAt(s, k) \/ (e.sid = s /\ e.to = "running")
  BY OpenNext DEF TellsOf
<1> HIDE DEF e
<1>10. ASSUME NEW s \in OSessions
       PROVE  s \in clocks' <=> OpenAt(s, k + 1)
  BY <1>5, <1>6, <1>7, <1>8
<1>11. ReadInv'
  <2>1. \A s : OpenAt(s, at["metrics_state"])' <=> OpenAt(s, k + 1)
    BY <1>1, <1>3 DEF OpenAt, TellsOf
  <2>2. \A s : OpenAt(s, at["otel_state"])' <=> OpenAt(s, at["otel_state"])
    BY <1>1, <1>3 DEF OpenAt, TellsOf
  <2>3. QED
    BY <2>1, <2>2, <1>1, <1>10 DEF ReadInv, ObsIInv
<1>12. QED
  BY <1>4, <1>11 DEF ObsIInv

LEMMA OtelStopInv == ASSUME ObsIInv, OtelStop PROVE ObsIInv'
<1>1. /\ roots' = {} /\ runs' = {} /\ clocks' = clocks /\ states' = states
      /\ life' = life /\ known' = known /\ at' = at
  BY DEF OtelStop, logs, manager, gauges
<1>2. QED
  BY <1>1 DEF ObsIInv, ObsTypeInv, LogInv, ReadInv, OpenAt, Announced, TellsOf

LEMMA ObsNextInv == ObsIInv /\ [ObsNext]_obsVars => ObsIInv'
<1> SUFFICES ASSUME ObsIInv, [ObsNext]_obsVars PROVE ObsIInv'
  OBVIOUS
<1>0. /\ at \in [ObsTasks -> Nat]
      /\ life \in [OSessions -> LifeStates] /\ known \in [OSessions -> Known]
  BY DEF ObsIInv, ObsTypeInv
<1>1. ASSUME NEW s \in OSessions,
             \/ RunStarts(s) \/ RunNeverStarts(s) \/ RunFinishes(s)
             \/ \E to \in Terminal \cup {"nothing"} : RunEnds(s, to)
      PROVE  ObsIInv'
  BY <1>1, RunInv
<1>2. ASSUME NEW q \in OAsks, AskSends(q) \/ AskIsAcked(q) \/ AskWrites(q) \/ AskPublishes(q)
      PROVE  ObsIInv'
  BY <1>2, AskInv
<1>3. ASSUME NEW r \in OTools, PublishCall(r) \/ PublishResult(r) PROVE ObsIInv'
  <2>1. UNCHANGED <<life, known, states, roots, runs, clocks, at>>
    BY <1>3 DEF PublishCall, PublishResult, manager, spans, gauges
  <2>2. QED
    BY <2>1, <1>0, ObsOtherInv
<1>4. CASE OtelState
  BY <1>4, OtelStateInv
<1>5. CASE OtelCall \/ OtelResult
  <2>1. UNCHANGED <<life, known, states, roots, runs, clocks>>
    BY <1>5 DEF OtelCall, OtelResult, logs, manager, gauges
  <2>2. \E t \in {"otel_call", "otel_result"} : at' = [at EXCEPT ![t] = @ + 1]
    BY <1>5 DEF OtelCall, OtelResult, Reads
  <2>3. /\ at' \in [ObsTasks -> Nat]
        /\ at'["otel_state"] = at["otel_state"] /\ at'["metrics_state"] = at["metrics_state"]
    BY <2>2, <1>0 DEF ObsTasks
  <2>4. QED
    BY <2>1, <2>3, <1>0, ObsOtherInv
<1>6. CASE OtelStop
  BY <1>6, OtelStopInv
<1>7. CASE MetricsState
  BY <1>7, MetricsStateInv
<1>8. CASE UNCHANGED obsVars
  <2>1. UNCHANGED <<life, known, states, roots, runs, clocks, at>>
    BY <1>8 DEF obsVars, manager, logs, spans, gauges
  <2>2. QED
    BY <2>1, <1>0, ObsOtherInv
<1>9. QED
  BY <1>1, <1>2, <1>3, <1>4, <1>5, <1>6, <1>7, <1>8 DEF ObsNext

(* What the whole log leaves open is what the manager owes an end of.      *)
LEMMA OpenIsOwed ==
    ASSUME ObsIInv, NEW s \in OSessions
    PROVE  OpenAt(s, Len(states)) <=> Announced(s) /\ Owed(s)
<1>0. PICK n \in Nat : n = Len(states)
  BY DEF ObsIInv, ObsTypeInv
<1>1. \A i \in 1 .. n : TellsOf(i, s, Terminal) => life[s] = "ended"
  BY <1>0 DEF ObsIInv, LogInv, TellsOf
<1>2. \A i, j \in 1 .. n : TellsOf(i, s, Terminal) /\ TellsOf(j, s, Terminal) => i = j
  BY <1>0 DEF ObsIInv, LogInv, TellsOf
<1>3. ASSUME OpenAt(s, n) PROVE Announced(s) /\ Owed(s)
  <2>1. PICK j \in 1 .. n : /\ TellsOf(j, s, {"running"})
                            /\ \A i \in j .. n : ~TellsOf(i, s, Terminal)
    BY <1>3 DEF OpenAt
  <2>2. Announced(s)
    BY <2>1, <1>0 DEF Announced
  <2>3. ASSUME Told(s) PROVE Late(s)
    <3>1. PICK i \in 1 .. n : TellsOf(i, s, Terminal)
      BY <2>3, <1>0 DEF Told
    <3>2. i < j
      <4>1. i \notin j .. n
        BY <2>1, <3>1
      <4>2. QED
        BY <4>1
    <3>3. QED
      BY <3>1, <3>2, <2>1, <1>0 DEF Late
  <2>4. QED
    BY <2>2, <2>3 DEF Owed
<1>4. ASSUME Announced(s), Owed(s) PROVE OpenAt(s, n)
  <2>1. CASE ~Told(s)
    <3>1. PICK j \in 1 .. n : TellsOf(j, s, {"running"})
      BY <1>4, <1>0 DEF Announced
    <3>2. \A i \in j .. n : i \in 1 .. n
      OBVIOUS
    <3>3. QED
      BY <2>1, <3>1, <3>2, <1>0 DEF OpenAt, Told
  <2>2. CASE Late(s)
    <3>1. PICK i \in 1 .. n, j \in 1 .. n :
            i < j /\ TellsOf(i, s, Terminal) /\ TellsOf(j, s, {"running"})
      BY <2>2, <1>0 DEF Late
    <3>2. \A m \in j .. n : m \in 1 .. n /\ m # i
      BY <3>1
    <3>3. QED
      BY <3>1, <3>2, <1>2 DEF OpenAt
  <2>3. life[s] # "ended" => ~Told(s)
    BY <1>1, <1>0 DEF Told
  <2>4. QED
    BY <2>1, <2>2, <2>3, <1>4 DEF Owed
<1>5. QED
  BY <1>0, <1>3, <1>4

(* For every set of sessions and tool requests and every pause and resume: *)
(* however the tasks of OtelSubscriber and MetricsSubscriber interleave    *)
(* with the publishers, and however late a pause or a resume publishes, an *)
(* open run span has an open root, and once the state log is read a root   *)
(* is open only for, and the duration clock runs exactly for, the sessions *)
(* said to run whose end the manager still owes: those that did not end,   *)
(* whose end was not told or that were said to run again after it.         *)
THEOREM ObserversInvariant == ObsSpec => []ObserversInv
<1>1. ObsIInv => ObserversInv
  <2> SUFFICES ASSUME ObsIInv PROVE ObserversInv
    OBVIOUS
  <2>1. SpansCloseWithSession
    <3>1. SUFFICES ASSUME CaughtUp("otel_state", states), NEW s \in roots
                   PROVE  Announced(s) /\ Owed(s)
      BY DEF ObsIInv, ReadInv, SpansCloseWithSession
    <3>2. OpenAt(s, Len(states)) /\ s \in OSessions
      BY <3>1 DEF ObsIInv, ReadInv, CaughtUp
    <3>3. QED
      BY <3>2, OpenIsOwed
  <2>2. ClocksFollowSessions
    <3>1. SUFFICES ASSUME CaughtUp("metrics_state", states), NEW s \in OSessions
                   PROVE  /\ life[s] = "running" => s \in clocks
                          /\ s \in clocks <=> Announced(s) /\ Owed(s)
      BY DEF ClocksFollowSessions
    <3>2. s \in clocks <=> OpenAt(s, Len(states))
      BY <3>1 DEF ObsIInv, ReadInv, CaughtUp
    <3>3. life[s] = "running" => Announced(s) /\ Owed(s)
      BY DEF ObsIInv, LogInv, Owed
    <3>4. QED
      BY <3>2, <3>3, OpenIsOwed
  <2>3. QED
    BY <2>1, <2>2 DEF ObserversInv
<1>2. QED
  BY <1>1, ObsInitInv, ObsNextInv, PTL DEF ObsSpec

(***************************************************************************)
(* Alerts: the cooldown with a bounded table.                              *)
(***************************************************************************)

AlertKeys  == {AlertKey(e) : e \in Alert}
TableEntry == [key : AlertKeys, t : Nat]
Attempt    == [ev : Alert, t : Nat, n : Nat]
Working    == [pc : {"meta", "route", "send"}, ev : Alert]

AlertTypes ==
    /\ now \in 0 .. MaxTime /\ box \in Seq(Alert)
    /\ job \in Working \cup {NoJob}
    /\ lastAlert \in Seq(TableEntry) /\ Len(lastAlert) <= LruCap
    /\ \A i, j \in 1 .. Len(lastAlert) : lastAlert[i].key = lastAlert[j].key => i = j
    /\ imBox \in [IMClasses -> Nat] /\ imTask \in [IMClasses -> {"idle", "sending"}]

(* Attempts are numbered in the order of their times.                      *)
AttemptsInv ==
    /\ IsFiniteSet(attempts) /\ attempts \subseteq Attempt
    /\ \A a \in attempts : a.t <= now /\ a.n < Cardinality(attempts)

AttemptedAfter(a) == {AlertKey(d.ev) : d \in {c \in attempts : a.n < c.n}}

(* An attempt is remembered, with its time or a later one, by an entry     *)
(* behind which only later kinds of alert stand, unless LruCap kinds came  *)
(* after it.                                                               *)
Remembered(a, i) ==
    /\ lastAlert[i].key = AlertKey(a.ev) /\ a.t <= lastAlert[i].t
    /\ \A j \in i + 1 .. Len(lastAlert) : lastAlert[j].key \in AttemptedAfter(a)

TableInv ==
    /\ \A i \in 1 .. Len(lastAlert) : \E a \in attempts :
         AlertKey(a.ev) = lastAlert[i].key /\ a.t = lastAlert[i].t
    /\ \A a \in attempts : \/ Cardinality(AttemptedAfter(a)) >= LruCap
                           \/ \E i \in 1 .. Len(lastAlert) : Remembered(a, i)

SuppressedInv ==
    /\ \A s \in suppressed : s.t \in Nat
    /\ SuppressedAfterOwnAlert

AlertIInv == AlertTypes /\ AttemptsInv /\ TableInv /\ CooldownHolds /\ SuppressedInv

LEMMA SameIsKey ==
    ASSUME NEW e, NEW f PROVE Same(e, f) <=> AlertKey(e) = AlertKey(f)
  BY DEF Same, AlertKey

LEMMA AlertInitInv == AlertInit => AlertIInv
<1> SUFFICES ASSUME AlertInit PROVE AlertIInv
  OBVIOUS
<1>1. AlertTypes
  BY AlertAssumption DEF AlertInit, AlertTypes
<1>2. AttemptsInv
  BY FS_EmptySet DEF AlertInit, AttemptsInv
<1>3. TableInv
  BY DEF AlertInit, TableInv
<1>4. QED
  BY <1>1, <1>2, <1>3 DEF AlertIInv, AlertInit, CooldownHolds, SuppressedInv, SuppressedAfterOwnAlert

LEMMA AttemptedAfterFinite ==
    ASSUME AttemptsInv, NEW a PROVE IsFiniteSet(AttemptedAfter(a))
<1>1. IsFiniteSet({c \in attempts : a.n < c.n})
  BY FS_Subset DEF AttemptsInv
<1> DEFINE D == {c \in attempts : a.n < c.n}
           f == [d \in D |-> AlertKey(d.ev)]
<1>2. f \in Surjection(D, AttemptedAfter(a))
  BY DEF Surjection, AttemptedAfter
<1>3. QED
  BY <1>1, <1>2, FS_Surjection

(* What RecordAlert leaves: the other entries in their order, all of them  *)
(* or all but the oldest one of a full table, and the new one at the end.  *)
LEMMA RecordAlertIs ==
    ASSUME AlertTypes, NEW k \in AlertKeys
    PROVE  LET q == RecordAlert(k)
               n == Len(lastAlert)
               m == Len(q)
           IN  /\ q \in Seq(TableEntry) /\ m \in 1 .. LruCap
               /\ q[m] = [key |-> k, t |-> now]
               /\ \/ \E p \in 1 .. n :
                       /\ lastAlert[p].key = k /\ m = n
                       /\ \A j \in 1 .. m - 1 : q[j] = lastAlert[IF j < p THEN j ELSE j + 1]
                  \/ /\ \A i \in 1 .. n : lastAlert[i].key # k
                     /\ n < LruCap /\ m = n + 1
                     /\ \A j \in 1 .. m - 1 : q[j] = lastAlert[j]
                  \/ /\ \A i \in 1 .. n : lastAlert[i].key # k
                     /\ n = LruCap /\ m = n
                     /\ \A j \in 1 .. m - 1 : q[j] = lastAlert[j + 1]
<1> DEFINE n == Len(lastAlert)
           places == {i \in 1 .. n : lastAlert[i].key = k}
           new == [key |-> k, t |-> now]
           q == RecordAlert(k)
<1>1. /\ lastAlert \in Seq(TableEntry) /\ n \in Nat /\ n <= LruCap /\ LruCap \in Nat \ {0}
      /\ new \in TableEntry
  BY AlertAssumption DEF AlertTypes, TableEntry
<1>2. CASE places # {}
  <2> DEFINE p == CHOOSE i \in places : TRUE
             r == RemoveAt(lastAlert, p)
  <2>1. p \in 1 .. n /\ lastAlert[p].key = k
    BY <1>2
  <2>2. q = Append(r, new)
    BY <1>2 DEF RecordAlert
  <2> HIDE DEF p, q
  <2>3. /\ r \in Seq(TableEntry) /\ Len(r) = n - 1
        /\ \A j \in 1 .. n - 1 : r[j] = lastAlert[IF j < p THEN j ELSE j + 1]
    BY <1>1, <2>1, RemoveAtIs
  <2> HIDE DEF r, n, new
  <2>4. q \in Seq(TableEntry) /\ Len(q) = n /\ q[n] = new /\ \A j \in 1 .. n - 1 : q[j] = r[j]
    BY <1>1, <2>2, <2>3
  <2>5. /\ q \in Seq(TableEntry) /\ Len(q) \in 1 .. LruCap /\ q[Len(q)] = new /\ Len(q) = n
        /\ \A j \in 1 .. Len(q) - 1 : q[j] = lastAlert[IF j < p THEN j ELSE j + 1]
    BY <1>1, <2>1, <2>3, <2>4
  <2>6. QED
    BY <2>1, <2>5 DEF n, q, new
<1>3. CASE places = {}
  <2>1. \A i \in 1 .. n : lastAlert[i].key # k
    BY <1>3
  <2>2. CASE n >= LruCap
    <3>1. q = Append(Tail(lastAlert), new)
      BY <1>3, <2>2 DEF RecordAlert
    <3>2. lastAlert # <<>> /\ n = LruCap
      BY <1>1, <2>2
    <3>3. /\ Tail(lastAlert) \in Seq(TableEntry) /\ Len(Tail(lastAlert)) = n - 1
          /\ \A j \in 1 .. n - 1 : Tail(lastAlert)[j] = lastAlert[j + 1]
      BY <1>1, <3>2, HeadTailProperties
    <3> HIDE DEF q, n, new
    <3>4. /\ q \in Seq(TableEntry) /\ Len(q) = n /\ q[n] = new
          /\ \A j \in 1 .. n - 1 : q[j] = Tail(lastAlert)[j]
      BY <1>1, <3>1, <3>3
    <3>5. /\ q \in Seq(TableEntry) /\ Len(q) \in 1 .. LruCap /\ q[Len(q)] = new
          /\ n = LruCap /\ Len(q) = n
          /\ \A j \in 1 .. Len(q) - 1 : q[j] = lastAlert[j + 1]
      BY <1>1, <3>2, <3>3, <3>4
    <3>6. QED
      BY <2>1, <3>5 DEF n, q, new
  <2>3. CASE n < LruCap
    <3>1. q = Append(lastAlert, new)
      BY <1>1, <1>3, <2>3 DEF RecordAlert
    <3> HIDE DEF q, n, new
    <3>2. /\ q \in Seq(TableEntry) /\ Len(q) = n + 1 /\ q[n + 1] = new
          /\ \A j \in 1 .. n : q[j] = lastAlert[j]
      BY <1>1, <3>1 DEF n
    <3>3. /\ q \in Seq(TableEntry) /\ Len(q) \in 1 .. LruCap /\ q[Len(q)] = new
          /\ n < LruCap /\ Len(q) = n + 1
          /\ \A j \in 1 .. Len(q) - 1 : q[j] = lastAlert[j]
      BY <1>1, <2>3, <3>2
    <3>4. QED
      BY <2>1, <3>3 DEF n, q, new
  <2>4. QED
    BY <1>1, <2>2, <2>3
<1>4. QED
  BY <1>2, <1>3

(* An alert is sent: its key was not cooling.                              *)
LEMMA SendInv ==
    ASSUME AlertIInv, NEW e \in Alert, ~Cooling(AlertKey(e)),
           lastAlert' = RecordAlert(AlertKey(e)),
           attempts' = attempts \cup {[ev |-> e, t |-> now, n |-> Cardinality(attempts)]},
           UNCHANGED <<now, suppressed>>
    PROVE  /\ lastAlert' \in Seq(TableEntry) /\ Len(lastAlert') <= LruCap
           /\ \A i, j \in 1 .. Len(lastAlert') : lastAlert'[i].key = lastAlert'[j].key => i = j
           /\ AttemptsInv' /\ TableInv' /\ CooldownHolds' /\ SuppressedInv'
<1>0. PICK b : b = [ev |-> e, t |-> now, n |-> Cardinality(attempts)]
  OBVIOUS
<1>a. PICK k : k = AlertKey(e)
  OBVIOUS
<1>b. PICK q : q = RecordAlert(k)
  OBVIOUS
<1>c. PICK p : p = lastAlert
  OBVIOUS
<1>d. PICK N : N = Cardinality(attempts)
  OBVIOUS
<1>1. /\ IsFiniteSet(attempts) /\ attempts \subseteq Attempt /\ N \in Nat
      /\ \A a \in attempts : a.t <= now /\ a.n < N
      /\ now \in Nat /\ LruCap \in Nat \ {0}
      /\ p \in Seq(TableEntry) /\ Len(p) \in Nat /\ Len(p) <= LruCap
      /\ \A i, j \in 1 .. Len(p) : p[i].key = p[j].key => i = j
      /\ k \in AlertKeys
  BY <1>a, <1>c, <1>d, FS_CardinalityType, AlertAssumption
     DEF AlertIInv, AttemptsInv, AlertTypes, AlertKeys
<1>2. b \in Attempt /\ b.ev = e /\ b.t = now /\ b.n = N /\ b \notin attempts
  <2>1. b.n = N /\ b.ev = e /\ b.t = now
    BY <1>0, <1>d
  <2>2. b \in Attempt
    BY <1>0, <1>1, <1>d DEF Attempt
  <2>3. ~(N < N)
    BY <1>1
  <2>4. QED
    BY <1>1, <2>1, <2>2, <2>3
<1>3. attempts' = attempts \cup {b} /\ lastAlert' = q /\ now' = now /\ suppressed' = suppressed
  BY <1>0, <1>a, <1>b
<1>4. IsFiniteSet(attempts') /\ Cardinality(attempts') = N + 1
  BY <1>1, <1>2, <1>3, <1>d, FS_AddElement
<1>5. /\ q \in Seq(TableEntry) /\ Len(q) \in 1 .. LruCap
      /\ q[Len(q)] = [key |-> k, t |-> now]
      /\ \/ \E x \in 1 .. Len(p) :
              /\ p[x].key = k /\ Len(q) = Len(p)
              /\ \A j \in 1 .. Len(q) - 1 : q[j] = p[IF j < x THEN j ELSE j + 1]
         \/ /\ \A i \in 1 .. Len(p) : p[i].key # k
            /\ Len(p) < LruCap /\ Len(q) = Len(p) + 1
            /\ \A j \in 1 .. Len(q) - 1 : q[j] = p[j]
         \/ /\ \A i \in 1 .. Len(p) : p[i].key # k
            /\ Len(p) = LruCap /\ Len(q) = Len(p)
            /\ \A j \in 1 .. Len(q) - 1 : q[j] = p[j + 1]
  BY <1>1, <1>b, <1>c, RecordAlertIs, SMTT(30) DEF AlertIInv
<1>6. PICK m \in 1 .. LruCap : m = Len(q)
  BY <1>5
<1>7. PICK n \in Nat : n = Len(p)
  BY <1>1
(* where an entry of the new table was in the old one *)
<1>8. \E f \in [1 .. m - 1 -> 1 .. n] :
        /\ \A j \in 1 .. m - 1 : q[j] = p[f[j]] /\ p[f[j]].key # k
        /\ \A i, j \in 1 .. m - 1 : i < j => f[i] < f[j]
        /\ \A x \in 1 .. n : \/ p[x].key = k
                             \/ \E j \in 1 .. m - 1 : f[j] = x
                             \/ /\ x = 1 /\ n = LruCap /\ m = n
                                /\ \A i \in 1 .. n : p[i].key # k
  <2>1. CASE \E x \in 1 .. n : /\ p[x].key = k /\ m = n
                               /\ \A j \in 1 .. m - 1 : q[j] = p[IF j < x THEN j ELSE j + 1]
    <3>1. PICK x \in 1 .. n : /\ p[x].key = k /\ m = n
                              /\ \A j \in 1 .. m - 1 : q[j] = p[IF j < x THEN j ELSE j + 1]
      BY <2>1
    <3> DEFINE f == [j \in 1 .. m - 1 |-> IF j < x THEN j ELSE j + 1]
    <3>2. f \in [1 .. m - 1 -> 1 .. n] /\ \A j \in 1 .. m - 1 : f[j] # x
      BY <3>1
    <3>3. \A j \in 1 .. m - 1 : q[j] = p[f[j]] /\ p[f[j]].key # k
      BY <3>1, <3>2, <1>1, <1>7
    <3>4. \A i, j \in 1 .. m - 1 : i < j => f[i] < f[j]
      OBVIOUS
    <3>5. ASSUME NEW y \in 1 .. n, p[y].key # k PROVE \E j \in 1 .. m - 1 : f[j] = y
      <4>1. y # x
        BY <3>1, <3>5
      <4>2. CASE y < x
        <5>1. y \in 1 .. m - 1 /\ f[y] = y
          BY <3>1, <4>2
        <5>2. QED
          BY <5>1
      <4>3. CASE y > x
        <5>1. y - 1 \in 1 .. m - 1 /\ f[y - 1] = y
          BY <3>1, <4>3
        <5>2. QED
          BY <5>1
      <4>4. QED
        BY <4>1, <4>2, <4>3
    <3> HIDE DEF f
    <3>6. QED
      BY <3>2, <3>3, <3>4, <3>5
  <2>2. CASE /\ \A i \in 1 .. n : p[i].key # k
             /\ m = n + 1
             /\ \A j \in 1 .. m - 1 : q[j] = p[j]
    <3> DEFINE f == [j \in 1 .. m - 1 |-> j]
    <3>1. f \in [1 .. m - 1 -> 1 .. n] /\ m - 1 = n
      BY <2>2
    <3>2. \A j \in 1 .. m - 1 : q[j] = p[f[j]] /\ p[f[j]].key # k
      BY <2>2, <3>1
    <3>3. \A i, j \in 1 .. m - 1 : i < j => f[i] < f[j]
      OBVIOUS
    <3>4. \A x \in 1 .. n : x \in 1 .. m - 1 /\ f[x] = x
      BY <3>1
    <3> HIDE DEF f
    <3>5. QED
      BY <3>1, <3>2, <3>3, <3>4
  <2>3. CASE /\ \A i \in 1 .. n : p[i].key # k
             /\ n = LruCap /\ m = n
             /\ \A j \in 1 .. m - 1 : q[j] = p[j + 1]
    <3> DEFINE f == [j \in 1 .. m - 1 |-> j + 1]
    <3>1. f \in [1 .. m - 1 -> 1 .. n]
      BY <2>3
    <3>2. \A j \in 1 .. m - 1 : q[j] = p[f[j]] /\ p[f[j]].key # k
      BY <2>3, <3>1
    <3>3. \A i, j \in 1 .. m - 1 : i < j => f[i] < f[j]
      OBVIOUS
    <3>4. \A x \in 1 .. n : x # 1 => x - 1 \in 1 .. m - 1 /\ f[x - 1] = x
      BY <2>3
    <3> HIDE DEF f
    <3>5. \A x \in 1 .. n : x = 1 \/ \E j \in 1 .. m - 1 : f[j] = x
      BY <3>4
    <3>6. QED
      BY <2>3, <3>1, <3>2, <3>3, <3>5, ZenonT(30)
  <2>4. QED
    BY <1>5, <1>6, <1>7, <2>1, <2>2, <2>3
<1>9. PICK f \in [1 .. m - 1 -> 1 .. n] :
        /\ \A j \in 1 .. m - 1 : q[j] = p[f[j]] /\ p[f[j]].key # k
        /\ \A i, j \in 1 .. m - 1 : i < j => f[i] < f[j]
        /\ \A x \in 1 .. n : \/ p[x].key = k
                             \/ \E j \in 1 .. m - 1 : f[j] = x
                             \/ /\ x = 1 /\ n = LruCap /\ m = n
                                /\ \A i \in 1 .. n : p[i].key # k
  BY <1>8
<1>10. q[m].key = k /\ q[m].t = now /\ \A j \in 1 .. m : j = m \/ j \in 1 .. m - 1
  BY <1>5, <1>6
<1>11. \A i, j \in 1 .. m : q[i].key = q[j].key => i = j
  <2> SUFFICES ASSUME NEW i \in 1 .. m, NEW j \in 1 .. m, q[i].key = q[j].key, i < j PROVE FALSE
    OBVIOUS
  <2>1. i \in 1 .. m - 1 /\ q[i] = p[f[i]] /\ p[f[i]].key # k /\ f[i] \in 1 .. n
    BY <1>9
  <2>2. CASE j = m
    BY <2>1, <2>2, <1>10
  <2>3. CASE j \in 1 .. m - 1
    <3>1. q[j] = p[f[j]] /\ f[j] \in 1 .. n /\ f[i] < f[j]
      BY <2>3, <2>1, <1>9
    <3>2. f[i] = f[j]
      BY <2>1, <3>1, <1>1, <1>7
    <3>3. QED
      BY <2>1, <3>1, <3>2
  <2>4. QED
    BY <2>2, <2>3, <1>10
<1>12. AttemptsInv'
  <2>1. \A a \in attempts' : a \in Attempt /\ a.t <= now /\ a.n < N + 1
    <3> SUFFICES ASSUME NEW a \in attempts' PROVE a \in Attempt /\ a.t <= now /\ a.n < N + 1
      OBVIOUS
    <3>1. CASE a \in attempts
      <4>1. a.n \in Nat /\ a.n < N /\ a.t <= now /\ a \in Attempt
        BY <3>1, <1>1 DEF Attempt
      <4>2. QED
        BY <4>1, <1>1
    <3>2. CASE a = b
      BY <3>2, <1>1, <1>2
    <3>3. QED
      BY <3>1, <3>2, <1>3
  <2>2. QED
    BY <2>1, <1>3, <1>4 DEF AttemptsInv
<1>13. ASSUME NEW a \in attempts PROVE AttemptedAfter(a)' = AttemptedAfter(a) \cup {k}
  <2>1. a.n < b.n
    BY <1>1, <1>2
  <2>2. {c \in attempts' : a.n < c.n} = {c \in attempts : a.n < c.n} \cup {b}
    BY <2>1, <1>3
  <2>3. AttemptedAfter(a)' = {AlertKey(d.ev) : d \in {c \in attempts' : a.n < c.n}}
    BY DEF AttemptedAfter
  <2>4. AlertKey(b.ev) = k
    BY <1>2, <1>a
  <2>5. QED
    BY <2>2, <2>3, <2>4 DEF AttemptedAfter
<1>14. ASSUME NEW a \in attempts PROVE IsFiniteSet(AttemptedAfter(a)) /\ IsFiniteSet(AttemptedAfter(a) \cup {k})
               /\ Cardinality(AttemptedAfter(a) \cup {k}) \in Nat
               /\ Cardinality(AttemptedAfter(a)) \in Nat
               /\ Cardinality(AttemptedAfter(a)) <= Cardinality(AttemptedAfter(a) \cup {k})
  <2>1. IsFiniteSet(AttemptedAfter(a))
    BY AttemptedAfterFinite DEF AlertIInv
  <2>2. IsFiniteSet(AttemptedAfter(a) \cup {k})
    BY <2>1, FS_AddElement
  <2>3. AttemptedAfter(a) \in SUBSET (AttemptedAfter(a) \cup {k})
    OBVIOUS
  <2>4. QED
    BY <2>1, <2>2, <2>3, FS_Subset, FS_CardinalityType
<1>15. ASSUME NEW i \in 1 .. m
       PROVE  \E a \in attempts' : AlertKey(a.ev) = q[i].key /\ a.t = q[i].t
  <2>1. CASE i = m
    BY <2>1, <1>10, <1>2, <1>3, <1>a
  <2>2. CASE i \in 1 .. m - 1
    <3>1. q[i] = p[f[i]] /\ f[i] \in 1 .. n
      BY <2>2, <1>9
    <3>2. \E a \in attempts : AlertKey(a.ev) = p[f[i]].key /\ a.t = p[f[i]].t
      BY <3>1, <1>7, <1>c DEF AlertIInv, TableInv
    <3>3. QED
      BY <3>1, <3>2, <1>3
  <2>3. QED
    BY <2>1, <2>2, <1>10
<1>16. ASSUME NEW a \in attempts'
       PROVE  \/ Cardinality(AttemptedAfter(a)') >= LruCap
              \/ \E i \in 1 .. m : /\ q[i].key = AlertKey(a.ev) /\ a.t <= q[i].t
                                   /\ \A j \in i + 1 .. m : q[j].key \in AttemptedAfter(a)'
  <2>1. CASE AlertKey(a.ev) = k
    <3>1. a.t <= now
      BY <1>1, <1>2, <1>3
    <3>2. m \in 1 .. m /\ \A j \in m + 1 .. m : FALSE
      OBVIOUS
    <3>3. QED
      BY <2>1, <3>1, <3>2, <1>10
  <2>2. CASE AlertKey(a.ev) # k
    <3>1. a \in attempts
      BY <2>2, <1>2, <1>3, <1>a
    <3>2. AttemptedAfter(a)' = AttemptedAfter(a) \cup {k}
      BY <3>1, <1>13
    <3>3. CASE Cardinality(AttemptedAfter(a)) >= LruCap
      BY <3>1, <3>2, <3>3, <1>1, <1>14
    <3>4. CASE \E x \in 1 .. n : /\ p[x].key = AlertKey(a.ev) /\ a.t <= p[x].t
                                 /\ \A j \in x + 1 .. n : p[j].key \in AttemptedAfter(a)
      <4>1. PICK x \in 1 .. n : /\ p[x].key = AlertKey(a.ev) /\ a.t <= p[x].t
                                /\ \A j \in x + 1 .. n : p[j].key \in AttemptedAfter(a)
        BY <3>4
      <4>2. CASE \E i \in 1 .. m - 1 : f[i] = x
        <5>1. PICK i \in 1 .. m - 1 : f[i] = x
          BY <4>2
        <5>2. i \in 1 .. m /\ q[i].key = AlertKey(a.ev) /\ a.t <= q[i].t
          BY <5>1, <4>1, <1>9
        <5>3. ASSUME NEW j \in i + 1 .. m PROVE q[j].key \in AttemptedAfter(a) \cup {k}
          <6>1. CASE j = m
            BY <6>1, <1>10
          <6>2. CASE j # m
            <7>1. j \in 1 .. m - 1 /\ i < j
              BY <5>1, <6>2
            <7>2. f[j] \in 1 .. n /\ x < f[j] /\ q[j] = p[f[j]]
              BY <5>1, <7>1, <1>9
            <7>3. f[j] \in x + 1 .. n
              BY <7>2
            <7>4. QED
              BY <7>2, <7>3, <4>1
          <6>3. QED
            BY <6>1, <6>2
        <5>4. QED
          BY <5>2, <5>3, <3>2
      <4>3. CASE x = 1 /\ n = LruCap /\ \A i \in 1 .. n : p[i].key # k
        <5> DEFINE g == [j \in 2 .. n |-> p[j].key]
                   T == {g[j] : j \in 2 .. n}
        <5>1. \A i, j \in 2 .. n : g[i] = g[j] => i = j
          BY <1>1, <1>7
        <5>2. n \in Nat /\ 2 \in Nat /\ 2 <= n + 1 /\ n >= 1
          BY <4>3, <1>1
        <5>3. \A j \in 2 .. n : g[j] \in AttemptedAfter(a) /\ g[j] # k
          BY <4>1, <4>3
        <5> HIDE DEF g
        <5>4. IsFiniteSet(T) /\ Cardinality(T) = n - 2 + 1
          BY <5>1, <5>2, StretchCardinality
        <5>5. k \notin T /\ T \subseteq AttemptedAfter(a)
          BY <5>3
        <5> HIDE DEF T
        <5>6. IsFiniteSet(T \cup {k}) /\ Cardinality(T \cup {k}) = (n - 2 + 1) + 1
          BY <5>4, <5>5, FS_AddElement
        <5>7. T \cup {k} \in SUBSET (AttemptedAfter(a) \cup {k})
          BY <5>5
        <5>8. Cardinality(T \cup {k}) <= Cardinality(AttemptedAfter(a) \cup {k})
          BY <5>7, <3>1, <1>14, FS_Subset
        <5>9. QED
          BY <5>2, <5>6, <5>8, <3>1, <3>2, <4>3, <1>14
      <4>4. QED
        BY <4>1, <4>2, <4>3, <1>9, <2>2
    <3>5. QED
      BY <3>1, <3>3, <3>4, <1>7, <1>c DEF AlertIInv, TableInv, Remembered
  <2>3. QED
    BY <2>1, <2>2
<1>17. TableInv'
  BY <1>15, <1>16, <1>3, <1>6 DEF TableInv, Remembered
<1>18. ASSUME NEW a \in attempts, Same(a.ev, b.ev), b.t - a.t < Cooldown
       PROVE  Cardinality(AttemptedAfter(a)) >= LruCap
  <2>1. AlertKey(a.ev) = k /\ a.t \in Nat /\ Cooldown \in Nat
    BY <1>18, <1>2, <1>a, <1>1, SameIsKey, AlertAssumption DEF Attempt
  <2>2. ASSUME NEW i \in 1 .. n, Remembered(a, i) PROVE FALSE
    <3>1. p[i].key = k /\ a.t <= p[i].t /\ p[i].t \in Nat
      <4>1. p[i] \in TableEntry
        BY <1>1, <1>7
      <4>2. QED
        BY <4>1, <2>1, <2>2, <1>c DEF Remembered, TableEntry
    <3>2. now - p[i].t < Cooldown
      BY <3>1, <2>1, <1>1, <1>2, <1>18, SMTT(30)
    <3>3. QED
      BY <3>1, <3>2, <1>7, <1>a, <1>c DEF Cooling
  <2>3. QED
    BY <2>2, <1>7, <1>c DEF AlertIInv, TableInv
<1>19. CooldownHolds'
  <2> SUFFICES ASSUME NEW a \in attempts', NEW c \in attempts',
                      a.n < c.n, Same(a.ev, c.ev), c.t - a.t < Cooldown
               PROVE  Cardinality({AlertKey(d.ev) : d \in {x \in attempts' : a.n < x.n /\ x.n < c.n}}) >= LruCap
    BY DEF CooldownHolds, AlertKey
  <2>1. \A x \in attempts : x.n \in Nat /\ x.n < N
    BY <1>1 DEF Attempt
  <2>2. a \in attempts
    BY <2>1, <1>1, <1>2, <1>3
  <2>3. CASE c \in attempts
    <3>1. {x \in attempts' : a.n < x.n /\ x.n < c.n} = {x \in attempts : a.n < x.n /\ x.n < c.n}
      <4>1. ~(b.n < c.n)
        BY <2>1, <2>3, <1>1, <1>2
      <4>2. QED
        BY <4>1, <1>3
    <3>2. Cardinality({AlertKey(d.ev) : d \in {x \in attempts : a.n < x.n /\ x.n < c.n}}) >= LruCap
      BY <2>2, <2>3 DEF AlertIInv, CooldownHolds, AlertKey
    <3>3. QED
      BY <3>1, <3>2
  <2>4. CASE c = b
    <3>1. {x \in attempts' : a.n < x.n /\ x.n < c.n} = {x \in attempts : a.n < x.n}
      BY <2>1, <2>4, <1>1, <1>2, <1>3
    <3>2. Cardinality(AttemptedAfter(a)) >= LruCap
      BY <2>2, <2>4, <1>18
    <3>3. QED
      BY <3>1, <3>2 DEF AttemptedAfter
  <2>5. QED
    BY <2>3, <2>4, <1>3
<1>20. SuppressedInv'
  BY <1>3 DEF AlertIInv, SuppressedInv, SuppressedAfterOwnAlert
<1>21. QED
  BY <1>3, <1>5, <1>6, <1>11, <1>12, <1>17, <1>19, <1>20

(* Steps that change neither the table nor the attempts.                   *)
LEMMA AlertOtherInv ==
    ASSUME AlertIInv, AlertTypes', UNCHANGED <<lastAlert, attempts, suppressed>>, now <= now'
    PROVE  AlertIInv'
<1>1. AttemptsInv'
  <2>1. \A a \in attempts : a.t \in Nat /\ a.t <= now /\ now \in Nat /\ now' \in Nat
    BY DEF AlertIInv, AttemptsInv, Attempt, AlertTypes
  <2>2. \A a \in attempts : a.t <= now'
    BY <2>1
  <2>3. QED
    BY <2>2 DEF AlertIInv, AttemptsInv
<1>2. TableInv' /\ CooldownHolds' /\ SuppressedInv'
  BY DEF AlertIInv, TableInv, Remembered, AttemptedAfter, CooldownHolds, SuppressedInv,
         SuppressedAfterOwnAlert
<1>3. QED
  BY <1>1, <1>2 DEF AlertIInv

LEMMA RouteInv == ASSUME AlertIInv, Route PROVE AlertIInv'
<1>1. /\ job \in Working /\ job.ev \in Alert /\ UNCHANGED <<now, box, imBox, imTask>>
      /\ job.pc = "route"
  BY DEF AlertIInv, AlertTypes, Route, NoJob, Working, imVars
<1>2. PICK e \in Alert : e = job.ev
  BY <1>1
<1>3. PICK k : k = AlertKey(e)
  OBVIOUS
<1>4. AlertTypes
  BY DEF AlertIInv
<1>5. CASE job' = NoJob /\ UNCHANGED <<lastAlert, attempts, suppressed>>
  <2>1. AlertTypes'
    BY <1>1, <1>4, <1>5 DEF AlertTypes
  <2>2. now <= now'
    BY <1>1, <1>4 DEF AlertTypes
  <2>3. QED
    BY <1>5, <2>1, <2>2, AlertOtherInv
<1>6. CASE /\ Cooling(k) /\ suppressed' = suppressed \cup {[ev |-> e, t |-> now]}
           /\ job' = NoJob /\ UNCHANGED <<lastAlert, attempts>>
  <2>1. AlertTypes'
    BY <1>1, <1>4, <1>6 DEF AlertTypes
  <2>2. AttemptsInv' /\ TableInv' /\ CooldownHolds'
    BY <1>1, <1>6 DEF AlertIInv, AttemptsInv, TableInv, Remembered, AttemptedAfter, CooldownHolds
  <2>3. PICK i \in 1 .. Len(lastAlert) : lastAlert[i].key = k /\ now - lastAlert[i].t < Cooldown
    BY <1>6 DEF Cooling
  <2>4. PICK a \in attempts : AlertKey(a.ev) = k /\ a.t = lastAlert[i].t /\ a.t <= now
    BY <2>3 DEF AlertIInv, TableInv, AttemptsInv
  <2>5. Same(a.ev, e)
    BY <2>4, <1>3, SameIsKey
  <2>6. PICK x : x = [ev |-> e, t |-> now]
    OBVIOUS
  <2>7. x.t = now /\ Same(a.ev, x.ev) /\ a.t <= x.t /\ x.t - a.t < Cooldown /\ now \in Nat
    BY <2>3, <2>4, <2>5, <2>6, <1>4 DEF AlertTypes
  <2>8. suppressed' = suppressed \cup {x} /\ attempts' = attempts
    BY <1>6, <2>6
  <2>9. SuppressedInv'
    BY <2>7, <2>8 DEF AlertIInv, SuppressedInv, SuppressedAfterOwnAlert
  <2>10. QED
    BY <2>1, <2>2, <2>9 DEF AlertIInv
<1>7. CASE /\ ~Cooling(k) /\ lastAlert' = RecordAlert(k)
           /\ attempts' = attempts \cup {[ev |-> e, t |-> now, n |-> Cardinality(attempts)]}
           /\ job' = [job EXCEPT !.pc = "send"] /\ UNCHANGED suppressed
  <2>1. /\ lastAlert' \in Seq(TableEntry) /\ Len(lastAlert') <= LruCap
        /\ \A i, j \in 1 .. Len(lastAlert') : lastAlert'[i].key = lastAlert'[j].key => i = j
        /\ AttemptsInv' /\ TableInv' /\ CooldownHolds' /\ SuppressedInv'
    BY <1>1, <1>3, <1>7, SendInv
  <2>2. job' \in Working
    BY <1>1, <1>7 DEF Working
  <2>3. AlertTypes'
    BY <2>1, <2>2, <1>1, <1>4 DEF AlertTypes
  <2>4. QED
    BY <2>1, <2>3 DEF AlertIInv
<1>8. QED
  BY <1>2, <1>3, <1>5, <1>6, <1>7 DEF Route

LEMMA AlertNextInv == AlertIInv /\ [AlertNext]_alertVars => AlertIInv'
<1> SUFFICES ASSUME AlertIInv, [AlertNext]_alertVars PROVE AlertIInv'
  OBVIOUS
<1>0. AlertTypes
  BY DEF AlertIInv
<1>a. now \in Nat /\ now <= now
  BY <1>0 DEF AlertTypes
<1>1. CASE AlertTick
  <2>1. UNCHANGED <<lastAlert, attempts, suppressed, box, job, imBox, imTask>>
        /\ now < MaxTime /\ now' = now + 1 /\ MaxTime \in Nat
    BY <1>1, AlertAssumption DEF AlertTick, imVars
  <2>2. AlertTypes' /\ now <= now'
    BY <2>1, <1>0, <1>a DEF AlertTypes
  <2>3. QED
    BY <2>1, <2>2, AlertOtherInv
<1>2. ASSUME NEW e \in Changes, PublishChange(e) PROVE AlertIInv'
  <2>1. UNCHANGED <<lastAlert, attempts, suppressed, now, job, imTask>>
        /\ box' = Append(box, e) /\ imBox' = [imBox EXCEPT !["state"] = @ + 1]
    BY <1>2 DEF PublishChange
  <2>2. e \in Alert
    BY ChangesAssumption
  <2>3. box' \in Seq(Alert) /\ imBox' \in [IMClasses -> Nat]
    BY <2>1, <2>2, <1>0 DEF AlertTypes, IMClasses
  <2>4. AlertTypes'
    BY <2>1, <2>3, <1>0 DEF AlertTypes
  <2>5. QED
    BY <2>1, <2>4, <1>a, AlertOtherInv
<1>3. CASE PublishHitl
  <2>1. UNCHANGED <<lastAlert, attempts, suppressed, now, job, imTask, box>>
        /\ imBox' = [imBox EXCEPT !["hitl"] = @ + 1]
    BY <1>3 DEF PublishHitl
  <2>2. imBox' \in [IMClasses -> Nat]
    BY <2>1, <1>0 DEF AlertTypes, IMClasses
  <2>3. AlertTypes'
    BY <2>1, <2>2, <1>0 DEF AlertTypes
  <2>4. QED
    BY <2>1, <2>3, <1>a, AlertOtherInv
<1>4. CASE Handle
  <2>1. /\ UNCHANGED <<lastAlert, attempts, suppressed, now, imBox, imTask>>
        /\ box # <<>> /\ box' = Tail(box)
        /\ (job' = job \/ job' = [pc |-> "meta", ev |-> Head(box)])
    BY <1>4 DEF Handle, imVars
  <2>2. Head(box) \in Alert /\ Tail(box) \in Seq(Alert)
    BY <2>1, <1>0 DEF AlertTypes
  <2>3. job' \in Working \cup {NoJob}
    BY <2>1, <2>2, <1>0 DEF AlertTypes, Working
  <2>4. AlertTypes'
    BY <2>1, <2>2, <2>3, <1>0 DEF AlertTypes
  <2>5. QED
    BY <2>1, <2>4, <1>a, AlertOtherInv
<1>5. CASE ResolveMeta
  <2>1. /\ UNCHANGED <<lastAlert, attempts, suppressed, now, imBox, imTask, box>>
        /\ job.pc = "meta"
        /\ \/ job' = [job EXCEPT !.pc = "route"]
           \/ job' = [job EXCEPT !.pc = "route", !.ev.owner = "anon", !.ev.notify = FALSE]
    BY <1>5 DEF ResolveMeta, imVars
  <2>2. job \in Working
    BY <2>1, <1>0 DEF AlertTypes, NoJob
  <2>3. job' \in Working
    <3>1. PICK e \in Alert : e = job.ev
      BY <2>2 DEF Working
    <3>2. [[e EXCEPT !.owner = "anon"] EXCEPT !.notify = FALSE] \in Alert
      BY DEF Alert
    <3>3. \/ job' = [job EXCEPT !.pc = "route"]
          \/ job' = [[job EXCEPT !.pc = "route"] EXCEPT !.ev = [[e EXCEPT !.owner = "anon"] EXCEPT !.notify = FALSE]]
      BY <2>1, <2>2, <3>1 DEF Working, Alert
    <3>4. QED
      BY <2>2, <3>2, <3>3 DEF Working
  <2>4. AlertTypes'
    BY <2>1, <2>3, <1>0 DEF AlertTypes
  <2>5. QED
    BY <2>1, <2>4, <1>a, AlertOtherInv
<1>6. CASE Route
  BY <1>6, RouteInv
<1>7. CASE AlertSent
  <2>1. /\ UNCHANGED <<lastAlert, attempts, suppressed, now, imBox, imTask, box>>
        /\ job' = NoJob
    BY <1>7 DEF AlertSent, imVars
  <2>2. AlertTypes'
    BY <2>1, <1>0 DEF AlertTypes
  <2>3. QED
    BY <2>1, <2>2, <1>a, AlertOtherInv
<1>8. ASSUME NEW c \in IMClasses, IMConsume(c) \/ IMSent(c) PROVE AlertIInv'
  <2>1. UNCHANGED <<lastAlert, attempts, suppressed, now, box, job>>
    BY <1>8 DEF IMConsume, IMSent
  <2>2. imBox' \in [IMClasses -> Nat]
    BY <1>8, <1>0, SMTT(30) DEF IMConsume, IMSent, AlertTypes
  <2>3. imTask' \in [IMClasses -> {"idle", "sending"}]
    BY <1>8, <1>0 DEF IMConsume, IMSent, AlertTypes
  <2>4. AlertTypes'
    BY <2>1, <2>2, <2>3, <1>0 DEF AlertTypes
  <2>5. QED
    BY <2>1, <2>4, <1>a, AlertOtherInv
<1>9. CASE UNCHANGED alertVars
  <2>1. UNCHANGED <<lastAlert, attempts, suppressed, now, box, job, imBox, imTask>>
    BY <1>9 DEF alertVars
  <2>2. AlertTypes'
    BY <2>1, <1>0 DEF AlertTypes
  <2>3. QED
    BY <2>1, <2>2, <1>a, AlertOtherInv
<1>10. QED
  BY <1>1, <1>2, <1>3, <1>4, <1>5, <1>6, <1>7, <1>8, <1>9 DEF AlertNext

(* For every cooldown, table size, set of owners and stream of events: the *)
(* table of _cooldown_check never outgrows LRU_CAP and holds no key twice, *)
(* two alerts of one kind within the window have LRU_CAP other kinds of    *)
(* alert between them, and an event is held back only for an alert of its  *)
(* own kind.                                                               *)
THEOREM AlertsInvariant == AlertSpec => []AlertInv
<1>1. AlertIInv => AlertInv
  <2> SUFFICES ASSUME AlertIInv PROVE AlertInv
    OBVIOUS
  <2>1. job.pc \in {"idle", "meta", "route", "send"}
    BY DEF AlertIInv, AlertTypes, Working, NoJob
  <2>2. QED
    BY <2>1 DEF AlertIInv, AlertTypes, SuppressedInv, AlertInv, AlertTypeOK
<1>2. QED
  BY <1>1, AlertInitInv, AlertNextInv, PTL DEF AlertSpec

(***************************************************************************)
(* RedisBus: the pump and its cursor.                                      *)
(***************************************************************************)

RSub == [on : BOOLEAN, topic : Types \cup {"*"}, closed : BOOLEAN, items : Seq(Nat),
         took : Seq(Nat), lost : SUBSET Nat, since : Int]
Pump == [pc : {"off", "loop", "xread"}, last : Int, from : Nat, base : Nat]

RedisTypes ==
    /\ entries \in Seq(Entry) /\ Len(entries) <= MaxEntries
    /\ rsubs \in [RSubs -> RSub]
    /\ \A s \in RSubs : Len(rsubs[s].items) <= RMaxSize
    /\ pump \in Pump

Seen(s) == rsubs[s].took \o rsubs[s].items

(* Everything a subscription was offered is in the stream, and not behind  *)
(* the entry up to which the pump has read.                                *)
UpTo(s, n) == /\ \A i \in 1 .. Len(Seen(s)) : Seen(s)[i] \in 1 .. n
              /\ rsubs[s].lost \subseteq 1 .. n

CursorInv ==
    /\ pump.from <= Len(entries) /\ pump.base <= Len(entries)
    /\ pump.last # Tail_ => pump.last \in 0 .. Len(entries)
    /\ pump.pc = "xread" => pump.from = IF pump.last = Tail_ THEN pump.base ELSE pump.last
    /\ \A s \in RSubs : /\ UpTo(s, Len(entries))
                        /\ pump.pc # "off" /\ pump.last # Tail_ => UpTo(s, pump.last)
                        /\ pump.pc = "xread" => UpTo(s, pump.from)

RedisIInv == RedisTypes /\ CursorInv /\ OncePerEntryInOrder /\ PumpHasNoGap

LEMMA ConcatNat ==
    ASSUME NEW a \in Seq(Nat), NEW b \in Seq(Nat), NEW c \in Seq(Nat)
    PROVE  (a \o b) \o c = a \o (b \o c)
  BY ConcatAssociative, SMTT(30)

LEMMA RedisInitInv == RedisInit => RedisIInv
<1> SUFFICES ASSUME RedisInit PROVE RedisIInv
  OBVIOUS
<1>1. /\ entries = <<>> /\ Len(entries) = 0 /\ entries \in Seq(Entry)
      /\ pump = [pc |-> "off", last |-> Tail_, from |-> 0, base |-> 0]
      /\ \A s \in RSubs : /\ rsubs[s] \in RSub /\ rsubs[s].items = <<>> /\ rsubs[s].took = <<>>
                          /\ rsubs[s].lost = {}
      /\ rsubs \in [RSubs -> RSub]
  BY DEF RedisInit, RSub, Tail_
<1>2. pump \in Pump /\ pump.pc = "off" /\ pump.last = Tail_ /\ pump.from = 0 /\ pump.base = 0
  BY <1>1 DEF Pump, Tail_
<1>3. \A s \in RSubs : Seen(s) = <<>>
  BY <1>1 DEF Seen
<1>4. RedisTypes
  BY <1>1, <1>2, RedisAssumption DEF RedisTypes
<1>5. CursorInv
  BY <1>1, <1>2, <1>3 DEF CursorInv, UpTo
<1>6. OncePerEntryInOrder
  <2>0. \A s \in RSubs : Seen(s) = rsubs[s].took \o rsubs[s].items
    BY DEF Seen
  <2>1. ASSUME NEW s \in RSubs PROVE Len(rsubs[s].took \o rsubs[s].items) = 0
    <3>1. rsubs[s].took \o rsubs[s].items = <<>> /\ Len(<<>>) = 0
      BY <2>0, <1>3
    <3>2. QED
      BY <3>1
  <2>2. \A i \in 1 .. 0 : FALSE
    OBVIOUS
  <2>3. QED
    BY <2>1, <2>2 DEF OncePerEntryInOrder
<1>7. PumpHasNoGap
  BY <1>2 DEF PumpHasNoGap
<1>8. QED
  BY <1>4, <1>5, <1>6, <1>7 DEF RedisIInv

LEMMA XAddInv == ASSUME RedisIInv, NEW e \in Entry, XAdd(e) PROVE RedisIInv'
<1>1. /\ entries \in Seq(Entry) /\ Len(entries) < MaxEntries /\ MaxEntries \in Nat
      /\ entries' = Append(entries, e) /\ rsubs' = rsubs /\ pump' = pump
  BY RedisAssumption DEF RedisIInv, RedisTypes, XAdd
<1>2. PICK n \in Nat : n = Len(entries)
  BY <1>1
<1>3. /\ entries' \in Seq(Entry) /\ Len(entries') = n + 1
      /\ \A i \in 1 .. n : entries'[i] = entries[i]
  BY <1>1, <1>2
<1>4. RedisTypes'
  BY <1>1, <1>2, <1>3 DEF RedisIInv, RedisTypes
<1>5. pump \in Pump
  BY DEF RedisIInv, RedisTypes
<1>6. ASSUME NEW s, NEW k \in Nat, NEW m \in Nat, k <= m, UpTo(s, k)
      PROVE  UpTo(s, k)' /\ UpTo(s, m)'
  <2>1. Seen(s)' = Seen(s) /\ rsubs' = rsubs
    BY <1>1 DEF Seen
  <2>2. \A i \in 1 .. k : i \in 1 .. m
    BY <1>6
  <2>3. QED
    BY <2>1, <2>2, <1>6 DEF UpTo
<1>7. CursorInv'
  <2>1. /\ pump.from \in Nat /\ pump.base \in Nat /\ pump.last \in Int
        /\ pump.from <= n /\ pump.base <= n /\ (pump.last # Tail_ => pump.last \in 0 .. n)
    BY <1>2, <1>5 DEF RedisIInv, CursorInv, Pump
  <2>2. ASSUME NEW s \in RSubs
        PROVE  /\ UpTo(s, n + 1)'
               /\ pump.pc # "off" /\ pump.last # Tail_ => UpTo(s, pump.last)'
               /\ pump.pc = "xread" => UpTo(s, pump.from)'
    <3>1. /\ UpTo(s, n)
          /\ pump.pc # "off" /\ pump.last # Tail_ => UpTo(s, pump.last)
          /\ pump.pc = "xread" => UpTo(s, pump.from)
      BY <1>2 DEF RedisIInv, CursorInv
    <3>2. UpTo(s, n + 1)'
      BY <3>1, <1>6
    <3>3. pump' = pump /\ rsubs' = rsubs
      BY <1>1
    <3>4. QED
      BY <3>1, <3>2, <3>3 DEF UpTo, Seen
  <2>3. QED
    BY <2>1, <2>2, <1>1, <1>3 DEF RedisIInv, CursorInv
<1>8. OncePerEntryInOrder'
  BY <1>1 DEF RedisIInv, OncePerEntryInOrder
<1>9. PumpHasNoGap'
  <2> SUFFICES ASSUME NEW s \in RSubs, rsubs[s].on /\ ~rsubs[s].closed,
                      pump.pc # "off", pump.last # Tail_, MaxEntries <= MaxLen,
                      NEW i \in Max({rsubs[s].since, pump.base}) + 1 .. pump.last,
                      entries'[i].wire = "v1", rsubs[s].topic \in {"*", entries'[i].type}
               PROVE  i \in ToSet(rsubs[s].took \o rsubs[s].items) \cup rsubs[s].lost
    BY <1>1 DEF PumpHasNoGap, Decodes, Matches
  <2>1. /\ rsubs[s].since \in Int /\ pump.base \in Nat /\ pump.last \in 0 .. n
    BY <1>2, <1>5 DEF RedisIInv, RedisTypes, CursorInv, RSub, Pump
  <2>2. i \in 1 .. n
    BY <2>1, MaxOfTwo
  <2>3. entries'[i] = entries[i]
    BY <2>2, <1>3
  <2>4. QED
    BY <2>3 DEF RedisIInv, PumpHasNoGap, Decodes, Matches
<1>10. QED
  BY <1>4, <1>7, <1>8, <1>9 DEF RedisIInv

(* Steps of the pump that deliver nothing and keep the stream.             *)
LEMMA PumpMovesInv ==
    ASSUME RedisIInv, UNCHANGED <<entries, rsubs>>, pump' \in Pump,
           pump'.from <= Len(entries), pump'.base <= Len(entries),
           pump'.last = pump.last \/ pump'.last = Tail_,
           pump'.pc # "off" => pump.pc # "off" \/ pump'.last = Tail_,
           pump'.base = pump.base \/ pump'.last = Tail_,
           pump'.pc = "xread" =>
             /\ pump'.from = IF pump'.last = Tail_ THEN pump'.base ELSE pump'.last
             /\ pump'.last = Tail_ => pump'.from = Len(entries)
    PROVE  RedisIInv'
<1>1. RedisTypes'
  BY DEF RedisIInv, RedisTypes
<1>2. ASSUME NEW s, NEW k PROVE UpTo(s, k)' <=> UpTo(s, k)
  BY DEF UpTo, Seen
<1>3. CursorInv'
  <2>1. /\ pump'.from <= Len(entries') /\ pump'.base <= Len(entries')
        /\ pump'.last # Tail_ => pump'.last \in 0 .. Len(entries')
    BY DEF RedisIInv, CursorInv
  <2>2. ASSUME NEW s \in RSubs
        PROVE  /\ UpTo(s, Len(entries))'
               /\ pump'.pc # "off" /\ pump'.last # Tail_ => UpTo(s, pump.last)'
               /\ pump'.pc = "xread" => UpTo(s, pump.from)'
    <3>0. PICK n, l, f : n = Len(entries) /\ l = pump'.last /\ f = pump'.from
      OBVIOUS
    <3>1. UpTo(s, n)
      BY <3>0 DEF RedisIInv, CursorInv
    <3>2. pump'.pc # "off" /\ pump'.last # Tail_ => UpTo(s, l)
      BY <3>0 DEF RedisIInv, CursorInv
    <3>3. pump'.pc = "xread" => UpTo(s, f)
      BY <3>0, <3>1, <3>2
    <3>4. /\ UpTo(s, n)' /\ (pump'.pc # "off" /\ pump'.last # Tail_ => UpTo(s, l)')
          /\ (pump'.pc = "xread" => UpTo(s, f)')
      BY <3>1, <3>2, <3>3, <1>2
    <3>5. QED
      BY <3>0, <3>4 DEF UpTo
  <2>3. QED
    BY <2>1, <2>2 DEF CursorInv
<1>4. OncePerEntryInOrder'
  BY DEF RedisIInv, OncePerEntryInOrder
<1>5. PumpHasNoGap'
  BY DEF RedisIInv, PumpHasNoGap, Decodes, Matches
<1>6. QED
  BY <1>1, <1>3, <1>4, <1>5 DEF RedisIInv

(* Steps of the subscriptions: none is offered anything, and one that is   *)
(* new starts at the cursor of the pump.                                   *)
LEMMA SubsMoveInv ==
    ASSUME RedisIInv, UNCHANGED entries, rsubs' \in [RSubs -> RSub],
           \A s \in RSubs :
             /\ Len(rsubs'[s].items) <= RMaxSize
             /\ Seen(s)' = Seen(s) /\ rsubs'[s].lost = rsubs[s].lost
             /\ rsubs'[s].on /\ ~rsubs'[s].closed =>
                  \/ /\ rsubs[s].on /\ ~rsubs[s].closed
                     /\ rsubs'[s].topic = rsubs[s].topic /\ rsubs'[s].since = rsubs[s].since
                  \/ rsubs'[s].since = pump'.last,
           \/ pump' = pump
           \/ pump' = [pump EXCEPT !.pc = "off"]
           \/ pump' = [pc |-> "loop", last |-> Tail_, from |-> 0, base |-> 0]
    PROVE  RedisIInv'
<1>1. pump \in Pump /\ pump' \in Pump
  BY DEF RedisIInv, RedisTypes, Pump, Tail_
<1>2. RedisTypes'
  BY <1>1 DEF RedisIInv, RedisTypes
<1>3. OncePerEntryInOrder'
  BY DEF RedisIInv, OncePerEntryInOrder, Seen
<1>4. ASSUME NEW s \in RSubs, NEW k PROVE UpTo(s, k)' <=> UpTo(s, k)
  BY DEF UpTo
<1>5. \A s \in RSubs : UpTo(s, Len(entries))'
  <2>1. PICK n : n = Len(entries)
    OBVIOUS
  <2>2. \A s \in RSubs : UpTo(s, n)'
    BY <2>1, <1>4 DEF RedisIInv, CursorInv
  <2>3. QED
    BY <2>1, <2>2 DEF UpTo
<1>6. CASE pump' = pump
  <2>1. CursorInv'
    <3>1. PICK l, f : l = pump.last /\ f = pump.from
      OBVIOUS
    <3>2. \A s \in RSubs : /\ pump.pc # "off" /\ pump.last # Tail_ => UpTo(s, l)'
                           /\ pump.pc = "xread" => UpTo(s, f)'
      BY <3>1, <1>4 DEF RedisIInv, CursorInv
    <3>3. \A s \in RSubs : /\ pump.pc # "off" /\ pump.last # Tail_ => UpTo(s, pump.last)'
                           /\ pump.pc = "xread" => UpTo(s, pump.from)'
      BY <3>1, <3>2, <1>6 DEF UpTo
    <3>4. QED
      BY <3>3, <1>5, <1>6 DEF RedisIInv, CursorInv
  <2>2. PumpHasNoGap'
    <3> SUFFICES ASSUME NEW s \in RSubs, rsubs'[s].on /\ ~rsubs'[s].closed,
                        pump.pc # "off", pump.last # Tail_, MaxEntries <= MaxLen,
                        NEW i \in Max({rsubs'[s].since, pump.base}) + 1 .. pump.last,
                        entries[i].wire = "v1", rsubs'[s].topic \in {"*", entries[i].type}
                 PROVE  i \in ToSet(rsubs'[s].took \o rsubs'[s].items) \cup rsubs'[s].lost
      BY <1>6 DEF PumpHasNoGap, Decodes, Matches
    <3>1. CASE rsubs'[s].since = pump.last
      <4>1. PICK l \in Int, b \in Int : l = pump.last /\ b = pump.base
        BY <1>1 DEF Pump
      <4>2. PICK m : m = Max({l, b})
        OBVIOUS
      <4>3. m = IF l <= b THEN b ELSE l
        BY <4>2, MaxOfTwo
      <4>4. i \in m + 1 .. l
        BY <3>1, <4>1, <4>2
      <4>5. QED
        BY <4>3, <4>4
    <3>2. CASE /\ rsubs[s].on /\ ~rsubs[s].closed
               /\ rsubs'[s].topic = rsubs[s].topic /\ rsubs'[s].since = rsubs[s].since
      <4>1. i \in ToSet(Seen(s)) \cup rsubs[s].lost
        BY <3>2 DEF RedisIInv, PumpHasNoGap, Decodes, Matches, Seen
      <4>2. Seen(s) = rsubs'[s].took \o rsubs'[s].items
        BY DEF Seen
      <4>3. QED
        BY <4>1, <4>2
    <3>3. QED
      BY <3>1, <3>2, <1>6
  <2>3. QED
    BY <1>2, <1>3, <2>1, <2>2 DEF RedisIInv
<1>7. CASE /\ pump'.pc = "off" \/ (pump'.pc = "loop" /\ pump'.last = Tail_)
           /\ pump'.from <= Len(entries) /\ pump'.base <= Len(entries)
           /\ pump'.last # Tail_ => pump'.last \in 0 .. Len(entries)
  <2>1. CursorInv'
    BY <1>5, <1>7 DEF CursorInv
  <2>2. PumpHasNoGap'
    BY <1>7 DEF PumpHasNoGap
  <2>3. QED
    BY <1>2, <1>3, <2>1, <2>2 DEF RedisIInv
<1>8. pump' # pump =>
        /\ pump'.pc = "off" \/ (pump'.pc = "loop" /\ pump'.last = Tail_)
        /\ pump'.from <= Len(entries) /\ pump'.base <= Len(entries)
        /\ pump'.last # Tail_ => pump'.last \in 0 .. Len(entries)
  <2>1. CASE pump' = [pump EXCEPT !.pc = "off"]
    BY <2>1, <1>1 DEF RedisIInv, CursorInv, Pump
  <2>2. CASE pump' = [pc |-> "loop", last |-> Tail_, from |-> 0, base |-> 0]
    <3>1. Len(entries) \in Nat
      BY DEF RedisIInv, RedisTypes
    <3>2. QED
      BY <2>2, <3>1
  <2>3. QED
    BY <2>1, <2>2
<1>9. QED
  BY <1>6, <1>7, <1>8

LEMMA RSubscribeInv ==
    ASSUME RedisIInv, NEW s \in RSubs, NEW t \in Types \cup {"*"}, RSubscribe(s, t)
    PROVE  RedisIInv'
<1>1. rsubs \in [RSubs -> RSub] /\ pump \in Pump
  BY DEF RedisIInv, RedisTypes
<1>2. PICK z : z = IF pump.pc = "off" THEN Tail_ ELSE pump.last
  OBVIOUS
<1>3. z \in Int
  BY <1>1, <1>2 DEF Pump, Tail_
<1>4. rsubs' = [rsubs EXCEPT ![s] = [[[rsubs[s] EXCEPT !.on = TRUE] EXCEPT !.topic = t] EXCEPT !.since = z]]
  BY <1>1, <1>2 DEF RSubscribe, RSub
<1>5. rsubs[s] \in RSub
  BY <1>1
<1>6. PICK r : r = [[[rsubs[s] EXCEPT !.on = TRUE] EXCEPT !.topic = t] EXCEPT !.since = z]
  OBVIOUS
<1>7. /\ r \in RSub /\ r.items = rsubs[s].items /\ r.took = rsubs[s].took
      /\ r.lost = rsubs[s].lost /\ r.since = z
  BY <1>3, <1>5, <1>6 DEF RSub
<1>8. rsubs' \in [RSubs -> RSub] /\ rsubs'[s] = r /\ \A x \in RSubs : x # s => rsubs'[x] = rsubs[x]
  BY <1>1, <1>4, <1>6, <1>7
<1>9. UNCHANGED entries /\ pump'.last = z
      /\ (pump' = pump \/ pump' = [pc |-> "loop", last |-> Tail_, from |-> 0, base |-> 0])
  BY <1>2 DEF RSubscribe
<1>10. \A x \in RSubs :
             /\ Len(rsubs'[x].items) <= RMaxSize
             /\ Seen(x)' = Seen(x) /\ rsubs'[x].lost = rsubs[x].lost
             /\ rsubs'[x].on /\ ~rsubs'[x].closed =>
                  \/ /\ rsubs[x].on /\ ~rsubs[x].closed
                     /\ rsubs'[x].topic = rsubs[x].topic /\ rsubs'[x].since = rsubs[x].since
                  \/ rsubs'[x].since = pump'.last
  BY <1>7, <1>8, <1>9 DEF RedisIInv, RedisTypes, Seen
<1>11. QED
  BY <1>8, <1>9, <1>10, SubsMoveInv

LEMMA RTakeInv == ASSUME RedisIInv, NEW s \in RSubs, RTake(s) PROVE RedisIInv'
<1>1. rsubs \in [RSubs -> RSub]
  BY DEF RedisIInv, RedisTypes
<1>2. PICK items, took : items = rsubs[s].items /\ took = rsubs[s].took
  OBVIOUS
<1>3. items \in Seq(Nat) /\ took \in Seq(Nat) /\ items # <<>> /\ rsubs[s] \in RSub
  BY <1>1, <1>2 DEF RTake, RSub
<1>4. PICK r : r = [[rsubs[s] EXCEPT !.items = Tail(items)] EXCEPT !.took = Append(took, Head(items))]
  OBVIOUS
<1>5. rsubs' = [rsubs EXCEPT ![s] = r]
  BY <1>1, <1>2, <1>4 DEF RTake, RSub
<1>6. /\ Tail(items) \in Seq(Nat) /\ Append(took, Head(items)) \in Seq(Nat)
      /\ Len(Tail(items)) = Len(items) - 1 /\ Len(items) \in Nat
  BY <1>3
<1>7. /\ r \in RSub /\ r.items = Tail(items) /\ r.took = Append(took, Head(items))
      /\ r.lost = rsubs[s].lost /\ r.since = rsubs[s].since /\ r.on = rsubs[s].on
      /\ r.closed = rsubs[s].closed /\ r.topic = rsubs[s].topic
  BY <1>3, <1>4, <1>6 DEF RSub
<1>8. Append(took, Head(items)) \o Tail(items) = took \o items
  BY <1>3, TakeOne
<1>9. rsubs' \in [RSubs -> RSub] /\ rsubs'[s] = r /\ \A x \in RSubs : x # s => rsubs'[x] = rsubs[x]
  BY <1>1, <1>5, <1>7
<1>10. UNCHANGED <<entries, pump>>
  BY DEF RTake
<1>11. Seen(s)' = Seen(s) /\ Len(rsubs'[s].items) <= RMaxSize
  <2>1. Seen(s)' = r.took \o r.items /\ Seen(s) = took \o items
    BY <1>2, <1>9 DEF Seen
  <2>2. Len(items) <= RMaxSize /\ RMaxSize \in Nat
    BY <1>2, RedisAssumption DEF RedisIInv, RedisTypes
  <2>3. Seen(s)' = Seen(s)
    BY <2>1, <1>7, <1>8
  <2>4. PICK n, m : n = Len(items) /\ m = Len(Tail(items))
    OBVIOUS
  <2>5. n \in Nat /\ m = n - 1 /\ n <= RMaxSize /\ RMaxSize \in Nat
    BY ONLY <2>2, <2>4, <1>6
  <2>6. m <= RMaxSize
    BY <2>5
  <2>7. Len(rsubs'[s].items) = m
    BY <2>4, <1>7, <1>9
  <2>8. QED
    BY <2>3, <2>6, <2>7
<1>12. \A x \in RSubs :
             /\ Len(rsubs'[x].items) <= RMaxSize
             /\ Seen(x)' = Seen(x) /\ rsubs'[x].lost = rsubs[x].lost
             /\ rsubs'[x].on /\ ~rsubs'[x].closed =>
                  \/ /\ rsubs[x].on /\ ~rsubs[x].closed
                     /\ rsubs'[x].topic = rsubs[x].topic /\ rsubs'[x].since = rsubs[x].since
                  \/ rsubs'[x].since = pump'.last
  BY <1>7, <1>9, <1>11 DEF RedisIInv, RedisTypes, Seen
<1>13. QED
  BY <1>9, <1>10, <1>12, SubsMoveInv

(* Subscriptions are only told to close.                                   *)
LEMMA RClosingInv ==
    ASSUME RedisIInv, UNCHANGED entries, NEW S \in SUBSET RSubs,
           rsubs' = [s \in RSubs |-> IF s \in S THEN [rsubs[s] EXCEPT !.closed = TRUE] ELSE rsubs[s]],
           pump' = pump \/ pump' = [pump EXCEPT !.pc = "off"]
    PROVE  RedisIInv'
<1>1. rsubs \in [RSubs -> RSub]
  BY DEF RedisIInv, RedisTypes
<1>2. \A s \in RSubs : /\ rsubs'[s] \in RSub
                       /\ rsubs'[s].items = rsubs[s].items /\ rsubs'[s].took = rsubs[s].took
                       /\ rsubs'[s].lost = rsubs[s].lost /\ rsubs'[s].on = rsubs[s].on
                       /\ rsubs'[s].topic = rsubs[s].topic /\ rsubs'[s].since = rsubs[s].since
                       /\ (~rsubs'[s].closed => ~rsubs[s].closed)
  BY <1>1, ZenonT(30) DEF RSub
<1>3. rsubs' \in [RSubs -> RSub]
  BY <1>1, ZenonT(30) DEF RSub
<1>4. \A x \in RSubs :
             /\ Len(rsubs'[x].items) <= RMaxSize
             /\ Seen(x)' = Seen(x) /\ rsubs'[x].lost = rsubs[x].lost
             /\ rsubs'[x].on /\ ~rsubs'[x].closed =>
                  \/ /\ rsubs[x].on /\ ~rsubs[x].closed
                     /\ rsubs'[x].topic = rsubs[x].topic /\ rsubs'[x].since = rsubs[x].since
                  \/ rsubs'[x].since = pump'.last
  BY <1>2 DEF RedisIInv, RedisTypes, Seen
<1>5. QED
  BY <1>3, <1>4, SubsMoveInv

Increasing(q) == \A i, j \in 1 .. Len(q) : i < j => q[i] < q[j]

(* A batch behind everything the subscription was offered keeps its order, *)
(* and each entry of the batch is queued or counted as lost.               *)
LEMMA OfferIs ==
    ASSUME NEW r \in RSub, Len(r.items) <= RMaxSize, ~r.closed,
           NEW f \in Nat, NEW n \in Nat, f <= n,
           NEW batch \in SUBSET (f + 1 .. n),
           \A i \in 1 .. Len(r.took \o r.items) : (r.took \o r.items)[i] \in 1 .. f,
           r.lost \subseteq 1 .. f, Increasing(r.took \o r.items)
    PROVE  LET o == Offer(r, batch)
               all == o.took \o o.items
           IN  /\ o \in RSub /\ Len(o.items) <= RMaxSize
               /\ o.on = r.on /\ o.topic = r.topic /\ o.closed = r.closed /\ o.since = r.since
               /\ \A i \in 1 .. Len(all) : all[i] \in 1 .. n
               /\ o.lost \subseteq 1 .. n /\ Increasing(all)
               /\ batch \cup ToSet(r.took \o r.items) \cup r.lost \subseteq ToSet(all) \cup o.lost
<1> DEFINE got == Ascending(batch)
           p == r.took \o r.items
<1>1. /\ r.items \in Seq(Nat) /\ r.took \in Seq(Nat) /\ r.lost \in SUBSET Nat
      /\ Len(r.items) \in Nat /\ RMaxSize \in Nat
  BY RedisAssumption DEF RSub
<1>2. IsFiniteSet(batch) /\ batch \in SUBSET Int
  <2>1. IsFiniteSet(f + 1 .. n)
    BY FS_Interval
  <2>2. \A x \in f + 1 .. n : x \in Int
    OBVIOUS
  <2>3. QED
    BY <2>1, <2>2, FS_Subset
<1>3. /\ got \in Seq(batch) /\ Len(got) \in Nat
      /\ \A x \in batch : \E k \in 1 .. Len(got) : got[k] = x
      /\ \A k \in 1 .. Len(got) : got[k] \in batch
      /\ \A i, j \in 1 .. Len(got) : i < j => got[i] < got[j]
  BY <1>2, AscendingIs
<1> HIDE DEF got
<1>4. PICK g \in Nat : g = Len(got)
  BY <1>3
<1>5. PICK w \in Nat : w = RMaxSize - Len(r.items)
  <2>1. PICK l \in Nat : l = Len(r.items)
    BY <1>1
  <2>2. RMaxSize - l \in Nat
    BY <2>1, <1>1
  <2>3. QED
    BY <2>1, <2>2
<1>6. PICK room : room = Min({w, g})
  OBVIOUS
<1>7. room = IF w <= g THEN w ELSE g
  BY <1>6, MinOfTwo
<1>8. room \in 0 .. g /\ room <= w
  BY <1>7
<1>9. PICK head : head = SubSeq(got, 1, room)
  OBVIOUS
<1>10. \A k \in 1 .. g : got[k] \in Nat /\ got[k] \in f + 1 .. n
  <2>1. \A x \in f + 1 .. n : x \in Nat
    OBVIOUS
  <2>2. \A k \in 1 .. g : got[k] \in f + 1 .. n
    BY <1>3, <1>4
  <2>3. QED
    BY <2>1, <2>2
<1>11. head \in Seq(Nat) /\ Len(head) = room /\ \A k \in 1 .. room : head[k] = got[k]
  <2>1. \A k \in 1 .. room : got[k] \in Nat
    BY <1>8, <1>10
  <2>2. /\ head \in Seq(Nat) /\ Len(head) = (IF 1 <= room THEN room - 1 + 1 ELSE 0)
        /\ \A k \in 1 .. room - 1 + 1 : head[k] = got[1 + k - 1]
    BY <2>1, <1>8, <1>9, SubSeqProperties
  <2>3. QED
    BY <2>2, <1>8
<1>12. PICK rest : rest = {got[k] : k \in room + 1 .. g}
  OBVIOUS
<1>13. rest \subseteq batch
  BY <1>3, <1>4, <1>8, <1>12
<1>14. PICK items : items = r.items \o head
  OBVIOUS
<1>15. items \in Seq(Nat) /\ Len(items) = Len(r.items) + room
  BY <1>1, <1>11, <1>14, ConcatProperties
<1>16. PICK lost : lost = r.lost \cup rest
  OBVIOUS
<1>17. lost \in SUBSET Nat /\ lost \subseteq 1 .. n
  <2>1. \A x \in rest : x \in 1 .. n
    BY <1>13
  <2>2. \A x \in r.lost : x \in 1 .. n
    OBVIOUS
  <2>3. QED
    BY <2>1, <2>2, <1>16
<1>18. PICK o : o = Offer(r, batch)
  OBVIOUS
<1>19. o = [[r EXCEPT !.items = items] EXCEPT !.lost = lost]
  <2>1. o = [r EXCEPT !.items = @ \o SubSeq(got, 1, Min({RMaxSize - Len(r.items), Len(got)})),
                      !.lost = @ \cup {got[k] : k \in Min({RMaxSize - Len(r.items), Len(got)}) + 1 .. Len(got)}]
    BY <1>18 DEF Offer, got
  <2>2. Min({RMaxSize - Len(r.items), Len(got)}) = room
    BY <1>4, <1>5, <1>6
  <2>3. o = [r EXCEPT !.items = @ \o SubSeq(got, 1, room), !.lost = @ \cup {got[k] : k \in room + 1 .. Len(got)}]
    BY <2>1, <2>2
  <2>4. o = [r EXCEPT !.items = @ \o head, !.lost = @ \cup rest]
    BY <2>3, <1>4, <1>9, <1>12
  <2>5. QED
    BY <2>4, <1>14, <1>16 DEF RSub
<1>20. /\ o \in RSub /\ o.items = items /\ o.lost = lost /\ o.took = r.took
       /\ o.on = r.on /\ o.topic = r.topic /\ o.closed = r.closed /\ o.since = r.since
  BY <1>15, <1>17, <1>19 DEF RSub
<1>21. Len(o.items) <= RMaxSize
  <2>1. PICK l \in Nat : l = Len(r.items)
    BY <1>1
  <2>2. l + room <= RMaxSize
    BY <2>1, <1>1, <1>5, <1>8
  <2>3. QED
    BY <2>1, <2>2, <1>15, <1>20
<1>22. PICK all : all = o.took \o o.items
  OBVIOUS
<1>23. all = p \o head /\ p \in Seq(Nat)
  <2>1. all = r.took \o (r.items \o head)
    BY <1>14, <1>20, <1>22
  <2>2. (r.took \o r.items) \o head = r.took \o (r.items \o head)
    <3>1. PICK a \in Seq(Nat), b \in Seq(Nat) : a = r.took /\ b = r.items
      BY <1>1
    <3>2. head \in Seq(Nat)
      BY <1>11
    <3>3. (a \o b) \o head = a \o (b \o head)
      BY <3>2, ConcatNat
    <3>4. QED
      BY <3>1, <3>3
  <2>3. QED
    BY <2>1, <2>2, <1>1, ConcatProperties
<1> HIDE DEF p
<1>24. PICK l \in Nat : l = Len(p)
  BY <1>23
<1>25. Len(all) = l + room /\ \A i \in 1 .. l + room : all[i] = IF i <= l THEN p[i] ELSE head[i - l]
  BY <1>11, <1>23, <1>24, ConcatProperties, ZenonT(30)
<1>26. /\ \A i \in 1 .. l : i \in 1 .. l + room /\ all[i] = p[i]
       /\ \A k \in 1 .. room : k + l \in 1 .. l + room /\ all[k + l] = got[k]
       /\ \A i \in 1 .. l + room : i \in 1 .. l \/ i - l \in 1 .. room
  <2>1. \A i \in 1 .. l : i \in 1 .. l + room /\ all[i] = p[i]
    BY <1>8, <1>25
  <2>2. ASSUME NEW k \in 1 .. room PROVE k + l \in 1 .. l + room /\ all[k + l] = got[k]
    <3>1. k + l \in 1 .. l + room /\ ~(k + l <= l) /\ (k + l) - l = k
      BY <1>8
    <3>2. QED
      BY <3>1, <1>11, <1>25
  <2>3. \A i \in 1 .. l + room : i \in 1 .. l \/ i - l \in 1 .. room
    BY <1>8
  <2>4. QED
    BY <2>1, <2>2, <2>3
<1>27. \A i \in 1 .. l : p[i] \in 1 .. f
  BY <1>24 DEF p
<1>28. ASSUME NEW i \in 1 .. l + room
       PROVE  \/ i \in 1 .. l /\ all[i] \in 1 .. f
              \/ i - l \in 1 .. room /\ i - l \in 1 .. g /\ all[i] = got[i - l] /\ all[i] \in f + 1 .. n
  <2>1. CASE i \in 1 .. l
    BY <2>1, <1>26, <1>27
  <2>2. CASE i - l \in 1 .. room
    <3>1. (i - l) + l = i /\ i - l \in 1 .. g
      BY <2>2, <1>8
    <3>2. QED
      BY <2>2, <3>1, <1>10, <1>26
  <2>3. QED
    BY <2>1, <2>2, <1>26
<1>29. \A i \in 1 .. Len(all) : all[i] \in 1 .. n
  BY <1>25, <1>28
<1>30. Increasing(all)
  <2> SUFFICES ASSUME NEW i \in 1 .. l + room, NEW j \in 1 .. l + room, i < j PROVE all[i] < all[j]
    BY <1>25 DEF Increasing
  <2>1. CASE i \in 1 .. l /\ j \in 1 .. l
    BY <2>1, <1>24, <1>26 DEF Increasing, p
  <2>2. CASE i \in 1 .. l /\ all[i] \in 1 .. f /\ all[j] \in f + 1 .. n
    BY <2>2
  <2>3. CASE /\ i - l \in 1 .. room /\ i - l \in 1 .. g /\ all[i] = got[i - l]
             /\ j - l \in 1 .. room /\ j - l \in 1 .. g /\ all[j] = got[j - l]
    <3>1. i - l < j - l
      OBVIOUS
    <3>2. got[i - l] < got[j - l]
      BY <2>3, <3>1, <1>3, <1>4
    <3>3. QED
      BY <2>3, <3>2
  <2>4. CASE i - l \in 1 .. room /\ j \in 1 .. l
    BY <2>4
  <2>5. QED
    BY <2>1, <2>2, <2>3, <2>4, <1>28
<1>31. ASSUME NEW x \in batch \cup ToSet(r.took \o r.items) \cup r.lost
       PROVE  x \in ToSet(all) \cup o.lost
  <2>0. all \in Seq(Nat) /\ ToSet(all) = {all[i] : i \in 1 .. l + room}
    <3>1. all \in Seq(Nat)
      BY <1>11, <1>23, ConcatProperties
    <3>2. DOMAIN all = 1 .. l + room
      <4>1. \A a \in Seq(Nat) : DOMAIN a = 1 .. Len(a)
        OBVIOUS
      <4>2. QED
        BY <3>1, <4>1, <1>25
    <3>3. ToSet(all) = {all[i] : i \in DOMAIN all}
      BY Zenon DEF ToSet
    <3>4. QED
      BY <3>1, <3>2, <3>3
  <2>1. CASE x \in batch
    <3>1. PICK k \in 1 .. g : got[k] = x
      BY <2>1, <1>3, <1>4
    <3>2. CASE k <= room
      <4>1. k \in 1 .. room
        BY <3>2
      <4>2. k + l \in 1 .. l + room /\ all[k + l] = x
        BY <4>1, <3>1, <1>26
      <4>3. QED
        BY <4>2, <2>0
    <3>3. CASE ~(k <= room)
      <4>1. k \in room + 1 .. g
        BY <3>3, <1>8
      <4>2. x \in rest
        BY <4>1, <3>1, <1>12
      <4>3. QED
        BY <4>2, <1>16, <1>20
    <3>4. QED
      BY <3>2, <3>3
  <2>2. CASE x \in ToSet(p)
    <3>1. PICK i \in 1 .. l : x = p[i]
      BY <2>2, <1>23, <1>24 DEF ToSet
    <3>2. i \in 1 .. l + room /\ all[i] = x
      BY <3>1, <1>26
    <3>3. QED
      BY <3>2, <2>0
  <2>3. CASE x \in r.lost
    BY <2>3, <1>16, <1>20
  <2>4. QED
    BY <2>1, <2>2, <2>3 DEF p
<1>32. o.lost \subseteq 1 .. n
  BY <1>17, <1>20
<1>33. /\ o \in RSub /\ Len(o.items) <= RMaxSize
       /\ o.on = r.on /\ o.topic = r.topic /\ o.closed = r.closed /\ o.since = r.since
       /\ \A i \in 1 .. Len(all) : all[i] \in 1 .. n
       /\ o.lost \subseteq 1 .. n /\ Increasing(all)
       /\ batch \cup ToSet(r.took \o r.items) \cup r.lost \subseteq ToSet(all) \cup o.lost
  BY <1>20, <1>21, <1>29, <1>30, <1>31, <1>32
<1>34. QED
  BY <1>33, <1>18, <1>22

LEMMA PumpFanOutInv == ASSUME RedisIInv, PumpFanOut PROVE RedisIInv'
<1>1. /\ rsubs \in [RSubs -> RSub] /\ pump \in Pump /\ entries \in Seq(Entry)
      /\ \A s \in RSubs : Len(rsubs[s].items) <= RMaxSize
  BY DEF RedisIInv, RedisTypes
<1>2. PICK n \in Nat : n = Len(entries)
  BY <1>1
<1>3. PICK f \in Nat : f = pump.from /\ f <= n
  BY <1>1, <1>2 DEF RedisIInv, CursorInv, Pump
<1>4. /\ pump.pc = "xread" /\ entries' = entries /\ pump.last \in Int /\ pump.base \in Nat
      /\ pump' = [pump EXCEPT !.pc = "loop", !.last = Len(entries)]
      /\ f = IF pump.last = Tail_ THEN pump.base ELSE pump.last
      /\ \A s \in RSubs : UpTo(s, f)
  BY <1>1, <1>3 DEF PumpFanOut, RedisIInv, CursorInv, Pump
<1>5. /\ pump' \in Pump /\ pump'.pc = "loop" /\ pump'.last = n /\ pump'.base = pump.base
      /\ pump'.from = f
  <2>1. pump' = [pump EXCEPT !.pc = "loop", !.last = n] /\ n \in Int
    BY <1>2, <1>4
  <2>2. QED
    BY <2>1, <1>1, <1>3 DEF Pump
<1> DEFINE batch(s) == {i \in Unread : Decodes(i) /\ Matches(s, entries[i])}
           all(s) == rsubs'[s].took \o rsubs'[s].items
<1>6. rsubs' = [s \in RSubs |-> IF ~rsubs[s].on THEN rsubs[s] ELSE Offer(rsubs[s], batch(s))]
  BY DEF PumpFanOut
<1>7. Unread \subseteq f + 1 .. n
  <2>1. MaxLen \in Nat
    BY RedisAssumption
  <2>2. QED
    BY <2>1, <1>2, <1>3 DEF Unread, Retained
<1>8. \A s \in RSubs : batch(s) \in SUBSET (f + 1 .. n)
  BY <1>7
<1> HIDE DEF batch
<1>9. ASSUME NEW s \in RSubs
      PROVE  LET a == rsubs'[s].took \o rsubs'[s].items
             IN  /\ rsubs'[s] \in RSub /\ Len(rsubs'[s].items) <= RMaxSize
                 /\ rsubs'[s].on = rsubs[s].on /\ rsubs'[s].topic = rsubs[s].topic
                 /\ rsubs'[s].closed = rsubs[s].closed /\ rsubs'[s].since = rsubs[s].since
                 /\ \A i \in 1 .. Len(a) : a[i] \in 1 .. n
                 /\ rsubs'[s].lost \subseteq 1 .. n /\ Increasing(a)
                 /\ ToSet(rsubs[s].took \o rsubs[s].items) \cup rsubs[s].lost
                      \subseteq ToSet(a) \cup rsubs'[s].lost
                 /\ rsubs[s].on /\ ~rsubs[s].closed => batch(s) \subseteq ToSet(a) \cup rsubs'[s].lost
  <2>1. PICK r \in RSub : r = rsubs[s]
    BY <1>1
  <2>2. /\ Len(r.items) <= RMaxSize
        /\ \A i \in 1 .. Len(r.took \o r.items) : (r.took \o r.items)[i] \in 1 .. f
        /\ r.lost \subseteq 1 .. f /\ Increasing(r.took \o r.items)
    BY <2>1, <1>1, <1>4 DEF UpTo, Seen, RedisIInv, OncePerEntryInOrder, Increasing
  <2>3. CASE r.on /\ ~r.closed
    <3>1. PICK b : b = batch(s)
      OBVIOUS
    <3>2. PICK o : o = Offer(r, b)
      OBVIOUS
    <3>3. rsubs'[s] = o
      BY <2>1, <2>3, <3>1, <3>2, <1>6
    <3>4. PICK a : a = o.took \o o.items
      OBVIOUS
    <3>5. b \in SUBSET (f + 1 .. n)
      BY <3>1, <1>8
    <3>6. /\ o \in RSub /\ Len(o.items) <= RMaxSize
          /\ o.on = r.on /\ o.topic = r.topic /\ o.closed = r.closed /\ o.since = r.since
          /\ \A i \in 1 .. Len(a) : a[i] \in 1 .. n
          /\ o.lost \subseteq 1 .. n /\ Increasing(a)
          /\ b \cup ToSet(r.took \o r.items) \cup r.lost \subseteq ToSet(a) \cup o.lost
      <4>1. f \in Nat /\ n \in Nat /\ f <= n /\ ~r.closed /\ r \in RSub
        BY <2>3, <1>3
      <4>2. LET u == Offer(r, b)
                q == u.took \o u.items
            IN  /\ u \in RSub /\ Len(u.items) <= RMaxSize
                /\ u.on = r.on /\ u.topic = r.topic /\ u.closed = r.closed /\ u.since = r.since
                /\ \A i \in 1 .. Len(q) : q[i] \in 1 .. n
                /\ u.lost \subseteq 1 .. n /\ Increasing(q)
                /\ b \cup ToSet(r.took \o r.items) \cup r.lost \subseteq ToSet(q) \cup u.lost
        BY ONLY <4>1, <2>2, <3>5, OfferIs
      <4>3. QED
        BY <4>2, <3>2, <3>4
    <3>7. QED
      BY <2>1, <3>1, <3>3, <3>4, <3>6
  <2>4. CASE ~(r.on /\ ~r.closed)
    <3>1. rsubs'[s] = r
      BY <2>1, <2>4, <1>6 DEF Offer
    <3>2. \A x \in 1 .. f : x \in 1 .. n
      BY <1>3
    <3>3. QED
      BY <2>1, <2>2, <2>4, <3>1, <3>2
  <2>5. QED
    BY <2>3, <2>4
<1>10. RedisTypes'
  <2>1. rsubs' \in [RSubs -> RSub]
    <3>1. \A s \in RSubs : rsubs'[s] \in RSub
      BY <1>9
    <3>2. rsubs' = [s \in RSubs |-> rsubs'[s]]
      BY <1>6
    <3>3. QED
      BY <3>1, <3>2
  <2>2. \A s \in RSubs : Len(rsubs'[s].items) <= RMaxSize
    BY <1>9
  <2>3. QED
    BY <2>1, <2>2, <1>4, <1>5 DEF RedisIInv, RedisTypes
<1>11. \A s \in RSubs : UpTo(s, n)'
  BY <1>9 DEF UpTo, Seen
<1>12. CursorInv'
  <2>1. \A s \in RSubs : UpTo(s, Len(entries))' /\ UpTo(s, pump.last)'
    BY <1>11, <1>2, <1>4, <1>5 DEF UpTo
  <2>2. /\ pump'.from <= Len(entries') /\ pump'.base <= Len(entries')
        /\ pump'.last \in 0 .. Len(entries')
    BY <1>2, <1>3, <1>4, <1>5 DEF RedisIInv, CursorInv
  <2>3. QED
    BY <2>1, <2>2, <1>5 DEF CursorInv
<1>13. OncePerEntryInOrder'
  BY <1>9 DEF OncePerEntryInOrder, Increasing
<1>14. PumpHasNoGap'
  <2> SUFFICES ASSUME NEW s \in RSubs, rsubs'[s].on /\ ~rsubs'[s].closed, MaxEntries <= MaxLen,
                      NEW i \in Max({rsubs'[s].since, pump.base}) + 1 .. n,
                      entries[i].wire = "v1", rsubs'[s].topic \in {"*", entries[i].type}
               PROVE  i \in ToSet(rsubs'[s].took \o rsubs'[s].items) \cup rsubs'[s].lost
    BY <1>4, <1>5 DEF PumpHasNoGap, Decodes, Matches
  <2>1. /\ rsubs[s].on /\ ~rsubs[s].closed /\ rsubs'[s].topic = rsubs[s].topic
        /\ rsubs'[s].since = rsubs[s].since /\ rsubs[s].since \in Int
    BY <1>1, <1>9 DEF RSub
  <2>2. PICK z \in Int, b \in Nat : z = rsubs[s].since /\ b = pump.base
    BY <2>1, <1>4
  <2>3. PICK m : m = Max({z, b})
    OBVIOUS
  <2>4. m = IF z <= b THEN b ELSE z
    BY <2>3, MaxOfTwo
  <2>5. i \in m + 1 .. n
    BY <2>1, <2>2, <2>3
  <2>6. i \in 1 .. n /\ b < i
    BY <2>4, <2>5
  <2>7. CASE i <= f
    <3>1. pump.last # Tail_ /\ pump.last = f
      BY <2>2, <2>6, <2>7, <1>4
    <3>2. i \in Max({rsubs[s].since, pump.base}) + 1 .. pump.last
      <4>1. i \in m + 1 .. f
        BY <2>4, <2>5, <2>7
      <4>2. QED
        BY <4>1, <3>1, <2>2, <2>3
    <3>3. i \in ToSet(rsubs[s].took \o rsubs[s].items) \cup rsubs[s].lost
      BY <2>1, <3>1, <3>2, <1>4 DEF RedisIInv, PumpHasNoGap, Decodes, Matches
    <3>4. QED
      BY <3>3, <1>9
  <2>8. CASE i > f
    <3>1. n <= MaxLen /\ MaxLen \in Nat
      BY <1>2, RedisAssumption DEF RedisIInv, RedisTypes
    <3>2. i \in Unread
      BY <2>6, <2>8, <3>1, <1>2, <1>3 DEF Unread, Retained
    <3>3. i \in batch(s)
      BY <3>2, <2>1 DEF batch, Decodes, Matches
    <3>4. QED
      BY <3>3, <2>1, <1>9
  <2>9. QED
    BY <2>6, <2>7, <2>8
<1>15. QED
  BY <1>10, <1>12, <1>13, <1>14 DEF RedisIInv

LEMMA RedisNextInv == RedisIInv /\ [RedisNext]_redisVars => RedisIInv'
<1> SUFFICES ASSUME RedisIInv, [RedisNext]_redisVars PROVE RedisIInv'
  OBVIOUS
<1>0. /\ pump \in Pump /\ Len(entries) \in Nat
      /\ pump.from <= Len(entries) /\ pump.base <= Len(entries)
      /\ pump.last # Tail_ => pump.last \in 0 .. Len(entries)
  BY DEF RedisIInv, RedisTypes, CursorInv
<1>1. ASSUME NEW e \in Entry, XAdd(e) PROVE RedisIInv'
  BY <1>1, XAddInv
<1>2. ASSUME NEW s \in RSubs, NEW t \in Types \cup {"*"}, RSubscribe(s, t) PROVE RedisIInv'
  BY <1>2, RSubscribeInv
<1>3. ASSUME NEW s \in RSubs, RTake(s) PROVE RedisIInv'
  BY <1>3, RTakeInv
<1>4. ASSUME NEW s \in RSubs, RClose(s) PROVE RedisIInv'
  <2>1. rsubs \in [RSubs -> RSub]
    BY DEF RedisIInv, RedisTypes
  <2>2. rsubs' = [x \in RSubs |-> IF x \in {s} THEN [rsubs[x] EXCEPT !.closed = TRUE] ELSE rsubs[x]]
    BY <1>4, <2>1 DEF RClose
  <2>3. UNCHANGED <<entries, pump>> /\ {s} \in SUBSET RSubs
    BY <1>4 DEF RClose
  <2>4. QED
    BY <2>2, <2>3, RClosingInv
<1>5. CASE PumpRead
  <2>1. UNCHANGED <<entries, rsubs>> /\ pump.pc = "loop"
    BY <1>5 DEF PumpRead
  <2>2. CASE pump' = [pump EXCEPT !.pc = "off"]
    <3>1. /\ pump' \in Pump /\ pump'.pc = "off" /\ pump'.last = pump.last
          /\ pump'.from = pump.from /\ pump'.base = pump.base
      BY <2>2, <1>0 DEF Pump
    <3>2. QED
      BY <2>1, <3>1, <1>0, PumpMovesInv
  <2>3. CASE pump.last = Tail_ /\ pump' = [pump EXCEPT !.pc = "xread", !.from = Len(entries), !.base = Len(entries)]
    <3>1. /\ pump' \in Pump /\ pump'.pc = "xread" /\ pump'.last = Tail_
          /\ pump'.from = Len(entries) /\ pump'.base = Len(entries)
      BY <2>3, <1>0 DEF Pump
    <3>2. Len(entries) <= Len(entries)
      BY <1>0
    <3>3. QED
      BY <2>1, <3>1, <3>2, <1>0, PumpMovesInv
  <2>4. CASE pump.last # Tail_ /\ pump' = [pump EXCEPT !.pc = "xread", !.from = pump.last]
    <3>0. pump.last \in Nat /\ pump.last <= Len(entries)
      BY <2>4, <1>0
    <3>1. /\ pump' \in Pump /\ pump'.pc = "xread" /\ pump'.last = pump.last
          /\ pump'.from = pump.last /\ pump'.base = pump.base
      BY <2>4, <3>0, <1>0 DEF Pump
    <3>2. pump'.last # Tail_ /\ pump.pc # "off"
      BY <2>1, <2>4, <3>1
    <3>3. QED
      BY <2>1, <3>0, <3>1, <3>2, <1>0, PumpMovesInv
  <2>5. QED
    BY <1>5, <2>2, <2>3, <2>4 DEF PumpRead
<1>6. CASE PumpEmpty
  <2>1. UNCHANGED <<entries, rsubs>> /\ pump.pc = "xread" /\ pump' = [pump EXCEPT !.pc = "loop"]
    BY <1>6 DEF PumpEmpty
  <2>2. /\ pump' \in Pump /\ pump'.pc = "loop" /\ pump'.last = pump.last
        /\ pump'.from = pump.from /\ pump'.base = pump.base
    BY <2>1, <1>0 DEF Pump
  <2>3. QED
    BY <2>1, <2>2, <1>0, PumpMovesInv
<1>7. CASE PumpFanOut
  BY <1>7, PumpFanOutInv
<1>8. CASE PumpCrash
  <2>1. UNCHANGED <<entries, rsubs>> /\ pump' = [pump EXCEPT !.pc = "off"]
    BY <1>8 DEF PumpCrash
  <2>2. /\ pump' \in Pump /\ pump'.pc = "off" /\ pump'.last = pump.last
        /\ pump'.from = pump.from /\ pump'.base = pump.base
    BY <2>1, <1>0 DEF Pump
  <2>3. QED
    BY <2>1, <2>2, <1>0, PumpMovesInv
<1>9. CASE CloseRedisBus
  <2> DEFINE S == {s \in RSubs : rsubs[s].on}
  <2>1. /\ UNCHANGED entries /\ pump' = [pump EXCEPT !.pc = "off"]
        /\ rsubs' = [s \in RSubs |-> IF s \in S THEN [rsubs[s] EXCEPT !.closed = TRUE] ELSE rsubs[s]]
    BY <1>9 DEF CloseRedisBus
  <2>2. S \in SUBSET RSubs
    OBVIOUS
  <2> HIDE DEF S
  <2>3. QED
    BY <2>1, <2>2, RClosingInv
<1>10. CASE UNCHANGED redisVars
  <2>1. UNCHANGED <<entries, rsubs, pump>>
    BY <1>10 DEF redisVars
  <2>2. QED
    BY <2>1 DEF RedisIInv, RedisTypes, CursorInv, UpTo, Seen, OncePerEntryInOrder, PumpHasNoGap,
                Decodes, Matches
<1>11. QED
  BY <1>1, <1>2, <1>3, <1>4, <1>5, <1>6, <1>7, <1>8, <1>9, <1>10 DEF RedisNext

(* For every number of subscribers, queue bound, stream bound and length   *)
(* of the stream: no queue outgrows its bound, every subscriber sees the   *)
(* entries in stream order and none twice, over crashes of the pump and    *)
(* restarts at "$", and, while nothing is trimmed, up to its cursor the    *)
(* pump skipped nothing that an open subscriber's topic matched.           *)
THEOREM RedisInvariant == RedisSpec => []RedisInv
<1>1. RedisIInv => RedisInv
  <2> SUFFICES ASSUME RedisIInv PROVE RedisInv
    OBVIOUS
  <2>1. /\ entries \in Seq(Entry) /\ Len(entries) <= MaxEntries /\ Len(entries) \in Nat
        /\ MaxEntries \in Nat
        /\ pump.pc \in {"off", "loop", "xread"} /\ pump.from \in Nat /\ pump.from <= Len(entries)
    BY RedisAssumption DEF RedisIInv, RedisTypes, CursorInv, Pump
  <2>2. pump.from \in 0 .. MaxEntries
    BY <2>1
  <2>3. ASSUME NEW s \in RSubs
        PROVE  /\ Len(rsubs[s].items) <= RMaxSize
               /\ ToSet(rsubs[s].items) \cup rsubs[s].lost \subseteq 1 .. Len(entries)
    <3>1. PICK a \in Seq(Nat), b \in Seq(Nat) : a = rsubs[s].took /\ b = rsubs[s].items
      BY DEF RedisIInv, RedisTypes, RSub
    <3>2. /\ \A i \in 1 .. Len(a \o b) : (a \o b)[i] \in 1 .. Len(entries)
          /\ rsubs[s].lost \subseteq 1 .. Len(entries)
      BY <3>1 DEF RedisIInv, CursorInv, UpTo, Seen
    <3>3. ASSUME NEW x \in ToSet(b) PROVE x \in 1 .. Len(entries)
      <4>1. PICK k \in 1 .. Len(b) : b[k] = x
        BY DEF ToSet
      <4>2. PICK la \in Nat, lb \in Nat : la = Len(a) /\ lb = Len(b)
        OBVIOUS
      <4>3. /\ Len(a \o b) = la + lb
            /\ \A i \in 1 .. la + lb : (a \o b)[i] = IF i <= la THEN a[i] ELSE b[i - la]
        BY <4>2, ConcatProperties
      <4>4. k + la \in 1 .. la + lb /\ ~(k + la <= la) /\ (k + la) - la = k
        BY <4>1, <4>2
      <4>5. (a \o b)[k + la] = x
        BY <4>1, <4>3, <4>4
      <4>6. QED
        BY <4>3, <4>4, <4>5, <3>2
    <3>4. QED
      BY <3>1, <3>2, <3>3 DEF RedisIInv, RedisTypes
  <2>4. QED
    BY <2>1, <2>2, <2>3 DEF RedisIInv, RedisInv, RedisTypeOK
<1>2. QED
  BY <1>1, RedisInitInv, RedisNextInv, PTL DEF RedisSpec

(***************************************************************************)
(* EventBus: publishers, the walk through a changing list, and streams     *)
(* that resume from a cursor.                                              *)
(***************************************************************************)

Iters     == {"none", "fresh", "running", "done"}
SubRec    == [items : Seq(Events), drained : BOOLEAN, closed : BOOLEAN, lost : SUBSET Events,
              dropped : Nat, durableDropped : Nat, iter : Iters]
EarlyPub  == [pc : {"frame", "persist", "walk"}, ev : Events]
WaitPub   == [pc : {"blocked", "woken"}, ev : Events, sub : Subs, list : Topics, at : Nat]
EventIds  == 1 .. MaxEvents
IdSets    == SUBSET EventIds
Cursors   == [kind : {"none", "durable", "frame", "uuid"}, n : Nat]
Fetched   == [id : EventIds, cursor : Cursors]
Following == {"replay", "backfill", "sending", "live"}
ClientRec == [pc : Following \cup {"idle", "closed"}, conn : 0 .. MaxOpens, cursor : Cursors,
              lastId : Cursors, pending : Seq(Fetched), seen : SUBSET EventIds, cut : SUBSET EventIds]

Bounded(r) == Len(r.items) <= MaxSize
HeldBy(r)  == ToSet(r.items) \cup r.lost

BusTypes ==
    /\ subs \in [Subs -> SubRec] /\ \A s \in Subs : Bounded(subs[s])
    /\ bucket \in [Topics -> Seq(Subs)]
    /\ pub \in [Publishers -> {Quiet} \cup EarlyPub \cup WaitPub]
    /\ rows \in Seq(Events) /\ frames \subseteq EventIds /\ count \in 0 .. MaxEvents
    /\ busClosed \in BOOLEAN
    /\ client \in [Clients -> ClientRec]

StoredIds == {rows[n].id : n \in 1 .. Len(rows)}
Active(p) == pub[p].pc # "idle"

(* An id names one event: two publishers never carry the same, one that    *)
(* has not written yet has written nothing, and the rows are the durable   *)
(* events.                                                                 *)
IdsInv ==
    /\ \A i \in StoredIds \cup frames : i <= count
    /\ \A p \in Publishers : Active(p) => pub[p].ev.id <= count
    /\ \A p, q \in Publishers : Active(p) /\ Active(q) /\ pub[p].ev.id = pub[q].ev.id => p = q
    /\ \A p \in Publishers :
         /\ pub[p].pc = "persist" => /\ pub[p].ev.kind = "durable"
                                     /\ pub[p].ev.id \notin StoredIds \cup frames
         /\ pub[p].pc = "frame" => /\ pub[p].ev.kind # "durable"
                                   /\ pub[p].ev.id \notin StoredIds \cup frames
         /\ Active(p) /\ pub[p].ev.kind # "durable" => pub[p].ev.id \notin StoredIds
         /\ Active(p) /\ pub[p].ev.kind = "durable" => pub[p].ev.id \notin frames

Registered(s) == \E j \in 1 .. Len(bucket["*"]) : bucket["*"][j] = s

InRest(t, i, s) == \/ \E j \in i .. Len(bucket[t]) : bucket[t][j] = s
                   \/ t = "class" /\ Registered(s)

(* Ahead, Accounted and StoredBeforeSeen again, in the terms the proofs    *)
(* use: positions of a list instead of the sequence that is left of it.    *)
Waits(p, s, i) ==
    /\ Active(p) /\ pub[p].ev.id = i
    /\ pub[p].pc \in {"blocked", "woken"} =>
          s = pub[p].sub \/ InRest(pub[p].list, pub[p].at + 1, s)

Held(s, i) == \E e \in HeldBy(subs[s]) : e.id = i

Jumped_(s, i) == \E e \in Events : e.id = i /\ <<s, e>> \in missed

Reckoned(c, i) ==
    \/ i \in client[c].seen \/ i \in client[c].cut
    \/ Held(Conn(c), i) \/ Jumped_(Conn(c), i)
    \/ \E p \in Publishers : Waits(p, Conn(c), i)

Pending(c, i) == \E k \in 1 .. Len(client[c].pending) : client[c].pending[k].id = i

Covered(c, i) == Reckoned(c, i) \/ Pending(c, i)

StoredInv ==
    /\ \A s \in Subs : \A e \in HeldBy(subs[s]) : e.kind = "durable" => e.id \in StoredIds
    /\ \A p \in Publishers : pub[p].pc \in {"walk", "blocked", "woken"} =>
          (pub[p].ev.kind = "durable" => pub[p].ev.id \in StoredIds)

(* A stream is registered from its opening to its end, and what it has to  *)
(* deliver is fetched or accounted for.                                    *)
Delivers(c) ==
    /\ client[c].cursor.kind = "durable" =>
         \A n \in client[c].cursor.n + 1 .. Len(rows) : Covered(c, rows[n].id)
    /\ client[c].cursor.kind = "frame" =>
         \A f \in frames : f > client[c].cursor.n /\ ~busClosed => Covered(c, f)

Follow(c) ==
    /\ client[c].pc \in {"idle", "live", "closed"} => client[c].pending = <<>>
    /\ client[c].pc \in Following =>
         /\ Conn(c) \in Conns /\ Registered(Conn(c))
         /\ client[c].pc = "replay" => client[c].cursor.kind = "durable"
         /\ client[c].pc = "backfill" => client[c].cursor.kind = "frame"
         /\ client[c].pc \in {"sending", "live"} => Delivers(c)

FollowInv == \A c \in Clients : Follow(c)

BusIInv == BusTypes /\ IdsInv /\ StoredInv /\ FollowInv

LEMMA PubShape ==
    ASSUME BusTypes, NEW p \in Publishers
    PROVE  /\ pub[p].pc \in {"idle", "frame", "persist", "walk", "blocked", "woken"}
           /\ pub[p].pc = "idle" => pub[p] = Quiet
           /\ pub[p].pc \in {"frame", "persist", "walk"} => pub[p] \in EarlyPub /\ pub[p].ev \in Events
           /\ pub[p].pc \in {"blocked", "woken"} =>
                /\ pub[p] \in WaitPub /\ pub[p].ev \in Events /\ pub[p].sub \in Subs
                /\ pub[p].list \in Topics /\ pub[p].at \in Nat
           /\ Active(p) => pub[p].ev \in Events /\ pub[p].ev.id \in EventIds /\ pub[p].ev.kind \in Kinds
<1>1. pub[p] \in {Quiet} \cup EarlyPub \cup WaitPub
  BY DEF BusTypes
<1>2. CASE pub[p] = Quiet
  BY <1>2 DEF Quiet, Active
<1>3. CASE pub[p] \in EarlyPub
  BY <1>3 DEF EarlyPub, Active, Events, EventIds
<1>4. CASE pub[p] \in WaitPub
  BY <1>4 DEF WaitPub, Active, Events, EventIds
<1>5. QED
  BY <1>1, <1>2, <1>3, <1>4

LEMMA BusInitInv == BusInit => BusIInv
<1> SUFFICES ASSUME BusInit PROVE BusIInv
  OBVIOUS
<1>1. Fresh \in SubRec /\ Fresh.items = <<>> /\ Fresh.lost = {} /\ Len(Fresh.items) = 0
  BY DEF Fresh, SubRec, Iters
<1>2. [pc |-> "idle", conn |-> 0, cursor |-> NoId, lastId |-> NoId,
       pending |-> <<>>, seen |-> {}, cut |-> {}] \in ClientRec
  <2>1. 0 \in 0 .. MaxOpens /\ NoId \in Cursors
    BY BusAssumption DEF NoId, Cursors
  <2>2. QED
    BY <2>1 DEF ClientRec
<1>3. /\ rows = <<>> /\ frames = {} /\ count = 0 /\ Len(rows) = 0
      /\ \A s \in Subs : subs[s] = Fresh
      /\ \A p \in Publishers : pub[p] = Quiet
      /\ \A c \in Clients : client[c].pc = "idle" /\ client[c].pending = <<>>
  BY DEF BusInit
<1>4. BusTypes
  <2>1. subs \in [Subs -> SubRec] /\ \A s \in Subs : Bounded(subs[s])
    <3>1. Bounded(Fresh)
      BY <1>1, BusAssumption DEF Bounded
    <3>2. QED
      BY <1>1, <1>3, <3>1 DEF BusInit
  <2>2. client \in [Clients -> ClientRec]
    BY <1>2 DEF BusInit
  <2>3. bucket \in [Topics -> Seq(Subs)] /\ pub \in [Publishers -> {Quiet} \cup EarlyPub \cup WaitPub]
    BY DEF BusInit
  <2>4. count \in 0 .. MaxEvents
    BY <1>3, BusAssumption
  <2>6. rows \in Seq(Events) /\ frames \subseteq EventIds
    BY <1>3
  <2>7. busClosed \in BOOLEAN
    BY Zenon DEF BusInit
  <2>5. QED
    BY <2>1, <2>2, <2>3, <2>4, <2>6, <2>7 DEF BusTypes
<1>5. StoredIds = {}
  BY <1>3 DEF StoredIds
<1>6. IdsInv
  BY <1>3, <1>5 DEF IdsInv, Active, Quiet
<1>7. StoredInv
  BY <1>1, <1>3 DEF StoredInv, HeldBy, ToSet, Quiet
<1>8. FollowInv
  BY <1>3 DEF FollowInv, Follow, Following
<1>9. QED
  BY <1>4, <1>6, <1>7, <1>8 DEF BusIInv

(* What one put does: the event is in the queue, and everything that was   *)
(* held stays held.                                                        *)
LEMMA PutIs ==
    ASSUME NEW r \in SubRec, Bounded(r), NEW e \in Events
    PROVE  /\ Put(r, e) \in SubRec /\ Bounded(Put(r, e))
           /\ HeldBy(Put(r, e)) = HeldBy(r) \cup {e}
<1>1. PICK q \in Seq(Events) : q = r.items
  BY DEF SubRec
<1>2. Len(q) \in Nat /\ MaxSize \in Nat \ {0} /\ Len(q) <= MaxSize
  BY <1>1, BusAssumption DEF Bounded
<1>3. CASE Len(q) >= MaxSize
  <2>1. q # <<>>
    BY <1>2, <1>3
  <2>2. /\ Head(q) \in Events /\ Head(q) = q[1] /\ Tail(q) \in Seq(Events) /\ Len(Tail(q)) = Len(q) - 1
        /\ \A i \in 1 .. Len(q) - 1 : Tail(q)[i] = q[i + 1]
    BY <1>2, <2>1, HeadTailProperties
  <2>3. PICK v : v = Append(Tail(q), e)
    OBVIOUS
  <2>4. /\ v \in Seq(Events) /\ Len(v) = Len(q) /\ v[Len(q)] = e
        /\ \A i \in 1 .. Len(q) - 1 : v[i] = q[i + 1]
    <3>1. PICK t \in Seq(Events) : t = Tail(q)
      BY <2>2
    <3>2. /\ v \in Seq(Events) /\ Len(v) = Len(t) + 1 /\ v[Len(t) + 1] = e
          /\ \A i \in 1 .. Len(t) : v[i] = t[i]
      BY <2>3, <3>1
    <3>3. QED
      BY <2>2, <3>1, <3>2, <1>2
  <2>5. Put(r, e) = [r EXCEPT !.items = v, !.dropped = @ + 1, !.lost = @ \cup {Head(q)}]
    BY <1>1, <1>3, <2>3 DEF Put
  <2>6. /\ Put(r, e) \in SubRec /\ Put(r, e).items = v /\ Put(r, e).lost = r.lost \cup {q[1]}
    <3>1. PICK r1 : r1 = [r EXCEPT !.items = v]
      OBVIOUS
    <3>2. r1 \in SubRec /\ r1.items = v /\ r1.lost = r.lost
      BY <3>1, <2>4 DEF SubRec
    <3>10. PICK d \in Nat : d = r1.dropped + 1
      <4>1. r1.dropped \in Nat
        BY <3>2 DEF SubRec
      <4>2. QED
        BY <4>1
    <3>3. PICK r2 : r2 = [r1 EXCEPT !.dropped = d]
      OBVIOUS
    <3>4. r2 \in SubRec /\ r2.items = v /\ r2.lost = r.lost
      BY <3>2, <3>3 DEF SubRec
    <3>5. PICK r3 : r3 = [r2 EXCEPT !.lost = @ \cup {q[1]}]
      OBVIOUS
    <3>6. q[1] \in Events
      BY <2>2
    <3>7. r3 \in SubRec /\ r3.items = v /\ r3.lost = r.lost \cup {q[1]}
      BY <3>4, <3>5, <3>6 DEF SubRec
    <3>8. Put(r, e) = r3
      BY <2>2, <2>5, <3>1, <3>3, <3>5, <3>10, <3>2 DEF SubRec
    <3>9. QED
      BY <3>7, <3>8
  <2>7. ToSet(v) \cup {q[1]} = ToSet(q) \cup {e}
    <3>1. ToSet(v) = {v[i] : i \in 1 .. Len(q)} /\ ToSet(q) = {q[i] : i \in 1 .. Len(q)}
      BY <2>4, SMTT(30) DEF ToSet
    <3>2. ASSUME NEW x \in ToSet(v) PROVE x \in ToSet(q) \cup {e}
      <4>1. PICK i \in 1 .. Len(q) : v[i] = x
        BY <3>1
      <4>2. CASE i = Len(q)
        BY <4>1, <4>2, <2>4
      <4>3. CASE i # Len(q)
        <5>1. i \in 1 .. Len(q) - 1 /\ i + 1 \in 1 .. Len(q)
          BY <4>3, <1>2
        <5>2. QED
          BY <5>1, <4>1, <2>4, <3>1
      <4>4. QED
        BY <4>2, <4>3
    <3>3. ASSUME NEW x \in ToSet(q) PROVE x \in ToSet(v) \cup {q[1]}
      <4>1. PICK i \in 1 .. Len(q) : q[i] = x
        BY <3>1
      <4>2. CASE i = 1
        BY <4>1, <4>2
      <4>3. CASE i # 1
        <5>1. i - 1 \in 1 .. Len(q) - 1 /\ i - 1 \in 1 .. Len(q) /\ (i - 1) + 1 = i
          BY <4>3, <1>2
        <5>2. QED
          BY <5>1, <4>1, <2>4, <3>1
      <4>4. QED
        BY <4>2, <4>3
    <3>4. e \in ToSet(v) /\ q[1] \in ToSet(q)
      <4>1. 1 \in 1 .. Len(q) /\ Len(q) \in 1 .. Len(q)
        BY <1>2, <1>3
      <4>2. QED
        BY <4>1, <3>1, <2>4
    <3>5. QED
      BY <3>2, <3>3, <3>4
  <2>8. QED
    BY <1>1, <1>2, <2>4, <2>6, <2>7 DEF HeldBy, Bounded
<1>4. CASE Len(q) < MaxSize
  <2>1. PICK v : v = Append(q, e)
    OBVIOUS
  <2>2. /\ v \in Seq(Events) /\ Len(v) = Len(q) + 1 /\ v[Len(q) + 1] = e
        /\ \A i \in 1 .. Len(q) : v[i] = q[i]
    BY <2>1
  <2>3. ~(Len(q) >= MaxSize)
    BY <1>2, <1>4
  <2>4. Put(r, e) = [r EXCEPT !.items = v]
    BY <1>1, <2>1, <2>3 DEF Put
  <2>5. Put(r, e) \in SubRec /\ Put(r, e).items = v /\ Put(r, e).lost = r.lost
    BY <2>2, <2>4 DEF SubRec
  <2>6. ToSet(v) = ToSet(q) \cup {e}
    <3>1. ToSet(v) = {v[i] : i \in 1 .. Len(q) + 1} /\ ToSet(q) = {q[i] : i \in 1 .. Len(q)}
      BY <2>2 DEF ToSet
    <3>2. \A i \in 1 .. Len(q) + 1 : i \in 1 .. Len(q) \/ i = Len(q) + 1
      BY <1>2
    <3>3. Len(q) + 1 \in 1 .. Len(q) + 1 /\ \A i \in 1 .. Len(q) : i \in 1 .. Len(q) + 1
      BY <1>2
    <3>4. QED
      BY <3>1, <3>2, <3>3, <2>2
  <2>7. Len(v) <= MaxSize
    BY <1>2, <1>4, <2>2
  <2>8. QED
    BY <1>1, <2>5, <2>6, <2>7 DEF HeldBy, Bounded
<1>5. QED
  BY <1>2, <1>3, <1>4

(* What is left of a walk: the entries of its list from an index on, and   *)
(* all of "*" when the list is the class's.                                *)
LEMMA RestIs ==
    ASSUME bucket \in [Topics -> Seq(Subs)], NEW t \in Topics, NEW i \in Nat \ {0}
    PROVE  \E m \in Nat : 
             /\ m = Len(SubSeq(bucket[t], i, Len(bucket[t])))
             /\ m = IF i <= Len(bucket[t]) THEN Len(bucket[t]) - i + 1 ELSE 0
             /\ Rest(t, i) \in Seq(Subs)
             /\ Len(Rest(t, i)) = m + IF t = "class" THEN Len(bucket["*"]) ELSE 0
             /\ \A k \in 1 .. m : Rest(t, i)[k] = bucket[t][i + k - 1]
             /\ t = "class" => \A k \in 1 .. Len(bucket["*"]) : Rest(t, i)[m + k] = bucket["*"][k]
<1>1. PICK b \in Seq(Subs) : b = bucket[t]
  OBVIOUS
<1>2. PICK w \in Seq(Subs) : w = IF t = "class" THEN bucket["*"] ELSE <<>>
  <2>1. bucket["*"] \in Seq(Subs)
    BY DEF Topics
  <2>2. <<>> \in Seq(Subs)
    OBVIOUS
  <2>3. (IF t = "class" THEN bucket["*"] ELSE <<>>) \in Seq(Subs)
    BY <2>1, <2>2
  <2>4. QED
    BY <2>3
<1>3. PICK l \in Nat : l = Len(b)
  OBVIOUS
<1>4. PICK a : a = SubSeq(b, i, l)
  OBVIOUS
<1>5. \A j \in i .. l : b[j] \in Subs
  BY <1>3
<1>6. /\ a \in Seq(Subs) /\ Len(a) = IF i <= l THEN l - i + 1 ELSE 0
      /\ \A j \in 1 .. l - i + 1 : a[j] = b[i + j - 1]
  BY <1>4, <1>5, SubSeqProperties
<1>7. PICK m \in Nat : m = Len(a)
  <2>1. a \in Seq(Subs)
    BY <1>6
  <2>2. QED
    BY <2>1
<1>8. PICK z \in Nat : z = Len(w)
  OBVIOUS
<1>9. PICK r : r = a \o w
  OBVIOUS
<1>10. /\ r \in Seq(Subs) /\ Len(r) = m + z
       /\ \A j \in 1 .. m + z : r[j] = IF j <= m THEN a[j] ELSE w[j - m]
  BY <1>6, <1>7, <1>8, <1>9, ConcatProperties
<1>11. ASSUME NEW k \in 1 .. m PROVE r[k] = b[i + k - 1]
  <2>1. m = IF i <= l THEN l - i + 1 ELSE 0
    BY <1>6, <1>7
  <2>2. k \in 1 .. l - i + 1 /\ k \in 1 .. m + z /\ k <= m
    BY <2>1
  <2>3. QED
    BY <2>2, <1>6, <1>10
<1>12. ASSUME NEW k \in 1 .. z PROVE r[m + k] = w[k]
  <2>1. m + k \in 1 .. m + z /\ ~(m + k <= m) /\ (m + k) - m = k
    OBVIOUS
  <2>2. QED
    BY <2>1, <1>10
<1>13. Rest(t, i) = r
  BY <1>1, <1>2, <1>3, <1>4, <1>9 DEF Rest
<1>14. z = IF t = "class" THEN Len(bucket["*"]) ELSE 0
  BY <1>2, <1>8
<1>15. t = "class" => w = bucket["*"] /\ z = Len(bucket["*"])
  BY <1>2, <1>14
<1>16. m = Len(SubSeq(bucket[t], i, Len(bucket[t])))
  BY <1>1, <1>3, <1>4, <1>7
<1>17. m = IF i <= Len(bucket[t]) THEN Len(bucket[t]) - i + 1 ELSE 0
  BY <1>1, <1>3, <1>6, <1>7
<1>18. t = "class" => \A k \in 1 .. Len(bucket["*"]) : r[m + k] = bucket["*"][k]
  BY <1>12, <1>15
<1>19. \A k \in 1 .. m : r[k] = bucket[t][i + k - 1]
  BY <1>1, <1>11
<1>20. Len(r) = m + IF t = "class" THEN Len(bucket["*"]) ELSE 0
  BY <1>10, <1>14
<1>21. QED
  BY <1>10, <1>13, <1>16, <1>17, <1>18, <1>19, <1>20

LEMMA RestContains ==
    ASSUME bucket \in [Topics -> Seq(Subs)], NEW t \in Topics, NEW i \in Nat \ {0}, NEW s
    PROVE  Contains(Rest(t, i), s) <=> InRest(t, i, s)
<1>1. PICK m \in Nat :
             /\ m = IF i <= Len(bucket[t]) THEN Len(bucket[t]) - i + 1 ELSE 0
             /\ Rest(t, i) \in Seq(Subs)
             /\ Len(Rest(t, i)) = m + IF t = "class" THEN Len(bucket["*"]) ELSE 0
             /\ \A k \in 1 .. m : Rest(t, i)[k] = bucket[t][i + k - 1]
             /\ t = "class" => \A k \in 1 .. Len(bucket["*"]) : Rest(t, i)[m + k] = bucket["*"][k]
  BY RestIs
<1>2. PICK r : r = Rest(t, i)
  OBVIOUS
<1>3. PICK l \in Nat : l = Len(bucket[t])
  OBVIOUS
<1>4. PICK z \in Nat : z = Len(bucket["*"])
  BY DEF Topics
<1>5. Len(r) = m + IF t = "class" THEN z ELSE 0
  BY <1>1, <1>2, <1>4
<1>6. m = IF i <= l THEN l - i + 1 ELSE 0
  BY <1>1, <1>3
<1>7. \A k \in 1 .. m : r[k] = bucket[t][i + k - 1]
  BY <1>1, <1>2
<1>8. t = "class" => \A k \in 1 .. z : r[m + k] = bucket["*"][k]
  BY <1>1, <1>2, <1>4
<1>9. ASSUME NEW k \in 1 .. Len(r), r[k] = s PROVE InRest(t, i, s)
  <2>1. CASE k <= m
    <3>1. k \in 1 .. m /\ i + k - 1 \in i .. l
      BY <2>1, <1>5, <1>6
    <3>2. QED
      BY <3>1, <1>3, <1>7, <1>9 DEF InRest
  <2>2. CASE ~(k <= m)
    <3>1. t = "class" /\ k - m \in 1 .. z /\ m + (k - m) = k
      BY <2>2, <1>5
    <3>2. bucket["*"][k - m] = s
      BY <3>1, <1>8, <1>9
    <3>3. QED
      BY <3>1, <3>2, <1>4 DEF InRest, Registered
  <2>3. QED
    BY <2>1, <2>2
<1>10. ASSUME InRest(t, i, s) PROVE \E k \in 1 .. Len(r) : r[k] = s
  <2>1. CASE \E j \in i .. Len(bucket[t]) : bucket[t][j] = s
    <3>1. PICK j \in i .. l : bucket[t][j] = s
      BY <2>1, <1>3
    <3>2. j - i + 1 \in 1 .. m /\ i + (j - i + 1) - 1 = j /\ j - i + 1 \in 1 .. Len(r)
      BY <1>5, <1>6
    <3>3. QED
      BY <3>1, <3>2, <1>7
  <2>2. CASE t = "class" /\ Registered(s)
    <3>1. PICK j \in 1 .. z : bucket["*"][j] = s
      BY <2>2, <1>4 DEF Registered
    <3>2. m + j \in 1 .. Len(r)
      BY <2>2, <1>5
    <3>3. QED
      BY <2>2, <3>1, <3>2, <1>8
  <2>3. QED
    BY <1>10, <2>1, <2>2 DEF InRest
<1>11. QED
  BY <1>2, <1>9, <1>10 DEF Contains

LEMMA StopIs ==
    ASSUME NEW t, NEW i, NEW e, Rest(t, i) \in Seq(Subs)
    PROVE  StopAt(t, i, e) \in 1 .. Len(Rest(t, i)) + 1
<1>1. PICK r \in Seq(Subs) : r = Rest(t, i)
  OBVIOUS
<1>2. PICK l \in Nat : l = Len(r)
  OBVIOUS
<1>3. PICK S : S = {k \in 1 .. l : e.kind = "durable" /\ Full(r[k])}
  OBVIOUS
<1>4. StopAt(t, i, e) = IF S = {} THEN l + 1 ELSE CHOOSE k \in S : \A j \in S : k <= j
  BY <1>1, <1>2, <1>3 DEF StopAt
<1>5. S \in SUBSET Nat /\ \A k \in S : k \in 1 .. l
  BY <1>3
<1>6. ASSUME S # {} PROVE StopAt(t, i, e) \in 1 .. l
  <2>1. \E k \in S : \A j \in S : k <= j
    BY <1>5, <1>6, LeastNumber
  <2>2. (CHOOSE k \in S : \A j \in S : k <= j) \in S
    BY <2>1
  <2>3. QED
    BY <1>4, <1>5, <1>6, <2>2
<1>7. S = {} => StopAt(t, i, e) = l + 1
  BY <1>4
<1>8. l + 1 \in 1 .. l + 1 /\ \A k \in 1 .. l : k \in 1 .. l + 1
  OBVIOUS
<1>9. QED
  BY <1>1, <1>2, <1>6, <1>7, <1>8

(* What one fan-out does: every subscription left in the walk has the      *)
(* event, or the publisher is now held up at it or in front of it.         *)
Dispatched(p, t, i, e, before) ==
    /\ subs' \in [Subs -> SubRec]
    /\ \A s \in Subs : /\ Bounded(subs'[s])
                        /\ HeldBy(before[s]) \subseteq HeldBy(subs'[s])
                        /\ HeldBy(subs'[s]) \subseteq HeldBy(before[s]) \cup {e}
    /\ \E v : /\ pub' = [pub EXCEPT ![p] = v]
              /\ v = Quiet \/ (v \in WaitPub /\ v.ev = e /\ v.pc = "blocked")
              /\ \A s \in Subs : InRest(t, i, s) =>
                   \/ e \in HeldBy(subs'[s])
                   \/ v # Quiet /\ (s = v.sub \/ InRest(v.list, v.at + 1, s))

LEMMA DispatchIs ==
    ASSUME BusTypes, NEW p \in Publishers, NEW t \in Topics, NEW i \in Nat \ {0}, NEW e \in Events,
           NEW before \in [Subs -> SubRec], \A s \in Subs : Bounded(before[s]),
           Dispatch(p, t, i, e, before)
    PROVE  Dispatched(p, t, i, e, before)
<1>1. bucket \in [Topics -> Seq(Subs)] /\ bucket[t] \in Seq(Subs) /\ bucket["*"] \in Seq(Subs)
  BY DEF BusTypes, Topics
<1>2. PICK m \in Nat :
             /\ m = Len(SubSeq(bucket[t], i, Len(bucket[t])))
             /\ m = IF i <= Len(bucket[t]) THEN Len(bucket[t]) - i + 1 ELSE 0
             /\ Rest(t, i) \in Seq(Subs)
             /\ Len(Rest(t, i)) = m + IF t = "class" THEN Len(bucket["*"]) ELSE 0
             /\ \A k \in 1 .. m : Rest(t, i)[k] = bucket[t][i + k - 1]
             /\ t = "class" => \A k \in 1 .. Len(bucket["*"]) : Rest(t, i)[m + k] = bucket["*"][k]
  BY <1>1, RestIs
<1>3. PICK r \in Seq(Subs) : r = Rest(t, i)
  BY <1>2
<1>4. PICK l \in Nat : l = Len(r)
  OBVIOUS
<1>5. PICK stop \in 1 .. l + 1 : stop = StopAt(t, i, e)
  BY <1>3, <1>4, StopIs
<1>6. PICK reached : reached = {r[k] : k \in 1 .. stop - 1}
  OBVIOUS
<1>7. PICK given : given = [s \in Subs |-> IF s \in reached THEN Put(before[s], e) ELSE before[s]]
  OBVIOUS
<1>8. PICK v : v = IF stop = l + 1 THEN Quiet
                   ELSE [pc |-> "blocked", ev |-> e, sub |-> r[stop],
                         list |-> IF stop <= m THEN t ELSE "*",
                         at |-> IF stop <= m THEN i + stop - 1 ELSE stop - m]
  OBVIOUS
<1>9. /\ subs' = IF stop = l + 1 THEN given ELSE [given EXCEPT ![r[stop]].drained = FALSE]
      /\ pub' = [pub EXCEPT ![p] = v]
  <2>1. CASE stop = l + 1
    BY <1>2, <1>3, <1>4, <1>5, <1>6, <1>7, <1>8, <2>1 DEF Dispatch
  <2>2. CASE stop # l + 1
    <3>1. /\ subs' = [given EXCEPT ![r[stop]].drained = FALSE]
          /\ pub' = [pub EXCEPT ![p] =
                   [pc |-> "blocked", ev |-> e, sub |-> r[stop],
                    list |-> IF stop <= m THEN t ELSE "*",
                    at |-> IF stop <= m THEN i + stop - 1 ELSE stop - m]]
      <4>1. Rest(t, i) = r /\ StopAt(t, i, e) = stop /\ Len(r) = l
        BY <1>3, <1>4, <1>5
      <4>2. Len(SubSeq(bucket[t], i, Len(bucket[t]))) = m
        BY <1>2
      <4>3. {r[k] : k \in 1 .. stop - 1} = reached
        BY <1>6
      <4>4. [s \in Subs |-> IF s \in reached THEN Put(before[s], e) ELSE before[s]] = given
        BY <1>7
      <4>5. StopAt(t, i, e) # Len(Rest(t, i)) + 1
        BY <4>1, <2>2
      <4>6. /\ subs' = [[s \in Subs |-> IF s \in {Rest(t, i)[k] : k \in 1 .. StopAt(t, i, e) - 1}
                                        THEN Put(before[s], e) ELSE before[s]]
                         EXCEPT ![Rest(t, i)[StopAt(t, i, e)]].drained = FALSE]
            /\ pub' = [pub EXCEPT ![p] =
                   [pc |-> "blocked", ev |-> e, sub |-> Rest(t, i)[StopAt(t, i, e)],
                    list |-> IF StopAt(t, i, e) <= Len(SubSeq(bucket[t], i, Len(bucket[t]))) THEN t ELSE "*",
                    at |-> IF StopAt(t, i, e) <= Len(SubSeq(bucket[t], i, Len(bucket[t])))
                           THEN i + StopAt(t, i, e) - 1
                           ELSE StopAt(t, i, e) - Len(SubSeq(bucket[t], i, Len(bucket[t])))]]
        BY ONLY <4>5, Dispatch(p, t, i, e, before) DEF Dispatch
      <4>7. QED
        BY <4>1, <4>2, <4>3, <4>4, <4>6
    <3>2. QED
      BY <1>8, <2>2, <3>1
  <2>3. QED
    BY <2>1, <2>2
<1>10. ASSUME NEW s \in Subs
       PROVE  /\ given[s] \in SubRec /\ Bounded(given[s])
              /\ HeldBy(before[s]) \subseteq HeldBy(given[s])
              /\ HeldBy(given[s]) \subseteq HeldBy(before[s]) \cup {e}
              /\ s \in reached => e \in HeldBy(given[s])
  <2>1. PICK b \in SubRec : b = before[s]
    OBVIOUS
  <2>2. Bounded(b)
    BY <2>1
  <2>3. Put(b, e) \in SubRec /\ Bounded(Put(b, e)) /\ HeldBy(Put(b, e)) = HeldBy(b) \cup {e}
    BY <2>2, PutIs
  <2>4. CASE s \in reached
    BY <1>7, <2>1, <2>3, <2>4
  <2>5. CASE s \notin reached
    BY <1>7, <2>1, <2>2, <2>5
  <2>6. QED
    BY <2>4, <2>5
<1>17. given \in [Subs -> SubRec]
  <2>1. \A s \in Subs : given[s] \in SubRec
    BY <1>10
  <2>2. QED
    BY <1>7, <2>1
<1>11. \A k \in 1 .. l : r[k] \in Subs
  BY <1>4
<1>12. ASSUME NEW s \in Subs
       PROVE  subs'[s] \in SubRec /\ Bounded(subs'[s]) /\ HeldBy(subs'[s]) = HeldBy(given[s])
  <2>1. CASE stop = l + 1
    BY <1>9, <1>10, <2>1
  <2>2. CASE stop # l + 1
    <3>1. PICK z \in Subs : z = r[stop]
      BY <1>11, <2>2
    <3>2. subs' = [given EXCEPT ![z] = [given[z] EXCEPT !.drained = FALSE]]
      BY <1>9, <2>2, <3>1
    <3>3. PICK g \in SubRec : g = given[s]
      BY <1>10
    <3>4. PICK h : h = [g EXCEPT !.drained = FALSE]
      OBVIOUS
    <3>5. h \in SubRec /\ h.items = g.items /\ h.lost = g.lost
      BY <3>4 DEF SubRec
    <3>6. HeldBy(h) = HeldBy(g) /\ (Bounded(g) => Bounded(h))
      BY <3>5 DEF HeldBy, Bounded
    <3>7. subs'[s] = h \/ subs'[s] = g
      BY <3>2, <3>3, <3>4, <1>17
    <3>8. Bounded(g)
      BY <1>10, <3>3
    <3>9. QED
      BY <3>3, <3>5, <3>6, <3>7, <3>8
  <2>3. QED
    BY <2>1, <2>2
<1>18. subs' \in [Subs -> SubRec]
  <2>1. \A s \in Subs : subs'[s] \in SubRec
    BY <1>12
  <2>2. subs' = [s \in Subs |-> subs'[s]]
    BY <1>9, <1>17
  <2>3. QED
    BY <2>1, <2>2
<1>13. v = Quiet \/ (v \in WaitPub /\ v.ev = e /\ v.pc = "blocked")
  <2>1. CASE stop = l + 1
    BY <1>8, <2>1
  <2>2. CASE stop # l + 1
    <3>1. r[stop] \in Subs
      BY <1>11, <2>2
    <3>2. (IF stop <= m THEN i + stop - 1 ELSE stop - m) \in Nat
      OBVIOUS
    <3>3. (IF stop <= m THEN t ELSE "*") \in Topics
      BY DEF Topics
    <3>4. QED
      BY <1>8, <2>2, <3>1, <3>2, <3>3 DEF WaitPub
  <2>3. QED
    BY <2>1, <2>2
<1>14. ASSUME NEW s \in Subs, InRest(t, i, s), e \notin HeldBy(subs'[s])
       PROVE  v # Quiet /\ (s = v.sub \/ InRest(v.list, v.at + 1, s))
  <2>1. PICK k \in 1 .. l : r[k] = s
    <3>1. Contains(Rest(t, i), s)
      BY <1>1, <1>14, RestContains
    <3>2. \E k \in 1 .. Len(Rest(t, i)) : Rest(t, i)[k] = s
      BY <3>1, Zenon DEF Contains
    <3>3. QED
      BY <1>3, <1>4, <3>2
  <2>2. ~(k < stop)
    <3>1. s \notin reached
      BY <1>10, <1>12, <1>14
    <3>2. QED
      BY <1>6, <2>1, <3>1
  <2>3. stop \in 1 .. l /\ stop # l + 1 /\ stop <= k
    BY <2>2
  <2>4. /\ v.pc = "blocked" /\ v.sub = r[stop]
        /\ v.list = IF stop <= m THEN t ELSE "*"
        /\ v.at = IF stop <= m THEN i + stop - 1 ELSE stop - m
    BY <1>8, <2>3
  <2>5. v # Quiet
    BY <2>4 DEF Quiet
  <2>6. CASE k = stop
    BY <2>1, <2>4, <2>5, <2>6
  <2>7. CASE k > stop /\ k <= m
    <3>1. v.list = t /\ v.at = i + stop - 1
      BY <2>4, <2>7
    <3>2. PICK n \in Nat : n = Len(bucket[t])
      BY <1>1
    <3>3. m = IF i <= n THEN n - i + 1 ELSE 0
      BY <1>2, <3>2
    <3>4. k \in 1 .. m /\ i + k - 1 \in v.at + 1 .. n
      BY <2>7, <3>1, <3>3
    <3>5. bucket[t][i + k - 1] = s
      BY <1>2, <1>3, <2>1, <3>4
    <3>6. QED
      BY <2>5, <3>1, <3>2, <3>4, <3>5 DEF InRest
  <2>8. CASE k > m
    <3>1. PICK n \in Nat : n = Len(bucket["*"])
      BY <1>1
    <3>2. l = m + IF t = "class" THEN n ELSE 0
      BY <1>2, <1>3, <1>4, <3>1
    <3>3. t = "class" /\ k - m \in 1 .. n /\ m + (k - m) = k
      BY <2>8, <3>2
    <3>4. bucket["*"][k - m] = s
      BY <1>2, <1>3, <2>1, <3>1, <3>3
    <3>5. CASE stop <= m
      <4>1. v.list = "class" /\ Registered(s)
        BY <2>4, <3>1, <3>3, <3>4, <3>5 DEF Registered
      <4>2. QED
        BY <2>5, <4>1 DEF InRest
    <3>6. CASE ~(stop <= m) /\ k > stop
      <4>1. v.list = "*" /\ v.at = stop - m
        BY <2>4, <3>6
      <4>2. k - m \in v.at + 1 .. n
        BY <3>3, <3>6, <4>1
      <4>3. QED
        BY <2>5, <3>1, <3>4, <4>1, <4>2 DEF InRest
    <3>7. QED
      BY <2>3, <2>6, <3>5, <3>6
  <2>9. QED
    BY <2>3, <2>6, <2>7, <2>8
<1>15. ASSUME NEW s \in Subs
       PROVE  /\ HeldBy(before[s]) \subseteq HeldBy(subs'[s])
              /\ HeldBy(subs'[s]) \subseteq HeldBy(before[s]) \cup {e}
  BY <1>10, <1>12
<1>16. QED
  BY <1>9, <1>12, <1>13, <1>14, <1>15, <1>18 DEF Dispatched

(* What a stream was promised stays reckoned with, when nothing it was     *)
(* sent, missed or queued is forgotten and a publisher on its way to it    *)
(* stays on its way or arrives.                                            *)
LEMMA ReckonedKept ==
    ASSUME NEW c, NEW i, NEW s, Conn(c) = s, Conn(c)' = s,
           client[c].seen \subseteq client'[c].seen, client[c].cut \subseteq client'[c].cut,
           missed \subseteq missed',
           Held(s, i) => Held(s, i)' \/ i \in client'[c].seen,
           \A p \in Publishers : Waits(p, s, i) =>
               (\E q \in Publishers : Waits(q, s, i)') \/ Held(s, i)' \/ Jumped_(s, i)',
           Reckoned(c, i)
    PROVE  Reckoned(c, i)'
<1>1. Reckoned(c, i)' <=> \/ i \in client'[c].seen \/ i \in client'[c].cut
                          \/ Held(s, i)' \/ Jumped_(s, i)'
                          \/ \E p \in Publishers : Waits(p, s, i)'
  BY DEF Reckoned
<1>2. Jumped_(s, i) => Jumped_(s, i)'
  BY DEF Jumped_
<1>3. \/ i \in client[c].seen \/ i \in client[c].cut \/ Held(s, i) \/ Jumped_(s, i)
      \/ \E p \in Publishers : Waits(p, s, i)
  BY DEF Reckoned
<1>4. QED
  BY <1>1, <1>2, <1>3

(* What a step may not forget: the rows, and the frames while the bus is   *)
(* open.                                                                   *)
Needed(i) == i \in StoredIds \/ (i \in frames /\ ~busClosed')

(* A client that keeps its place keeps what it follows.                    *)
LEMMA FollowKept ==
    ASSUME NEW c \in Clients, Follow(c), BusTypes, rows' \in Seq(Events),
           client'[c].pc = client[c].pc, client'[c].conn = client[c].conn,
           client'[c].cursor = client[c].cursor, client'[c].pending = client[c].pending,
           client[c].pc \in Following => (Registered(Conn(c)) => Registered(Conn(c))'),
           busClosed => busClosed', Len(rows) <= Len(rows'),
           \A n \in 1 .. Len(rows) : rows'[n] = rows[n],
           client[c].pc \in {"sending", "live"} =>
             /\ \A i : Needed(i) => (Reckoned(c, i) => Reckoned(c, i)')
             /\ \A n \in Len(rows) + 1 .. Len(rows') : \A i : rows'[n].id = i => Reckoned(c, i)'
             /\ \A f \in frames' \ frames : Reckoned(c, f)'
    PROVE  Follow(c)'
<1>0. SUFFICES ASSUME client[c].pc \in Following
               PROVE  Follow(c)'
  BY DEF Follow
<1>1. Conn(c)' = Conn(c)
  BY DEF Conn
<1>2. PICK q \in Seq(Fetched) : q = client[c].pending
  BY DEF BusTypes, ClientRec
<1>3. \A i : Pending(c, i) <=> \E k \in 1 .. Len(q) : q[k].id = i
  BY <1>2 DEF Pending
<1>4. \A i : Pending(c, i)' <=> \E k \in 1 .. Len(q) : q[k].id = i
  BY <1>2 DEF Pending
<1>5. PICK l \in Nat, m \in Nat : l = Len(rows) /\ m = Len(rows')
  BY DEF BusTypes
<1>6. PICK x \in Nat : x = client[c].cursor.n
  BY DEF BusTypes, ClientRec, Cursors
<1>7. ASSUME client[c].pc \in {"sending", "live"} PROVE Delivers(c)'
  <2>0. \A i : Needed(i) => (Covered(c, i) => Covered(c, i)')
    BY <1>3, <1>4, <1>7 DEF Covered
  <2>1. Delivers(c)
    BY <1>7 DEF Follow, Following
  <2>2. ASSUME client[c].cursor.kind = "durable", NEW n \in x + 1 .. m,
               NEW i, rows'[n].id = i
        PROVE  Covered(c, i)'
    <3>1. CASE n <= l
      <4>1. n \in 1 .. l /\ n \in x + 1 .. l
        BY <3>1
      <4>2. Covered(c, rows[n].id) /\ rows'[n] = rows[n]
        BY <4>1, <1>5, <1>6, <2>1, <2>2 DEF Delivers
      <4>4. Covered(c, i)
        BY <4>2, <2>2
      <4>5. Needed(i)
        BY <4>1, <4>2, <1>5, <2>2 DEF Needed, StoredIds
      <4>3. QED
        BY <4>4, <4>5, <2>0
    <3>2. CASE ~(n <= l)
      <4>1. n \in l + 1 .. m
        BY <3>2
      <4>2. QED
        BY <4>1, <1>5, <1>7, <2>2 DEF Covered
    <3>3. QED
      BY <3>1, <3>2
  <2>3. ASSUME client[c].cursor.kind = "frame", NEW f \in frames', f > x, ~busClosed' PROVE Covered(c, f)'
    <3>1. CASE f \in frames
      <4>1. Covered(c, f)
        BY <3>1, <1>6, <2>1, <2>3 DEF Delivers
      <4>3. Needed(f)
        BY <3>1, <2>3 DEF Needed
      <4>2. QED
        BY <4>1, <4>3, <2>0
    <3>2. CASE f \notin frames
      BY <3>2, <1>7 DEF Covered
    <3>3. QED
      BY <3>1, <3>2
  <2>4. client'[c].cursor.kind = "durable" =>
            \A n \in client'[c].cursor.n + 1 .. Len(rows') : Covered(c, rows[n].id)'
    <3>1. ASSUME client'[c].cursor.kind = "durable", NEW n \in x + 1 .. m PROVE Covered(c, rows[n].id)'
      <4>1. PICK i : i = rows'[n].id
        OBVIOUS
      <4>2. Covered(c, i)'
        BY <3>1, <4>1, <2>2
      <4>3. QED
        BY <4>1, <4>2
    <3>2. QED
      BY <3>1, <1>5, <1>6
  <2>5. client'[c].cursor.kind = "frame" =>
            \A f \in frames' : f > client'[c].cursor.n /\ ~busClosed' => Covered(c, f)'
    BY <2>3, <1>6
  <2>6. QED
    BY <2>4, <2>5 DEF Delivers
<1>8. QED
  BY <1>0, <1>1, <1>2, <1>7 DEF Follow

LEMMA FollowUnmoved ==
    ASSUME BusTypes, NEW c \in Clients, Follow(c), NEW s, Conn(c) = s, client'[c] = client[c],
           rows' \in Seq(Events), missed \subseteq missed', busClosed => busClosed',
           Len(rows) <= Len(rows'), \A n \in 1 .. Len(rows) : rows'[n] = rows[n],
           s \in Conns /\ Registered(s) =>
             /\ Registered(s)'
             /\ \A i : Needed(i) =>
                  /\ Held(s, i) => Held(s, i)'
                  /\ \A p \in Publishers : Waits(p, s, i) =>
                       (\E q \in Publishers : Waits(q, s, i)') \/ Held(s, i)' \/ Jumped_(s, i)'
             /\ \A n \in Len(rows) + 1 .. Len(rows') : \A i : rows'[n].id = i =>
                  \E q \in Publishers : Waits(q, s, i)'
             /\ \A f \in frames' \ frames : \E q \in Publishers : Waits(q, s, f)'
    PROVE  Follow(c)'
<1>1. Conn(c)' = s
  BY DEF Conn
<1>2. CASE client[c].pc \notin Following
  BY <1>2 DEF Follow
<1>3. CASE client[c].pc \in Following
  <2>1. s \in Conns /\ Registered(s)
    BY <1>3 DEF Follow
  <2>2. ASSUME NEW i, Needed(i), Reckoned(c, i) PROVE Reckoned(c, i)'
    <3>1. client[c].seen \subseteq client'[c].seen /\ client[c].cut \subseteq client'[c].cut
      OBVIOUS
    <3>2. /\ Held(s, i) => Held(s, i)'
          /\ \A p \in Publishers : Waits(p, s, i) =>
               (\E q \in Publishers : Waits(q, s, i)') \/ Held(s, i)' \/ Jumped_(s, i)'
      BY <2>1, <2>2
    <3>3. QED
      BY <1>1, <2>2, <3>1, <3>2, ReckonedKept
  <2>3. ASSUME NEW i, \E q \in Publishers : Waits(q, s, i)' PROVE Reckoned(c, i)'
    BY <1>1, <2>3 DEF Reckoned
  <2>4. Registered(Conn(c))'
    BY <2>1, <1>1
  <2>5. \A n \in Len(rows) + 1 .. Len(rows') : \A i : rows'[n].id = i => Reckoned(c, i)'
    BY <2>1, <2>3
  <2>6. \A f \in frames' \ frames : Reckoned(c, f)'
    BY <2>1, <2>3
  <2>7. \A i : Needed(i) => (Reckoned(c, i) => Reckoned(c, i)')
    BY <2>2
  <2>8. client'[c].pc = client[c].pc /\ client'[c].conn = client[c].conn
        /\ client'[c].cursor = client[c].cursor /\ client'[c].pending = client[c].pending
    OBVIOUS
  <2>9. QED
    BY <2>4, <2>5, <2>6, <2>7, <2>8, FollowKept
<1>4. QED
  BY <1>2, <1>3

(* The same, when nothing is stored.                                       *)
LEMMA FollowSame ==
    ASSUME BusTypes, NEW c \in Clients, Follow(c), NEW s, s = Conn(c), client'[c] = client[c],
           rows' = rows, frames' = frames, missed \subseteq missed', busClosed => busClosed',
           s \in Conns /\ Registered(s) =>
             /\ Registered(s)'
             /\ \A i : Needed(i) =>
                  /\ Held(s, i) => Held(s, i)'
                  /\ \A p \in Publishers : Waits(p, s, i) =>
                       (\E q \in Publishers : Waits(q, s, i)') \/ Held(s, i)' \/ Jumped_(s, i)'
    PROVE  Follow(c)'
<1>1. rows' \in Seq(Events) /\ frames' \ frames = {}
  BY DEF BusTypes
<1>2. Len(rows) <= Len(rows') /\ Len(rows) + 1 .. Len(rows') = {}
  BY <1>1
<1>3. \A n \in 1 .. Len(rows) : rows'[n] = rows[n]
  OBVIOUS
<1>4. QED
  BY <1>1, <1>2, <1>3, FollowUnmoved

LEMMA IdsTyped == ASSUME BusTypes PROVE StoredIds \subseteq EventIds /\ frames \subseteq EventIds
<1>1. \A n \in 1 .. Len(rows) : rows[n] \in Events
  BY DEF BusTypes
<1>2. \A e \in Events : e.id \in EventIds
  BY DEF Events, EventIds
<1>3. QED
  BY <1>1, <1>2 DEF BusTypes, StoredIds

(* A publisher that has not moved is where it was.                         *)
LEMMA WaitsSame ==
    ASSUME NEW p \in Publishers, pub'[p] = pub[p], bucket' = bucket, NEW s, NEW i, Waits(p, s, i)
    PROVE  Waits(p, s, i)'
  BY DEF Waits, InRest, Registered, Active

(* A publisher that has not begun to fan out is ahead of everyone.         *)
LEMMA WaitsEarly ==
    ASSUME NEW p, pub'[p].pc \in {"frame", "persist", "walk"}, NEW i, pub'[p].ev.id = i, NEW s
    PROVE  Waits(p, s, i)'
  BY DEF Waits, Active

LEMMA PublishKeeps ==
    ASSUME BusIInv, NEW p \in Publishers, NEW k \in Kinds, Publish(p, k)
    PROVE  BusIInv'
<1>0. BusTypes /\ IdsInv /\ StoredInv /\ FollowInv
  BY DEF BusIInv
<1>1. /\ pub[p].pc = "idle" /\ count < MaxEvents /\ count' = count + 1
      /\ UNCHANGED <<subs, bucket, rows, frames, busClosed, client, missed>>
  BY DEF Publish
<1>2. count \in Nat /\ MaxEvents \in Nat /\ count \in 0 .. MaxEvents
  BY <1>0, BusAssumption DEF BusTypes
<1>3. PICK e \in Events : e = [id |-> count + 1, kind |-> k]
  <2>1. count + 1 \in 1 .. MaxEvents
    BY <1>1, <1>2
  <2>2. QED
    BY <2>1 DEF Events
<1>4. e.id = count + 1 /\ e.kind = k
  BY <1>3
<1>5. PICK v : /\ pub' = [pub EXCEPT ![p] = v]
               /\ \/ v = Quiet
                  \/ v \in EarlyPub /\ v.pc = "persist" /\ v.ev = e /\ k = "durable"
                  \/ v \in EarlyPub /\ v.pc = "frame" /\ v.ev = e /\ k # "durable"
  <2>1. CASE k = "durable" /\ busClosed
    BY <2>1 DEF Publish
  <2>2. CASE k = "durable" /\ ~busClosed
    <3>1. PICK w : w = [pc |-> "persist", ev |-> e]
      OBVIOUS
    <3>2. w \in EarlyPub /\ w.pc = "persist" /\ w.ev = e
      BY <3>1 DEF EarlyPub
    <3>3. pub' = [pub EXCEPT ![p] = w]
      BY <1>3, <2>2, <3>1 DEF Publish
    <3>4. QED
      BY <2>2, <3>2, <3>3
  <2>3. CASE k # "durable"
    <3>1. PICK w : w = [pc |-> "frame", ev |-> e]
      OBVIOUS
    <3>2. w \in EarlyPub /\ w.pc = "frame" /\ w.ev = e
      BY <3>1 DEF EarlyPub
    <3>3. pub' = [pub EXCEPT ![p] = w]
      BY <1>3, <2>3, <3>1 DEF Publish
    <3>4. QED
      BY <2>3, <3>2, <3>3
  <2>4. QED
    BY <2>1, <2>2, <2>3
<1>6. /\ \A q \in Publishers : q # p => pub'[q] = pub[q]
      /\ pub'[p] = v /\ pub' \in [Publishers -> {Quiet} \cup EarlyPub \cup WaitPub]
  BY <1>0, <1>5 DEF BusTypes
<1>7. BusTypes'
  <2>1. count' \in 0 .. MaxEvents
    BY <1>1, <1>2
  <2>2. QED
    BY <1>0, <1>1, <1>6, <2>1 DEF BusTypes
<1>8. StoredIds' = StoredIds
  BY <1>1 DEF StoredIds
<1>9. v.pc = "idle" \/ (v.ev = e /\ v.pc # "idle" /\ v.pc \in {"persist", "frame"})
  BY <1>5 DEF Quiet
<1>10. StoredIds \subseteq EventIds /\ frames \subseteq EventIds
  BY <1>0, IdsTyped
<1>11. \A i \in StoredIds \cup frames : i <= count /\ i # count + 1 /\ i <= count + 1
  <2>1. \A i \in EventIds : i <= count => i # count + 1 /\ i <= count + 1
    BY <1>2 DEF EventIds
  <2>2. QED
    BY <1>0, <1>10, <2>1 DEF IdsInv
<1>12. \A q \in Publishers : Active(q) => pub[q].ev.id # count + 1 /\ pub[q].ev.id <= count + 1
  <2>1. SUFFICES ASSUME NEW q \in Publishers, Active(q)
                 PROVE  pub[q].ev.id # count + 1 /\ pub[q].ev.id <= count + 1
    OBVIOUS
  <2>2. pub[q].ev.id \in EventIds
    BY <1>0, <2>1, PubShape
  <2>3. pub[q].ev.id <= count
    BY <1>0, <2>1 DEF IdsInv
  <2>4. QED
    BY <1>2, <2>2, <2>3 DEF EventIds
<1>13. IdsInv'
  <2>1. \A i \in (StoredIds \cup frames)' : i <= count'
    BY <1>1, <1>8, <1>11
  <2>2. \A q \in Publishers : Active(q)' => pub'[q].ev.id <= count'
    <3>1. SUFFICES ASSUME NEW q \in Publishers, Active(q)' PROVE pub'[q].ev.id <= count'
      OBVIOUS
    <3>2. CASE q = p
      BY <3>1, <3>2, <1>1, <1>2, <1>4, <1>6, <1>9 DEF Active
    <3>3. CASE q # p
      BY <3>1, <3>3, <1>1, <1>6, <1>12 DEF Active
    <3>4. QED
      BY <3>2, <3>3
  <2>3. ASSUME NEW q \in Publishers, NEW w \in Publishers, Active(q)', Active(w)',
               pub'[q].ev.id = pub'[w].ev.id
        PROVE  q = w
    <3>1. CASE q # p /\ w # p
      BY <3>1, <2>3, <1>0, <1>6 DEF IdsInv, Active
    <3>2. CASE q = p /\ w # p
      BY <3>2, <2>3, <1>4, <1>6, <1>9, <1>12 DEF Active
    <3>3. CASE q # p /\ w = p
      BY <3>3, <2>3, <1>4, <1>6, <1>9, <1>12 DEF Active
    <3>4. QED
      BY <3>1, <3>2, <3>3
  <2>4. ASSUME NEW q \in Publishers
        PROVE  /\ pub'[q].pc = "persist" => /\ pub'[q].ev.kind = "durable"
                                            /\ pub'[q].ev.id \notin (StoredIds \cup frames)'
               /\ pub'[q].pc = "frame" => /\ pub'[q].ev.kind # "durable"
                                          /\ pub'[q].ev.id \notin (StoredIds \cup frames)'
               /\ Active(q)' /\ pub'[q].ev.kind # "durable" => pub'[q].ev.id \notin StoredIds'
               /\ Active(q)' /\ pub'[q].ev.kind = "durable" => pub'[q].ev.id \notin frames'
    <3>1. CASE q # p
      BY <3>1, <1>0, <1>1, <1>6, <1>8 DEF IdsInv, Active
    <3>2. CASE q = p
      BY <3>2, <1>1, <1>4, <1>5, <1>6, <1>8, <1>11 DEF Active, Quiet
    <3>3. QED
      BY <3>1, <3>2
  <2>5. QED
    BY <2>1, <2>2, <2>3, <2>4 DEF IdsInv
<1>14. StoredInv'
  <2>1. \A q \in Publishers : pub'[q].pc \in {"walk", "blocked", "woken"} => pub'[q] = pub[q]
    BY <1>6, <1>9
  <2>2. QED
    BY <1>0, <1>1, <1>8, <2>1 DEF StoredInv
<1>15. ASSUME NEW c \in Clients PROVE Follow(c)'
  <2>1. PICK s : s = Conn(c)
    OBVIOUS
  <2>2. \A i : (Held(s, i) => Held(s, i)') /\ (Registered(s) => Registered(s)')
    BY <1>1 DEF Held, Registered
  <2>3. ASSUME NEW i, NEW q \in Publishers, Waits(q, s, i) PROVE Waits(q, s, i)'
    <3>1. q # p
      BY <2>3, <1>1 DEF Waits, Active
    <3>2. QED
      BY <2>3, <3>1, <1>1, <1>6, WaitsSame
  <2>4. client'[c] = client[c] /\ missed \subseteq missed' /\ (busClosed => busClosed') /\ Follow(c)
    BY <1>0, <1>1 DEF FollowInv
  <2>5. QED
    BY <1>0, <1>1, <2>1, <2>2, <2>3, <2>4, FollowSame
<1>16. QED
  BY <1>7, <1>13, <1>14, <1>15 DEF BusIInv, FollowInv

LEMMA WalkShape ==
    ASSUME BusTypes, NEW p \in Publishers, pub[p].pc \in {"frame", "persist"},
           pub' = [pub EXCEPT ![p].pc = "walk"]
    PROVE  /\ pub' \in [Publishers -> {Quiet} \cup EarlyPub \cup WaitPub]
           /\ pub'[p].pc = "walk" /\ pub'[p].ev = pub[p].ev
           /\ \A q \in Publishers : q # p => pub'[q] = pub[q]
<1>1. PICK v \in EarlyPub : v = pub[p]
  BY PubShape
<1>2. PICK w : w = [v EXCEPT !.pc = "walk"]
  OBVIOUS
<1>3. w \in EarlyPub /\ w.pc = "walk" /\ w.ev = v.ev
  BY <1>2 DEF EarlyPub
<1>4. pub \in [Publishers -> {Quiet} \cup EarlyPub \cup WaitPub]
  BY DEF BusTypes
<1>5. pub' = [pub EXCEPT ![p] = w]
  BY <1>1, <1>2, <1>4
<1>6. QED
  BY <1>1, <1>3, <1>4, <1>5

LEMMA AppendFrameKeeps ==
    ASSUME BusIInv, NEW p \in Publishers, AppendFrame(p)
    PROVE  BusIInv'
<1>0. BusTypes /\ IdsInv /\ StoredInv /\ FollowInv
  BY DEF BusIInv
<1>1. /\ pub[p].pc = "frame" /\ pub' = [pub EXCEPT ![p].pc = "walk"]
      /\ frames' = frames \cup {pub[p].ev.id} \/ frames' = frames
      /\ UNCHANGED <<subs, bucket, rows, busClosed, count, client, missed>>
  BY DEF AppendFrame
<1>2. /\ pub' \in [Publishers -> {Quiet} \cup EarlyPub \cup WaitPub]
      /\ pub'[p].pc = "walk" /\ pub'[p].ev = pub[p].ev
      /\ \A q \in Publishers : q # p => pub'[q] = pub[q]
  BY <1>0, <1>1, WalkShape
<1>3. PICK d \in EventIds : d = pub[p].ev.id
  BY <1>0, <1>1, PubShape DEF Active
<1>4. Active(p) /\ d <= count /\ pub[p].ev.kind # "durable" /\ d \notin StoredIds
  BY <1>0, <1>1, <1>3 DEF IdsInv, Active
<1>5. \A q \in Publishers : q # p /\ Active(q) => pub[q].ev.id # d
  BY <1>0, <1>3, <1>4 DEF IdsInv
<1>6. frames \subseteq frames' /\ frames' \subseteq frames \cup {d}
  BY <1>1, <1>3
<1>7. BusTypes'
  BY <1>0, <1>1, <1>2, <1>3, <1>6 DEF BusTypes
<1>8. StoredIds' = StoredIds
  BY <1>1 DEF StoredIds
<1>9. IdsInv'
  <2>1. \A i \in (StoredIds \cup frames)' : i <= count'
    BY <1>0, <1>1, <1>4, <1>6, <1>8 DEF IdsInv
  <2>2. \A q \in Publishers : Active(q)' => pub'[q].ev.id <= count'
    BY <1>0, <1>1, <1>2, <1>3, <1>4 DEF IdsInv, Active
  <2>3. ASSUME NEW q \in Publishers, NEW w \in Publishers, Active(q)', Active(w)',
               pub'[q].ev.id = pub'[w].ev.id
        PROVE  q = w
    BY <2>3, <1>0, <1>2, <1>4 DEF IdsInv, Active
  <2>4. ASSUME NEW q \in Publishers
        PROVE  /\ pub'[q].pc = "persist" => /\ pub'[q].ev.kind = "durable"
                                            /\ pub'[q].ev.id \notin (StoredIds \cup frames)'
               /\ pub'[q].pc = "frame" => /\ pub'[q].ev.kind # "durable"
                                          /\ pub'[q].ev.id \notin (StoredIds \cup frames)'
               /\ Active(q)' /\ pub'[q].ev.kind # "durable" => pub'[q].ev.id \notin StoredIds'
               /\ Active(q)' /\ pub'[q].ev.kind = "durable" => pub'[q].ev.id \notin frames'
    <3>1. CASE q # p
      <4>1. pub'[q] = pub[q] /\ (Active(q)' <=> Active(q))
        BY <3>1, <1>2 DEF Active
      <4>2. Active(q) => (pub[q].ev.id \in frames' => pub[q].ev.id \in frames)
        BY <3>1, <1>5, <1>6
      <4>3. pub[q].pc \in {"persist", "frame"} => Active(q)
        BY DEF Active
      <4>4. QED
        BY <4>1, <4>2, <4>3, <1>0, <1>8 DEF IdsInv
    <3>2. CASE q = p
      BY <3>2, <1>2, <1>3, <1>4, <1>8
    <3>3. QED
      BY <3>1, <3>2
  <2>5. QED
    BY <2>1, <2>2, <2>3, <2>4 DEF IdsInv
<1>10. StoredInv'
  <2>1. ASSUME NEW q \in Publishers, pub'[q].pc \in {"walk", "blocked", "woken"},
               pub'[q].ev.kind = "durable"
        PROVE  pub'[q].ev.id \in StoredIds'
    BY <2>1, <1>0, <1>2, <1>4, <1>8 DEF StoredInv
  <2>2. QED
    BY <1>0, <1>1, <1>8, <2>1 DEF StoredInv
<1>11. ASSUME NEW c \in Clients PROVE Follow(c)'
  <2>1. PICK s : s = Conn(c)
    OBVIOUS
  <2>2. \A i : (Held(s, i) => Held(s, i)') /\ (Registered(s) => Registered(s)')
    BY <1>1 DEF Held, Registered
  <2>3. Waits(p, s, d)'
    BY <1>2, <1>3, WaitsEarly
  <2>4. ASSUME NEW i, NEW q \in Publishers, Waits(q, s, i) PROVE Waits(q, s, i)'
    <3>1. CASE q = p
      BY <2>3, <2>4, <3>1, <1>3 DEF Waits
    <3>2. CASE q # p
      BY <2>4, <3>2, <1>1, <1>2, WaitsSame
    <3>3. QED
      BY <3>1, <3>2
  <2>5. rows' \in Seq(Events)
    BY <1>0, <1>1 DEF BusTypes
  <2>6. Len(rows) <= Len(rows') /\ Len(rows) + 1 .. Len(rows') = {}
    BY <2>5, <1>1
  <2>7. \A n \in 1 .. Len(rows) : rows'[n] = rows[n]
    BY <1>1
  <2>8. \A f \in frames' \ frames : \E q \in Publishers : Waits(q, s, f)'
    BY <1>6, <2>3
  <2>9. client'[c] = client[c] /\ missed \subseteq missed' /\ (busClosed => busClosed') /\ Follow(c)
    BY <1>0, <1>1 DEF FollowInv
  <2>10. QED
    BY <1>0, <2>1, <2>2, <2>4, <2>5, <2>6, <2>7, <2>8, <2>9, FollowUnmoved
<1>12. QED
  BY <1>7, <1>9, <1>10, <1>11 DEF BusIInv, FollowInv

LEMMA PersistKeeps ==
    ASSUME BusIInv, NEW p \in Publishers, Persist(p)
    PROVE  BusIInv'
<1>0. BusTypes /\ IdsInv /\ StoredInv /\ FollowInv
  BY DEF BusIInv
<1>1. /\ pub[p].pc = "persist" /\ pub' = [pub EXCEPT ![p].pc = "walk"]
      /\ rows' = Append(rows, pub[p].ev)
      /\ UNCHANGED <<subs, bucket, frames, busClosed, count, client, missed>>
  BY DEF Persist
<1>2. /\ pub' \in [Publishers -> {Quiet} \cup EarlyPub \cup WaitPub]
      /\ pub'[p].pc = "walk" /\ pub'[p].ev = pub[p].ev
      /\ \A q \in Publishers : q # p => pub'[q] = pub[q]
  BY <1>0, <1>1, WalkShape
<1>13. PICK e \in Events : e = pub[p].ev
  BY <1>0, <1>1, PubShape DEF Active
<1>3. PICK d \in EventIds : d = e.id
  BY <1>13 DEF Events, EventIds
<1>4. Active(p) /\ d <= count /\ e.kind = "durable" /\ d \notin StoredIds /\ d \notin frames
  BY <1>0, <1>1, <1>3, <1>13 DEF IdsInv, Active
<1>5. \A q \in Publishers : q # p /\ Active(q) => pub[q].ev.id # d
  BY <1>0, <1>3, <1>4, <1>13 DEF IdsInv
<1>14. PICK l \in Nat : l = Len(rows) /\ rows \in Seq(Events)
  BY <1>0 DEF BusTypes
<1>6. /\ rows' \in Seq(Events) /\ Len(rows') = l + 1 /\ rows'[l + 1] = e
      /\ \A n \in 1 .. l : rows'[n] = rows[n]
  BY <1>1, <1>13, <1>14
<1>7. BusTypes'
  BY <1>0, <1>1, <1>2, <1>6 DEF BusTypes
<1>8. StoredIds' = StoredIds \cup {d}
  <2>1. StoredIds' = {rows'[n].id : n \in 1 .. l + 1} /\ StoredIds = {rows[n].id : n \in 1 .. l}
    BY <1>6, <1>14 DEF StoredIds
  <2>2. \A n : n \in 1 .. l + 1 <=> (n \in 1 .. l \/ n = l + 1)
    OBVIOUS
  <2>3. QED
    BY <2>1, <2>2, <1>3, <1>6
<1>9. IdsInv'
  <2>1. \A i \in (StoredIds \cup frames)' : i <= count'
    BY <1>0, <1>1, <1>4, <1>8 DEF IdsInv
  <2>2. \A q \in Publishers : Active(q)' => pub'[q].ev.id <= count'
    BY <1>0, <1>1, <1>2, <1>3, <1>13, <1>4 DEF IdsInv, Active
  <2>3. ASSUME NEW q \in Publishers, NEW w \in Publishers, Active(q)', Active(w)',
               pub'[q].ev.id = pub'[w].ev.id
        PROVE  q = w
    BY <2>3, <1>0, <1>2, <1>4 DEF IdsInv, Active
  <2>4. ASSUME NEW q \in Publishers
        PROVE  /\ pub'[q].pc = "persist" => /\ pub'[q].ev.kind = "durable"
                                            /\ pub'[q].ev.id \notin (StoredIds \cup frames)'
               /\ pub'[q].pc = "frame" => /\ pub'[q].ev.kind # "durable"
                                          /\ pub'[q].ev.id \notin (StoredIds \cup frames)'
               /\ Active(q)' /\ pub'[q].ev.kind # "durable" => pub'[q].ev.id \notin StoredIds'
               /\ Active(q)' /\ pub'[q].ev.kind = "durable" => pub'[q].ev.id \notin frames'
    <3>1. CASE q # p
      <4>1. pub'[q] = pub[q] /\ (Active(q)' <=> Active(q))
        BY <3>1, <1>2 DEF Active
      <4>2. Active(q) => (pub[q].ev.id \in StoredIds' => pub[q].ev.id \in StoredIds)
        BY <3>1, <1>5, <1>8
      <4>3. pub[q].pc \in {"persist", "frame"} => Active(q)
        BY DEF Active
      <4>4. QED
        BY <4>1, <4>2, <4>3, <1>0, <1>1 DEF IdsInv
    <3>2. CASE q = p
      BY <3>2, <1>1, <1>2, <1>3, <1>4, <1>13
    <3>3. QED
      BY <3>1, <3>2
  <2>5. QED
    BY <2>1, <2>2, <2>3, <2>4 DEF IdsInv
<1>10. StoredInv'
  <2>1. ASSUME NEW q \in Publishers, pub'[q].pc \in {"walk", "blocked", "woken"},
               pub'[q].ev.kind = "durable"
        PROVE  pub'[q].ev.id \in StoredIds'
    BY <2>1, <1>0, <1>2, <1>3, <1>8, <1>13 DEF StoredInv
  <2>2. QED
    BY <1>0, <1>1, <1>8, <2>1 DEF StoredInv
<1>11. ASSUME NEW c \in Clients PROVE Follow(c)'
  <2>1. PICK s : s = Conn(c)
    OBVIOUS
  <2>2. \A i : (Held(s, i) => Held(s, i)') /\ (Registered(s) => Registered(s)')
    BY <1>1 DEF Held, Registered
  <2>3. Waits(p, s, d)'
    BY <1>2, <1>3, <1>13, WaitsEarly, SMTT(30)
  <2>4. ASSUME NEW i, NEW q \in Publishers, Waits(q, s, i) PROVE Waits(q, s, i)'
    <3>1. CASE q = p
      BY <2>3, <2>4, <3>1, <1>3, <1>13 DEF Waits
    <3>2. CASE q # p
      BY <2>4, <3>2, <1>1, <1>2, WaitsSame
    <3>3. QED
      BY <3>1, <3>2
  <2>6. Len(rows) <= Len(rows') /\ \A n \in Len(rows) + 1 .. Len(rows') : n = l + 1
    BY <1>6, <1>14
  <2>7. \A n \in 1 .. Len(rows) : rows'[n] = rows[n]
    BY <1>6, <1>14
  <2>8. \A n \in Len(rows) + 1 .. Len(rows') : \A i : rows'[n].id = i =>
                  \E q \in Publishers : Waits(q, s, i)'
    BY <2>3, <2>6, <1>6, <1>3
  <2>9. /\ client'[c] = client[c] /\ missed \subseteq missed' /\ (busClosed => busClosed') /\ Follow(c)
        /\ frames' \ frames = {} /\ rows' \in Seq(Events)
    BY <1>0, <1>1, <1>6 DEF FollowInv
  <2>10. QED
    BY <1>0, <2>1, <2>2, <2>4, <2>6, <2>7, <2>8, <2>9, FollowUnmoved
<1>12. QED
  BY <1>7, <1>9, <1>10, <1>11 DEF BusIInv, FollowInv

(* A publisher that ends, or goes to wait with the event it has, changes   *)
(* nothing about ids.                                                      *)
LEMMA SettledKeeps ==
    ASSUME BusTypes, IdsInv, NEW p \in Publishers, NEW v, pub' = [pub EXCEPT ![p] = v],
           v = Quiet \/ (v \in WaitPub /\ v.ev = pub[p].ev /\ v.pc = "blocked" /\ Active(p)),
           UNCHANGED <<rows, frames, count>>
    PROVE  /\ IdsInv' /\ StoredIds' = StoredIds
           /\ pub' \in [Publishers -> {Quiet} \cup EarlyPub \cup WaitPub]
           /\ pub'[p] = v /\ \A q \in Publishers : q # p => pub'[q] = pub[q]
<1>1. pub' \in [Publishers -> {Quiet} \cup EarlyPub \cup WaitPub]
      /\ pub'[p] = v /\ \A q \in Publishers : q # p => pub'[q] = pub[q]
  BY DEF BusTypes
<1>2. v.pc = "idle" \/ (v.ev = pub[p].ev /\ v.pc = "blocked" /\ Active(p))
  BY DEF Quiet
<1>3. StoredIds' = StoredIds
  BY DEF StoredIds
<1>4. \A q \in Publishers : Active(q)' => Active(q) /\ pub'[q].ev = pub[q].ev
  BY <1>1, <1>2 DEF Active
<1>5. \A q \in Publishers : pub'[q].pc \in {"persist", "frame"} => pub'[q] = pub[q]
  BY <1>1, <1>2
<1>6. IdsInv'
  <2>1. \A i \in (StoredIds \cup frames)' : i <= count'
    BY <1>3 DEF IdsInv
  <2>2. \A q \in Publishers : Active(q)' => pub'[q].ev.id <= count'
    BY <1>4 DEF IdsInv
  <2>3. ASSUME NEW q \in Publishers, NEW w \in Publishers, Active(q)', Active(w)',
               pub'[q].ev.id = pub'[w].ev.id
        PROVE  q = w
    BY <2>3, <1>4 DEF IdsInv
  <2>4. ASSUME NEW q \in Publishers
        PROVE  /\ pub'[q].pc = "persist" => /\ pub'[q].ev.kind = "durable"
                                            /\ pub'[q].ev.id \notin (StoredIds \cup frames)'
               /\ pub'[q].pc = "frame" => /\ pub'[q].ev.kind # "durable"
                                          /\ pub'[q].ev.id \notin (StoredIds \cup frames)'
               /\ Active(q)' /\ pub'[q].ev.kind # "durable" => pub'[q].ev.id \notin StoredIds'
               /\ Active(q)' /\ pub'[q].ev.kind = "durable" => pub'[q].ev.id \notin frames'
    BY <1>3, <1>4, <1>5 DEF IdsInv
  <2>5. QED
    BY <2>1, <2>2, <2>3, <2>4 DEF IdsInv
<1>7. QED
  BY <1>1, <1>3, <1>6

LEMMA PersistFailsKeeps ==
    ASSUME BusIInv, NEW p \in Publishers, PersistFails(p)
    PROVE  BusIInv'
<1>0. BusTypes /\ IdsInv /\ StoredInv /\ FollowInv
  BY DEF BusIInv
<1>1. /\ pub[p].pc = "persist" /\ pub' = [pub EXCEPT ![p] = Quiet]
      /\ UNCHANGED <<subs, bucket, rows, frames, busClosed, count, client, missed>>
  BY DEF PersistFails
<1>2. /\ IdsInv' /\ StoredIds' = StoredIds
      /\ pub' \in [Publishers -> {Quiet} \cup EarlyPub \cup WaitPub]
      /\ pub'[p] = Quiet /\ \A q \in Publishers : q # p => pub'[q] = pub[q]
  BY <1>0, <1>1, SettledKeeps
<1>3. BusTypes'
  BY <1>0, <1>1, <1>2 DEF BusTypes
<1>4. StoredInv'
  <2>1. \A q \in Publishers : pub'[q].pc \in {"walk", "blocked", "woken"} => pub'[q] = pub[q]
    BY <1>2 DEF Quiet
  <2>2. QED
    BY <1>0, <1>1, <1>2, <2>1 DEF StoredInv
<1>5. ASSUME NEW c \in Clients PROVE Follow(c)'
  <2>1. PICK s : s = Conn(c)
    OBVIOUS
  <2>2. \A i : (Held(s, i) => Held(s, i)') /\ (Registered(s) => Registered(s)')
    BY <1>1 DEF Held, Registered
  <2>3. ASSUME NEW i, Needed(i), NEW q \in Publishers, Waits(q, s, i) PROVE Waits(q, s, i)'
    <3>1. q # p
      BY <2>3, <1>0, <1>1 DEF Waits, Needed, IdsInv
    <3>2. QED
      BY <2>3, <3>1, <1>1, <1>2, WaitsSame
  <2>4. client'[c] = client[c] /\ missed \subseteq missed' /\ (busClosed => busClosed') /\ Follow(c)
    BY <1>0, <1>1 DEF FollowInv
  <2>5. QED
    BY <1>0, <1>1, <2>1, <2>2, <2>3, <2>4, FollowSame
<1>6. QED
  BY <1>2, <1>3, <1>4, <1>5 DEF BusIInv, FollowInv

(* One fan-out from a place where everyone the event was for is still in   *)
(* the walk or has it.                                                     *)
LEMMA DispatchKeeps ==
    ASSUME BusIInv, NEW p \in Publishers, pub[p].pc \in {"walk", "blocked", "woken"},
           NEW t \in Topics, NEW i \in Nat \ {0}, NEW e \in Events, e = pub[p].ev,
           NEW before \in [Subs -> SubRec],
           \A s \in Subs : /\ Bounded(before[s]) /\ HeldBy(subs[s]) \subseteq HeldBy(before[s])
                           /\ HeldBy(before[s]) \subseteq HeldBy(subs[s]) \cup {e},
           \A s \in Conns : Registered(s) /\ Waits(p, s, e.id) => e \in HeldBy(before[s]) \/ InRest(t, i, s),
           Dispatch(p, t, i, e, before),
           UNCHANGED <<bucket, rows, frames, busClosed, count, client, missed>>
    PROVE  BusIInv'
<1>0. BusTypes /\ IdsInv /\ StoredInv /\ FollowInv
  BY DEF BusIInv
<1>10. Dispatched(p, t, i, e, before)
  <2>1. \A s \in Subs : Bounded(before[s])
    OBVIOUS
  <2>2. QED
    BY ONLY <1>0, <2>1, p \in Publishers, t \in Topics, i \in Nat \ {0}, e \in Events,
            before \in [Subs -> SubRec], Dispatch(p, t, i, e, before), DispatchIs
<1>1. /\ subs' \in [Subs -> SubRec]
      /\ \A s \in Subs : /\ Bounded(subs'[s])
                          /\ HeldBy(before[s]) \subseteq HeldBy(subs'[s])
                          /\ HeldBy(subs'[s]) \subseteq HeldBy(before[s]) \cup {e}
  BY <1>10 DEF Dispatched
<1>2. PICK v : /\ pub' = [pub EXCEPT ![p] = v]
               /\ v = Quiet \/ (v \in WaitPub /\ v.ev = e /\ v.pc = "blocked")
               /\ \A s \in Subs : InRest(t, i, s) =>
                    \/ e \in HeldBy(subs'[s])
                    \/ v # Quiet /\ (s = v.sub \/ InRest(v.list, v.at + 1, s))
  BY <1>10 DEF Dispatched
<1>3. /\ IdsInv' /\ StoredIds' = StoredIds
      /\ pub' \in [Publishers -> {Quiet} \cup EarlyPub \cup WaitPub]
      /\ pub'[p] = v /\ \A q \in Publishers : q # p => pub'[q] = pub[q]
  <2>1. Active(p)
    BY DEF Active
  <2>2. QED
    BY <1>0, <1>2, <2>1, SettledKeeps
<1>4. \A s \in Subs : HeldBy(subs[s]) \subseteq HeldBy(subs'[s]) /\ HeldBy(subs'[s]) \subseteq HeldBy(subs[s]) \cup {e}
  BY <1>1
<1>5. BusTypes'
  BY <1>0, <1>1, <1>3 DEF BusTypes
<1>6. e.kind = "durable" => e.id \in StoredIds
  BY <1>0 DEF StoredInv
<1>7. StoredInv'
  <2>1. ASSUME NEW q \in Publishers, pub'[q].pc \in {"walk", "blocked", "woken"},
               pub'[q].ev.kind = "durable"
        PROVE  pub'[q].ev.id \in StoredIds'
    <3>1. CASE q = p
      BY <3>1, <2>1, <1>2, <1>3, <1>6 DEF Quiet
    <3>2. CASE q # p
      BY <3>2, <2>1, <1>0, <1>3 DEF StoredInv
    <3>3. QED
      BY <3>1, <3>2
  <2>2. ASSUME NEW s \in Subs, NEW x \in HeldBy(subs'[s]), x.kind = "durable" PROVE x.id \in StoredIds'
    <3>1. x \in HeldBy(subs[s]) \/ x = e
      BY <1>4
    <3>2. QED
      BY <3>1, <2>2, <1>0, <1>3, <1>6 DEF StoredInv
  <2>3. QED
    BY <2>1, <2>2 DEF StoredInv
<1>8. ASSUME NEW c \in Clients PROVE Follow(c)'
  <2>1. PICK s : s = Conn(c)
    OBVIOUS
  <2>2. Registered(s) => Registered(s)'
    BY DEF Registered
  <2>3. ASSUME s \in Conns, Registered(s), NEW d, Needed(d)
        PROVE  /\ Held(s, d) => Held(s, d)'
               /\ \A q \in Publishers : Waits(q, s, d) =>
                    (\E w \in Publishers : Waits(w, s, d)') \/ Held(s, d)' \/ Jumped_(s, d)'
    <3>0. s \in Subs
      BY <2>3 DEF Subs
    <3>1. Held(s, d) => Held(s, d)'
      BY <3>0, <1>4 DEF Held
    <3>2. ASSUME NEW q \in Publishers, Waits(q, s, d), ~Held(s, d)' PROVE Waits(q, s, d)'
      <4>1. CASE q # p
        BY <4>1, <3>2, <1>3, WaitsSame
      <4>2. CASE q = p
        <5>1. d = e.id
          BY <3>2, <4>2 DEF Waits
        <5>2. e \notin HeldBy(subs'[s])
          BY <3>2, <5>1 DEF Held
        <5>3. e \notin HeldBy(before[s])
          BY <5>2, <3>0, <1>1
        <5>4. InRest(t, i, s)
          BY <5>1, <5>3, <2>3, <3>2, <4>2
        <5>5. v # Quiet /\ (s = v.sub \/ InRest(v.list, v.at + 1, s))
          BY <5>2, <5>4, <3>0, <1>2
        <5>6. pub'[p] = v /\ v.ev = e /\ v.pc = "blocked"
          BY <1>2, <1>3, <5>5
        <5>7. InRest(v.list, v.at + 1, s) => InRest(v.list, v.at + 1, s)'
          BY <1>3 DEF InRest, Registered
        <5>8. s = pub'[p].sub \/ InRest(pub[p].list, pub[p].at + 1, s)'
          BY <1>3, <5>5, <5>7 DEF InRest, Registered
        <5>9. QED
          BY <4>2, <5>1, <5>6, <5>8 DEF Waits, Active
      <4>3. QED
        BY <4>1, <4>2
    <3>3. QED
      BY <3>1, <3>2
  <2>4. client'[c] = client[c] /\ missed \subseteq missed' /\ (busClosed => busClosed') /\ Follow(c)
    BY <1>0 DEF FollowInv
  <2>5. QED
    BY <1>0, <2>1, <2>2, <2>3, <2>4, FollowSame
<1>9. QED
  BY <1>3, <1>5, <1>7, <1>8 DEF BusIInv, FollowInv

LEMMA FanOutKeeps ==
    ASSUME BusIInv, NEW p \in Publishers, FanOut(p)
    PROVE  BusIInv'
<1>0. BusTypes /\ IdsInv /\ StoredInv /\ FollowInv
  BY DEF BusIInv
<1>1. pub[p].pc = "walk" /\ UNCHANGED <<bucket, rows, frames, busClosed, count, client, missed>>
  BY DEF FanOut
<1>2. PICK e \in Events : e = pub[p].ev
  BY <1>0, <1>1, PubShape
<1>3. CASE FromFrame(pub[p].ev) /\ busClosed
  <2>0. pub' = [pub EXCEPT ![p] = Quiet] /\ subs' = subs
    BY <1>3 DEF FanOut
  <2>1. /\ IdsInv' /\ StoredIds' = StoredIds
        /\ pub' \in [Publishers -> {Quiet} \cup EarlyPub \cup WaitPub]
        /\ pub'[p] = Quiet /\ \A q \in Publishers : q # p => pub'[q] = pub[q]
    BY <1>0, <1>1, <2>0, SettledKeeps
  <2>2. BusTypes'
    BY <1>0, <1>1, <2>0, <2>1 DEF BusTypes
  <2>3. StoredInv'
    <3>1. \A q \in Publishers : pub'[q].pc \in {"walk", "blocked", "woken"} => pub'[q] = pub[q]
      BY <2>1 DEF Quiet
    <3>2. QED
      BY <1>0, <1>1, <2>0, <2>1, <3>1 DEF StoredInv
  <2>4. ASSUME NEW c \in Clients PROVE Follow(c)'
    <3>1. PICK s : s = Conn(c)
      OBVIOUS
    <3>2. \A i : (Held(s, i) => Held(s, i)') /\ (Registered(s) => Registered(s)')
      BY <1>1, <2>0 DEF Held, Registered
    <3>3. ASSUME NEW i, Needed(i), NEW q \in Publishers, Waits(q, s, i) PROVE Waits(q, s, i)'
      <4>1. i \in StoredIds
        BY <3>3, <1>1, <1>3 DEF Needed
      <4>2. q # p
        BY <3>3, <4>1, <1>0, <1>3 DEF Waits, FromFrame, IdsInv
      <4>3. QED
        BY <3>3, <4>2, <1>1, <2>1, WaitsSame
    <3>4. client'[c] = client[c] /\ missed \subseteq missed' /\ (busClosed => busClosed') /\ Follow(c)
      BY <1>0, <1>1 DEF FollowInv
    <3>5. QED
      BY <1>0, <1>1, <3>1, <3>2, <3>3, <3>4, FollowSame
  <2>5. QED
    BY <2>1, <2>2, <2>3, <2>4 DEF BusIInv, FollowInv
<1>4. CASE ~(FromFrame(pub[p].ev) /\ busClosed)
  <2>1. PICK t \in Topics : t = IF pub[p].ev.kind = "legacy" THEN "*" ELSE "class"
    BY DEF Topics
  <2>2. Dispatch(p, t, 1, e, subs)
    BY <1>2, <1>4, <2>1 DEF FanOut
  <2>3. subs \in [Subs -> SubRec] /\ \A s \in Subs : Bounded(subs[s])
    BY <1>0 DEF BusTypes
  <2>4. ASSUME NEW s \in Conns, Registered(s) PROVE InRest(t, 1, s)
    BY <2>4 DEF InRest, Registered, Topics
  <2>5. \A s \in Subs : /\ Bounded(subs[s]) /\ HeldBy(subs[s]) \subseteq HeldBy(subs[s])
                        /\ HeldBy(subs[s]) \subseteq HeldBy(subs[s]) \cup {e}
    BY <2>3
  <2>6. \A s \in Conns : Registered(s) /\ Waits(p, s, e.id) => e \in HeldBy(subs[s]) \/ InRest(t, 1, s)
    BY <2>4
  <2>7. pub[p].pc \in {"walk", "blocked", "woken"} /\ 1 \in Nat \ {0}
    BY <1>1
  <2>8. QED
    BY <1>1, <1>2, <2>2, <2>3, <2>5, <2>6, <2>7, DispatchKeeps
<1>5. QED
  BY <1>3, <1>4

LEMMA UnblockKeeps ==
    ASSUME BusIInv, NEW p \in Publishers, Unblock(p)
    PROVE  BusIInv'
<1>0. BusTypes /\ IdsInv /\ StoredInv /\ FollowInv
  BY DEF BusIInv
<1>1. pub[p].pc \in {"blocked", "woken"} /\ UNCHANGED <<bucket, rows, frames, busClosed, count, client, missed>>
  BY DEF Unblock
<1>2. PICK e \in Events, z \in Subs, t \in Topics, a \in Nat :
         e = pub[p].ev /\ z = pub[p].sub /\ t = pub[p].list /\ a = pub[p].at
  BY <1>0, <1>1, PubShape
<1>3. PICK g \in SubRec : g = subs[z] /\ Bounded(g)
  BY <1>0 DEF BusTypes
<1>4. PICK d \in Nat : d = g.durableDropped + (IF pub[p].pc = "blocked" THEN 1 ELSE 0)
  BY DEF SubRec
<1>5. PICK r : r = [g EXCEPT !.durableDropped = d]
  OBVIOUS
<1>6. r \in SubRec /\ r.items = g.items /\ r.lost = g.lost
  BY <1>5 DEF SubRec
<1>7. Bounded(r) /\ HeldBy(r) = HeldBy(g)
  BY <1>3, <1>6 DEF Bounded, HeldBy
<1>8. PICK h : h = Put(r, e)
  OBVIOUS
<1>9. h \in SubRec /\ Bounded(h) /\ HeldBy(h) = HeldBy(g) \cup {e}
  BY <1>6, <1>7, <1>8, PutIs
<1>10. PICK before : before = [subs EXCEPT ![z] = h]
  OBVIOUS
<1>11. subs \in [Subs -> SubRec] /\ \A s \in Subs : Bounded(subs[s])
  BY <1>0 DEF BusTypes
<1>12. before \in [Subs -> SubRec] /\ before[z] = h /\ \A s \in Subs : s # z => before[s] = subs[s]
  BY <1>9, <1>10, <1>11
<1>13. Dispatch(p, t, a + 1, e, before)
  <2>1. [subs[z] EXCEPT !.durableDropped = @ + IF pub[p].pc = "blocked" THEN 1 ELSE 0] = r
    BY <1>3, <1>4, <1>5 DEF SubRec
  <2>2. Dispatch(p, pub[p].list, pub[p].at + 1, pub[p].ev, [subs EXCEPT ![z] = Put(r, pub[p].ev)])
    BY <1>2, <2>1 DEF Unblock
  <2>3. QED
    BY <1>2, <1>8, <1>10, <2>2
<1>14. ASSUME NEW s \in Subs
       PROVE  /\ Bounded(before[s]) /\ HeldBy(subs[s]) \subseteq HeldBy(before[s])
              /\ HeldBy(before[s]) \subseteq HeldBy(subs[s]) \cup {e}
  <2>1. CASE s = z
    BY <2>1, <1>3, <1>9, <1>12
  <2>2. CASE s # z
    BY <2>2, <1>11, <1>12
  <2>3. QED
    BY <2>1, <2>2
<1>15. ASSUME NEW s \in Conns, Waits(p, s, e.id)
       PROVE  e \in HeldBy(before[s]) \/ InRest(t, a + 1, s)
  <2>1. s = z \/ InRest(t, a + 1, s)
    BY <1>1, <1>2, <1>15 DEF Waits
  <2>2. e \in HeldBy(before[z])
    BY <1>9, <1>12
  <2>3. QED
    BY <2>1, <2>2
<1>16. pub[p].pc \in {"walk", "blocked", "woken"} /\ a + 1 \in Nat \ {0}
  BY <1>1
<1>17. e = pub[p].ev
  BY <1>2
<1>18. QED
  BY <1>1, <1>12, <1>13, <1>14, <1>15, <1>16, <1>17, DispatchKeeps

(* Steps that store nothing and put nothing into a queue.                  *)
LEMMA NothingNew ==
    ASSUME BusTypes, IdsInv, StoredInv, UNCHANGED <<rows, frames, count>>,
           \A q \in Publishers : pub'[q] = pub[q] \/ (/\ pub[q].pc = "blocked" /\ pub'[q].pc = "woken"
                                                     /\ pub'[q].ev = pub[q].ev),
           \A s \in Subs : HeldBy(subs'[s]) \subseteq HeldBy(subs[s])
    PROVE  IdsInv' /\ StoredInv' /\ StoredIds' = StoredIds
<1>1. StoredIds' = StoredIds
  BY DEF StoredIds
<1>2. \A q \in Publishers : (Active(q)' <=> Active(q)) /\ (Active(q) => pub'[q].ev = pub[q].ev)
  BY DEF Active
<1>3. \A q \in Publishers : pub'[q].pc \in {"persist", "frame"} => pub'[q] = pub[q]
  OBVIOUS
<1>4. \A q \in Publishers : pub'[q].pc \in {"walk", "blocked", "woken"} =>
         pub[q].pc \in {"walk", "blocked", "woken"} /\ pub'[q].ev = pub[q].ev
  OBVIOUS
<1>5. IdsInv'
  <2>1. \A i \in (StoredIds \cup frames)' : i <= count'
    BY <1>1 DEF IdsInv
  <2>2. \A q \in Publishers : Active(q)' => pub'[q].ev.id <= count'
    BY <1>2 DEF IdsInv
  <2>3. ASSUME NEW q \in Publishers, NEW w \in Publishers, Active(q)', Active(w)',
               pub'[q].ev.id = pub'[w].ev.id
        PROVE  q = w
    BY <2>3, <1>2 DEF IdsInv
  <2>4. ASSUME NEW q \in Publishers
        PROVE  /\ pub'[q].pc = "persist" => /\ pub'[q].ev.kind = "durable"
                                            /\ pub'[q].ev.id \notin (StoredIds \cup frames)'
               /\ pub'[q].pc = "frame" => /\ pub'[q].ev.kind # "durable"
                                          /\ pub'[q].ev.id \notin (StoredIds \cup frames)'
               /\ Active(q)' /\ pub'[q].ev.kind # "durable" => pub'[q].ev.id \notin StoredIds'
               /\ Active(q)' /\ pub'[q].ev.kind = "durable" => pub'[q].ev.id \notin frames'
    BY <1>1, <1>2, <1>3 DEF IdsInv
  <2>5. QED
    BY <2>1, <2>2, <2>3, <2>4 DEF IdsInv
<1>6. StoredInv'
  <2>1. \A q \in Publishers : pub'[q].pc \in {"walk", "blocked", "woken"} =>
            (pub'[q].ev.kind = "durable" => pub'[q].ev.id \in StoredIds')
    BY <1>1, <1>4 DEF StoredInv
  <2>2. \A s \in Subs : \A x \in HeldBy(subs'[s]) : x.kind = "durable" => x.id \in StoredIds'
    BY <1>1 DEF StoredInv
  <2>3. QED
    BY <2>1, <2>2 DEF StoredInv
<1>7. QED
  BY <1>1, <1>5, <1>6

LEMMA CloseBusKeeps ==
    ASSUME BusIInv, CloseBus
    PROVE  BusIInv'
<1>0. BusTypes /\ IdsInv /\ StoredInv /\ FollowInv
  BY DEF BusIInv
<1>1. busClosed' = TRUE /\ UNCHANGED <<bucket, pub, rows, frames, count, client, missed>>
  BY DEF CloseBus
<1>2. ASSUME NEW s \in Subs
      PROVE  subs'[s] \in SubRec /\ Bounded(subs'[s]) /\ HeldBy(subs'[s]) = HeldBy(subs[s])
  <2>1. PICK g \in SubRec : g = subs[s] /\ Bounded(g)
    BY <1>0 DEF BusTypes
  <2>2. PICK h : h = [g EXCEPT !.closed = TRUE]
    OBVIOUS
  <2>3. h \in SubRec /\ h.items = g.items /\ h.lost = g.lost
    BY <2>2 DEF SubRec
  <2>4. Bounded(h) /\ HeldBy(h) = HeldBy(g)
    BY <2>1, <2>3 DEF Bounded, HeldBy
  <2>5. subs'[s] = g \/ subs'[s] = h
    BY <2>1, <2>2 DEF CloseBus
  <2>6. QED
    BY <2>1, <2>3, <2>4, <2>5
<1>3. subs' \in [Subs -> SubRec]
  <2>1. subs' = [s \in Subs |-> subs'[s]]
    BY DEF CloseBus
  <2>2. \A s \in Subs : subs'[s] \in SubRec
    BY <1>2
  <2>3. QED
    BY <2>1, <2>2
<1>4. BusTypes'
  <2>1. busClosed' \in BOOLEAN
    BY <1>1
  <2>2. \A s \in Subs : Bounded(subs'[s])
    BY <1>2
  <2>3. QED
    BY <1>0, <1>1, <1>3, <2>1, <2>2 DEF BusTypes
<1>5. IdsInv' /\ StoredInv'
  <2>1. \A s \in Subs : HeldBy(subs'[s]) \subseteq HeldBy(subs[s])
    BY <1>2
  <2>2. QED
    BY <1>0, <1>1, <2>1, NothingNew
<1>6. ASSUME NEW c \in Clients PROVE Follow(c)'
  <2>1. PICK s : s = Conn(c)
    OBVIOUS
  <2>2. ASSUME s \in Conns, NEW i, Held(s, i) PROVE Held(s, i)'
    <3>1. HeldBy(subs'[s]) = HeldBy(subs[s])
      BY <1>2, <2>2 DEF Subs
    <3>2. QED
      BY <3>1, <2>2 DEF Held
  <2>3. ASSUME NEW i, NEW q \in Publishers, Waits(q, s, i) PROVE Waits(q, s, i)'
    BY <2>3, <1>1, WaitsSame
  <2>4. client'[c] = client[c] /\ missed \subseteq missed' /\ (busClosed => busClosed') /\ Follow(c)
    BY <1>0, <1>1 DEF FollowInv
  <2>5. Registered(s) => Registered(s)'
    BY <1>1 DEF Registered
  <2>6. QED
    BY <1>0, <1>1, <2>1, <2>2, <2>3, <2>4, <2>5, FollowSame
<1>7. QED
  BY <1>4, <1>5, <1>6 DEF BusIInv, FollowInv

(* A new subscription goes to the end of its list: no walk loses anyone.   *)
LEMMA ListGrows ==
    ASSUME bucket \in [Topics -> Seq(Subs)], NEW u \in Topics, NEW z \in Subs,
           bucket' = [bucket EXCEPT ![u] = Append(@, z)]
    PROVE  /\ bucket' \in [Topics -> Seq(Subs)]
           /\ u = "*" => Registered(z)'
           /\ \A s : Registered(s) => Registered(s)'
           /\ \A s : \A t \in Topics, i \in Nat \ {0} : InRest(t, i, s) => InRest(t, i, s)'
<1>1. PICK b \in Seq(Subs), l \in Nat : b = bucket[u] /\ l = Len(b)
  OBVIOUS
<1>2. PICK w : w = Append(b, z)
  OBVIOUS
<1>3. w \in Seq(Subs) /\ Len(w) = l + 1 /\ w[l + 1] = z /\ \A j \in 1 .. l : w[j] = b[j]
  BY <1>1, <1>2
<1>4. /\ bucket' = [bucket EXCEPT ![u] = w] /\ bucket' \in [Topics -> Seq(Subs)]
      /\ bucket'[u] = w /\ \A t \in Topics : t # u => bucket'[t] = bucket[t]
  BY <1>1, <1>2, <1>3
<1>5. "*" \in Topics
  BY DEF Topics
<1>6. ASSUME NEW t \in Topics, NEW i \in Nat \ {0}, NEW j \in i .. Len(bucket[t])
      PROVE  j \in i .. Len(bucket'[t]) /\ bucket'[t][j] = bucket[t][j]
  <2>1. CASE t = u
    <3>1. j \in i .. l /\ j \in 1 .. l /\ j \in i .. l + 1
      BY <2>1, <1>1
    <3>2. QED
      BY <2>1, <3>1, <1>1, <1>3, <1>4
  <2>2. CASE t # u
    BY <2>2, <1>4
  <2>3. QED
    BY <2>1, <2>2
<1>7. ASSUME NEW s, Registered(s) PROVE Registered(s)'
  <2>1. PICK j \in 1 .. Len(bucket["*"]) : bucket["*"][j] = s
    BY <1>7 DEF Registered
  <2>2. j \in 1 .. Len(bucket'["*"]) /\ bucket'["*"][j] = bucket["*"][j]
    BY <1>5, <1>6
  <2>3. QED
    BY <2>1, <2>2 DEF Registered
<1>8. ASSUME NEW t \in Topics, NEW i \in Nat \ {0}, NEW s, InRest(t, i, s) PROVE InRest(t, i, s)'
  <2>1. CASE \E j \in i .. Len(bucket[t]) : bucket[t][j] = s
    <3>1. PICK j \in i .. Len(bucket[t]) : bucket[t][j] = s
      BY <2>1
    <3>2. j \in i .. Len(bucket'[t]) /\ bucket'[t][j] = s
      BY <1>6, <3>1
    <3>3. QED
      BY <3>2 DEF InRest
  <2>2. CASE t = "class" /\ Registered(s)
    BY <2>2, <1>7 DEF InRest
  <2>3. QED
    BY <1>8, <2>1, <2>2 DEF InRest
<1>9. u = "*" => Registered(z)'
  <2>1. l + 1 \in 1 .. l + 1
    OBVIOUS
  <2>2. QED
    BY <2>1, <1>3, <1>4 DEF Registered
<1>10. QED
  BY <1>4, <1>7, <1>8, <1>9

(* A publisher keeps its place when the walk in front of it does.          *)
LEMMA WaitsKept ==
    ASSUME BusTypes, NEW p \in Publishers, NEW s, NEW i, Waits(p, s, i),
           \/ pub'[p] = pub[p]
           \/ /\ pub[p].pc = "blocked" /\ pub'[p].pc = "woken" /\ pub'[p].ev = pub[p].ev
              /\ pub'[p].sub = pub[p].sub /\ pub'[p].list = pub[p].list /\ pub'[p].at = pub[p].at,
           \A t \in Topics, j \in Nat \ {0} : InRest(t, j, s) => InRest(t, j, s)'
    PROVE  Waits(p, s, i)'
<1>1. Active(p) /\ pub[p].ev.id = i
  BY DEF Waits
<1>2. Active(p)' /\ pub'[p].ev.id = i
  BY <1>1 DEF Active
<1>3. CASE pub[p].pc \in {"blocked", "woken"}
  <2>1. PICK t \in Topics, a \in Nat : t = pub[p].list /\ a = pub[p].at
    BY <1>3, PubShape
  <2>2. s = pub[p].sub \/ InRest(t, a + 1, s)
    BY <1>3, <2>1 DEF Waits
  <2>3. a + 1 \in Nat \ {0}
    OBVIOUS
  <2>4. s = pub'[p].sub \/ InRest(t, a + 1, s)'
    BY <1>3, <2>2, <2>3
  <2>5. t = pub'[p].list /\ a = pub'[p].at
    BY <1>3, <2>1
  <2>6. InRest(pub[p].list, pub[p].at + 1, s)' <=> InRest(t, a + 1, s)'
    BY <2>5 DEF InRest
  <2>7. QED
    BY <1>2, <2>4, <2>6 DEF Waits
<1>4. CASE pub[p].pc \notin {"blocked", "woken"}
  BY <1>2, <1>4 DEF Waits
<1>5. QED
  BY <1>3, <1>4

(* A subscription that is told it is open or closed keeps its queue.       *)
LEMMA SubscribeIs ==
    ASSUME BusTypes, NEW z \in Subs, NEW w \in Iters,
           subs' = [subs EXCEPT ![z].iter = w, ![z].closed = busClosed]
    PROVE  /\ subs' \in [Subs -> SubRec]
           /\ \A s \in Subs : Bounded(subs'[s]) /\ HeldBy(subs'[s]) = HeldBy(subs[s])
<1>1. PICK g \in SubRec : g = subs[z] /\ Bounded(g)
  BY DEF BusTypes
<1>2. PICK h : h = [[g EXCEPT !.iter = w] EXCEPT !.closed = busClosed]
  OBVIOUS
<1>3. h \in SubRec /\ Bounded(h) /\ HeldBy(h) = HeldBy(g)
  <2>1. PICK f : f = [g EXCEPT !.iter = w]
    OBVIOUS
  <2>2. f \in SubRec /\ f.items = g.items /\ f.lost = g.lost
    BY <2>1 DEF SubRec
  <2>3. busClosed \in BOOLEAN /\ h = [f EXCEPT !.closed = busClosed]
    BY <1>2, <2>1 DEF BusTypes
  <2>4. h \in SubRec /\ h.items = g.items /\ h.lost = g.lost
    BY <2>2, <2>3 DEF SubRec
  <2>5. QED
    BY <1>1, <2>4 DEF Bounded, HeldBy
<1>4. subs \in [Subs -> SubRec] /\ \A s \in Subs : Bounded(subs[s])
  BY DEF BusTypes
<1>5. subs' = [subs EXCEPT ![z] = h]
  BY <1>1, <1>2, <1>4
<1>6. subs' \in [Subs -> SubRec] /\ subs'[z] = h /\ \A s \in Subs : s # z => subs'[s] = subs[s]
  BY <1>3, <1>4, <1>5
<1>7. QED
  BY <1>1, <1>3, <1>4, <1>6

LEMMA FollowGrown ==
    ASSUME BusTypes, NEW c \in Clients, Follow(c), client'[c] = client[c],
           UNCHANGED <<pub, rows, frames, busClosed, missed>>,
           \A s \in Subs : HeldBy(subs'[s]) = HeldBy(subs[s]),
           \A s : Registered(s) => Registered(s)',
           \A s : \A t \in Topics, i \in Nat \ {0} : InRest(t, i, s) => InRest(t, i, s)'
    PROVE  Follow(c)'
<1>1. PICK s : s = Conn(c)
  OBVIOUS
<1>2. ASSUME s \in Conns, NEW i, Held(s, i) PROVE Held(s, i)'
  <2>1. HeldBy(subs'[s]) = HeldBy(subs[s])
    BY <1>2 DEF Subs
  <2>2. QED
    BY <2>1, <1>2 DEF Held
<1>3. ASSUME NEW i, NEW q \in Publishers, Waits(q, s, i) PROVE Waits(q, s, i)'
  <2>1. pub'[q] = pub[q]
    OBVIOUS
  <2>2. \A t \in Topics, j \in Nat \ {0} : InRest(t, j, s) => InRest(t, j, s)'
    OBVIOUS
  <2>3. QED
    BY <1>3, <2>1, <2>2, WaitsKept
<1>4. missed \subseteq missed' /\ (busClosed => busClosed')
  OBVIOUS
<1>5. QED
  BY <1>1, <1>2, <1>3, <1>4, FollowSame

LEMMA ConsumerStartKeeps ==
    ASSUME BusIInv, NEW z \in Consumers, ConsumerStart(z)
    PROVE  BusIInv'
<1>0. BusTypes /\ IdsInv /\ StoredInv /\ FollowInv
  BY DEF BusIInv
<1>1. UNCHANGED <<pub, rows, frames, busClosed, count, client, missed>>
  BY DEF ConsumerStart
<1>2. z \in Subs /\ TopicOf(z) \in Topics
  BY DEF Subs, TopicOf, Topics
<1>3. PICK u \in Topics : bucket' = [bucket EXCEPT ![u] = Append(@, z)]
  BY <1>2 DEF ConsumerStart
<1>4. bucket \in [Topics -> Seq(Subs)]
  BY <1>0 DEF BusTypes
<1>5. /\ bucket' \in [Topics -> Seq(Subs)]
      /\ \A s : Registered(s) => Registered(s)'
      /\ \A s : \A t \in Topics, i \in Nat \ {0} : InRest(t, i, s) => InRest(t, i, s)'
  BY <1>2, <1>3, <1>4, ListGrows
<1>6. /\ subs' \in [Subs -> SubRec]
      /\ \A s \in Subs : Bounded(subs'[s]) /\ HeldBy(subs'[s]) = HeldBy(subs[s])
  <2>1. subs' = [subs EXCEPT ![z].iter = "running", ![z].closed = busClosed] /\ "running" \in Iters
    BY DEF ConsumerStart, Iters
  <2>2. QED
    BY <1>0, <1>2, <2>1, SubscribeIs
<1>7. BusTypes'
  BY <1>0, <1>1, <1>5, <1>6 DEF BusTypes
<1>8. IdsInv' /\ StoredInv'
  <2>1. \A s \in Subs : HeldBy(subs'[s]) \subseteq HeldBy(subs[s])
    BY <1>6
  <2>2. QED
    BY <1>0, <1>1, <2>1, NothingNew
<1>9. ASSUME NEW c \in Clients PROVE Follow(c)'
  <2>1. client'[c] = client[c] /\ Follow(c) /\ \A s \in Subs : HeldBy(subs'[s]) = HeldBy(subs[s])
    BY <1>0, <1>1, <1>6 DEF FollowInv
  <2>2. QED
    BY <1>0, <1>1, <1>5, <2>1, FollowGrown
<1>10. QED
  BY <1>7, <1>8, <1>9 DEF BusIInv, FollowInv

LEMMA StreamOpenKeeps ==
    ASSUME BusIInv, NEW b \in Clients, NEW id \in Headers \cup {client[b].lastId}, StreamOpen(b, id)
    PROVE  BusIInv'
<1>0. BusTypes /\ IdsInv /\ StoredInv /\ FollowInv
  BY DEF BusIInv
<1>1. /\ client[b].pc \in {"idle", "closed"} /\ client[b].conn < MaxOpens
      /\ UNCHANGED <<pub, rows, frames, busClosed, count, missed>>
  BY DEF StreamOpen
<1>2. PICK r \in ClientRec : r = client[b]
  BY <1>0 DEF BusTypes
<1>3. r.conn \in 0 .. MaxOpens /\ r.lastId \in Cursors /\ r.pc \in {"idle", "closed"}
  BY <1>1, <1>2 DEF ClientRec
<1>4. PICK k \in 1 .. MaxOpens : k = r.conn + 1
  BY <1>1, <1>2, <1>3, BusAssumption
<1>5. PICK z : z = <<b, k>>
  OBVIOUS
<1>6. z \in Conns /\ z \in Subs /\ TopicOf(z) = "*" /\ "*" \in Topics
  BY <1>5 DEF Conns, Subs, TopicOf, Topics
<1>7. id \in Cursors
  <2>1. NoId \in Cursors /\ [kind |-> "durable", n |-> 0] \in Cursors /\ [kind |-> "frame", n |-> 0] \in Cursors
    BY DEF NoId, Cursors
  <2>2. QED
    BY <1>2, <1>3, <2>1 DEF Headers
<1>8. PICK m : m = CASE id.kind = "durable" -> "replay" [] id.kind = "frame" -> "backfill" [] OTHER -> "live"
  OBVIOUS
<1>9. /\ m \in Following /\ m # "sending" /\ (m = "replay" => id.kind = "durable")
      /\ (m = "backfill" => id.kind = "frame") /\ (m = "live" => id.kind # "durable" /\ id.kind # "frame")
  <2>1. CASE id.kind = "durable"
    BY <2>1, <1>8 DEF Following
  <2>2. CASE id.kind = "frame"
    BY <2>2, <1>8 DEF Following
  <2>3. CASE id.kind # "durable" /\ id.kind # "frame"
    BY <2>3, <1>8 DEF Following
  <2>4. QED
    BY <2>1, <2>2, <2>3
<1>10. PICK v : v = [[[[r EXCEPT !.conn = k] EXCEPT !.cursor = id] EXCEPT !.cut = {}] EXCEPT !.pc = m]
  OBVIOUS
<1>11. v \in ClientRec /\ v.conn = k /\ v.cursor = id /\ v.pc = m /\ v.pending = r.pending
  <2>1. PICK v1 : v1 = [r EXCEPT !.conn = k]
    OBVIOUS
  <2>2. v1 \in ClientRec /\ v1.conn = k /\ v1.pending = r.pending
    BY <2>1 DEF ClientRec
  <2>3. PICK v2 : v2 = [v1 EXCEPT !.cursor = id]
    OBVIOUS
  <2>4. v2 \in ClientRec /\ v2.conn = k /\ v2.cursor = id /\ v2.pending = r.pending
    BY <1>7, <2>2, <2>3 DEF ClientRec
  <2>5. PICK v3 : v3 = [v2 EXCEPT !.cut = {}]
    OBVIOUS
  <2>6. v3 \in ClientRec /\ v3.conn = k /\ v3.cursor = id /\ v3.pending = r.pending
    BY <2>4, <2>5 DEF ClientRec
  <2>7. v = [v3 EXCEPT !.pc = m]
    BY <1>10, <2>1, <2>3, <2>5
  <2>8. QED
    BY <1>9, <2>6, <2>7 DEF ClientRec
<1>12. client \in [Clients -> ClientRec]
  BY <1>0 DEF BusTypes
<1>13. client' = [client EXCEPT ![b] = v]
  <2>1. client' = [client EXCEPT ![b].conn = k, ![b].cursor = id, ![b].cut = {}, ![b].pc = m]
    BY <1>2, <1>4, <1>8 DEF StreamOpen
  <2>2. QED
    BY <1>2, <1>10, <1>12, <2>1
<1>14. /\ client' \in [Clients -> ClientRec] /\ client'[b] = v
       /\ \A c \in Clients : c # b => client'[c] = client[c]
  BY <1>11, <1>12, <1>13
<1>15. /\ subs' = [subs EXCEPT ![z].iter = "fresh", ![z].closed = busClosed]
       /\ bucket' = [bucket EXCEPT !["*"] = Append(@, z)]
  BY <1>2, <1>4, <1>5, <1>6 DEF StreamOpen, Subscribed
<1>16. bucket \in [Topics -> Seq(Subs)]
  BY <1>0 DEF BusTypes
<1>17. /\ bucket' \in [Topics -> Seq(Subs)] /\ Registered(z)'
       /\ \A s : Registered(s) => Registered(s)'
       /\ \A s : \A t \in Topics, i \in Nat \ {0} : InRest(t, i, s) => InRest(t, i, s)'
  BY <1>6, <1>15, <1>16, ListGrows
<1>18. /\ subs' \in [Subs -> SubRec]
       /\ \A s \in Subs : Bounded(subs'[s]) /\ HeldBy(subs'[s]) = HeldBy(subs[s])
  <2>1. "fresh" \in Iters
    BY DEF Iters
  <2>2. QED
    BY <1>0, <1>6, <1>15, <2>1, SubscribeIs
<1>19. BusTypes'
  BY <1>0, <1>1, <1>14, <1>17, <1>18 DEF BusTypes
<1>20. IdsInv' /\ StoredInv'
  <2>1. \A s \in Subs : HeldBy(subs'[s]) \subseteq HeldBy(subs[s])
    BY <1>18
  <2>2. QED
    BY <1>0, <1>1, <2>1, NothingNew
<1>21. ASSUME NEW c \in Clients PROVE Follow(c)'
  <2>1. CASE c # b
    <3>1. client'[c] = client[c] /\ Follow(c) /\ \A s \in Subs : HeldBy(subs'[s]) = HeldBy(subs[s])
      BY <1>0, <1>14, <1>18, <2>1 DEF FollowInv
    <3>2. QED
      BY <1>0, <1>1, <1>17, <3>1, FollowGrown
  <2>2. CASE c = b
    <3>1. Conn(b)' = z
      BY <1>5, <1>11, <1>14 DEF Conn
    <3>2. client'[b].pending = <<>>
      <4>1. Follow(b) /\ client[b].pc \in {"idle", "live", "closed"}
        BY <1>0, <1>1 DEF FollowInv
      <4>2. client[b].pending = <<>>
        BY <4>1 DEF Follow
      <4>3. QED
        BY <4>2, <1>2, <1>11, <1>14
    <3>3. m = "live" => Delivers(b)'
      BY <1>9, <1>11, <1>14 DEF Delivers
    <3>4. client'[b].pc = m /\ client'[b].cursor = id
      BY <1>11, <1>14
    <3>5. Follow(b)'
      BY <1>6, <1>9, <1>17, <3>1, <3>2, <3>3, <3>4 DEF Follow
    <3>6. QED
      BY <2>2, <3>5
  <2>3. QED
    BY <2>1, <2>2
<1>22. QED
  BY <1>19, <1>20, <1>21 DEF BusIInv, FollowInv

(* One pop: the head leaves the queue, the publishers waiting for the      *)
(* subscription may be woken, and nothing else changes.                    *)
Taken(z) ==
    /\ subs' \in [Subs -> SubRec] /\ \A s \in Subs : Bounded(subs'[s])
    /\ \A s \in Subs : HeldBy(subs'[s]) \subseteq HeldBy(subs[s])
    /\ \A s \in Subs : s # z => HeldBy(subs'[s]) = HeldBy(subs[s])
    /\ HeldBy(subs[z]) \subseteq HeldBy(subs'[z]) \cup {Head(subs[z].items)}
    /\ pub' \in [Publishers -> {Quiet} \cup EarlyPub \cup WaitPub]
    /\ \A p \in Publishers :
         \/ pub'[p] = pub[p]
         \/ /\ pub[p].pc = "blocked" /\ pub'[p].pc = "woken" /\ pub'[p].ev = pub[p].ev
            /\ pub'[p].sub = pub[p].sub /\ pub'[p].list = pub[p].list /\ pub'[p].at = pub[p].at

LEMMA PoppedIs ==
    ASSUME BusTypes, NEW z \in Subs, subs[z].items # <<>>, Popped(z)
    PROVE  Taken(z) /\ Head(subs[z].items) \in Events
<1>1. PICK g \in SubRec : g = subs[z] /\ Bounded(g)
  BY DEF BusTypes
<1>2. PICK q \in Seq(Events) : q = g.items /\ q # <<>>
  BY <1>1 DEF SubRec
<1>3. PICK l \in Nat \ {0} : l = Len(q)
  <2>1. Len(q) \in Nat /\ Len(q) # 0
    BY <1>2
  <2>2. QED
    BY <2>1
<1>4. PICK w \in Seq(Events) : w = Tail(q) /\ Len(w) = l - 1 /\ \A i \in 1 .. l - 1 : w[i] = q[i + 1]
  <2>1. Tail(q) \in Seq(Events) /\ Len(Tail(q)) = Len(q) - 1 /\ \A i \in 1 .. Len(q) - 1 : Tail(q)[i] = q[i + 1]
    BY <1>2, HeadTailProperties
  <2>2. QED
    BY <1>3, <2>1
<1>5. PICK e \in Events : e = Head(q) /\ e = q[1]
  BY <1>2, <1>3
<1>6. ToSet(w) \subseteq ToSet(q) /\ ToSet(q) \subseteq ToSet(w) \cup {e}
  <2>1. ToSet(w) = {w[i] : i \in 1 .. l - 1} /\ ToSet(q) = {q[i] : i \in 1 .. l}
    <3>1. DOMAIN w = 1 .. l - 1 /\ DOMAIN q = 1 .. l
      BY <1>3, <1>4
    <3>2. QED
      BY <3>1 DEF ToSet
  <2>2. ASSUME NEW i \in 1 .. l - 1 PROVE w[i] \in ToSet(q)
    <3>1. i + 1 \in 1 .. l
      OBVIOUS
    <3>2. QED
      BY <3>1, <1>4, <2>1
  <2>3. ASSUME NEW i \in 1 .. l PROVE q[i] \in ToSet(w) \cup {e}
    <3>1. CASE i = 1
      BY <3>1, <1>5
    <3>2. CASE i # 1
      <4>1. i - 1 \in 1 .. l - 1 /\ (i - 1) + 1 = i
        BY <3>2
      <4>2. w[i - 1] = q[i]
        BY <4>1, <1>4
      <4>3. QED
        BY <4>1, <4>2, <2>1
    <3>3. QED
      BY <3>1, <3>2
  <2>4. QED
    BY <2>1, <2>2, <2>3
<1>7. PICK wakes \in BOOLEAN : wakes = (Full(z) /\ ~subs[z].drained)
  OBVIOUS
<1>8. PICK d \in BOOLEAN : d = (g.drained \/ wakes)
  OBVIOUS
<1>9. PICK g1 : g1 = [g EXCEPT !.items = w]
  OBVIOUS
<1>10. g1 \in SubRec /\ g1.items = w /\ g1.lost = g.lost
  BY <1>9 DEF SubRec
<1>11. PICK g2 : g2 = [g1 EXCEPT !.iter = "running"]
  OBVIOUS
<1>12. g2 \in SubRec /\ g2.items = w /\ g2.lost = g.lost
  BY <1>10, <1>11 DEF SubRec, Iters
<1>13. PICK h : h = [g2 EXCEPT !.drained = d]
  OBVIOUS
<1>14. h \in SubRec /\ h.items = w /\ h.lost = g.lost
  BY <1>12, <1>13 DEF SubRec
<1>15. HeldBy(h) \subseteq HeldBy(g) /\ HeldBy(g) \subseteq HeldBy(h) \cup {e}
  BY <1>2, <1>6, <1>14 DEF HeldBy
<1>16. Bounded(h)
  <2>1. l <= MaxSize /\ MaxSize \in Nat
    BY <1>1, <1>2, <1>3, BusAssumption DEF Bounded
  <2>2. Len(w) <= MaxSize
    BY <2>1, <1>4
  <2>3. QED
    BY <2>2, <1>14 DEF Bounded
<1>17. subs \in [Subs -> SubRec] /\ \A s \in Subs : Bounded(subs[s])
  BY DEF BusTypes
<1>18. subs' = [subs EXCEPT ![z] = h]
  <2>1. subs' = [subs EXCEPT ![z].items = Tail(@), ![z].iter = "running", ![z].drained = @ \/ wakes]
    BY <1>7 DEF Popped
  <2>2. h = [g EXCEPT !.items = Tail(g.items), !.iter = "running", !.drained = g.drained \/ wakes]
    BY <1>2, <1>4, <1>8, <1>9, <1>11, <1>13
  <2>3. QED
    BY <1>1, <1>17, <2>1, <2>2 DEF SubRec
<1>19. subs' \in [Subs -> SubRec] /\ subs'[z] = h /\ \A s \in Subs : s # z => subs'[s] = subs[s]
  BY <1>14, <1>17, <1>18
<1>20. ASSUME NEW s \in Subs
       PROVE  /\ Bounded(subs'[s]) /\ HeldBy(subs'[s]) \subseteq HeldBy(subs[s])
              /\ s # z => HeldBy(subs'[s]) = HeldBy(subs[s])
  <2>1. CASE s = z
    BY <2>1, <1>1, <1>15, <1>16, <1>19
  <2>2. CASE s # z
    BY <2>2, <1>17, <1>19
  <2>3. QED
    BY <2>1, <2>2
<1>21. HeldBy(subs[z]) \subseteq HeldBy(subs'[z]) \cup {Head(subs[z].items)}
  BY <1>1, <1>2, <1>5, <1>15, <1>19
<1>22. ASSUME NEW p \in Publishers
       PROVE  /\ pub'[p] \in {Quiet} \cup EarlyPub \cup WaitPub
              /\ \/ pub'[p] = pub[p]
                 \/ /\ pub[p].pc = "blocked" /\ pub'[p].pc = "woken" /\ pub'[p].ev = pub[p].ev
                    /\ pub'[p].sub = pub[p].sub /\ pub'[p].list = pub[p].list /\ pub'[p].at = pub[p].at
  <2>1. pub[p] \in {Quiet} \cup EarlyPub \cup WaitPub
    BY DEF BusTypes
  <2>2. \/ pub'[p] = pub[p]
        \/ pub[p].pc = "blocked" /\ pub'[p] = [pub[p] EXCEPT !.pc = "woken"]
    BY DEF Popped
  <2>3. CASE pub[p].pc = "blocked" /\ pub'[p] = [pub[p] EXCEPT !.pc = "woken"]
    <3>1. PICK x \in WaitPub : x = pub[p]
      BY <2>3, PubShape
    <3>2. PICK y : y = [x EXCEPT !.pc = "woken"]
      OBVIOUS
    <3>3. y \in WaitPub /\ y.pc = "woken" /\ y.ev = x.ev /\ y.sub = x.sub /\ y.list = x.list /\ y.at = x.at
      BY <3>2 DEF WaitPub
    <3>4. QED
      BY <2>3, <3>1, <3>2, <3>3
  <2>4. QED
    BY <2>1, <2>2, <2>3
<1>23. pub' \in [Publishers -> {Quiet} \cup EarlyPub \cup WaitPub]
  <2>1. pub' = [p \in Publishers |-> pub'[p]]
    BY DEF Popped
  <2>2. \A p \in Publishers : pub'[p] \in {Quiet} \cup EarlyPub \cup WaitPub
    BY <1>22
  <2>3. QED
    BY <2>1, <2>2
<1>24. Taken(z)
  BY <1>19, <1>20, <1>21, <1>22, <1>23 DEF Taken
<1>25. QED
  BY <1>1, <1>2, <1>5, <1>24

LEMMA TakenKeeps ==
    ASSUME BusIInv, NEW z \in Subs, Taken(z), UNCHANGED <<bucket, rows, frames, busClosed, count, missed>>
    PROVE  /\ IdsInv' /\ StoredInv'
           /\ \A i, s : \A p \in Publishers : Waits(p, s, i) => Waits(p, s, i)'
           /\ \A c \in Clients : client'[c] = client[c] /\ Conn(c) # z => Follow(c)'
<1>0. BusTypes /\ IdsInv /\ StoredInv /\ FollowInv
  BY DEF BusIInv
<1>1. IdsInv' /\ StoredInv'
  <2>1. \A q \in Publishers : pub'[q] = pub[q] \/ (/\ pub[q].pc = "blocked" /\ pub'[q].pc = "woken"
                                                   /\ pub'[q].ev = pub[q].ev)
    BY DEF Taken
  <2>2. \A s \in Subs : HeldBy(subs'[s]) \subseteq HeldBy(subs[s])
    BY DEF Taken
  <2>3. QED
    BY <1>0, <2>1, <2>2, NothingNew
<1>2. ASSUME NEW i, NEW s, NEW p \in Publishers, Waits(p, s, i) PROVE Waits(p, s, i)'
  <2>1. \/ pub'[p] = pub[p]
        \/ /\ pub[p].pc = "blocked" /\ pub'[p].pc = "woken" /\ pub'[p].ev = pub[p].ev
           /\ pub'[p].sub = pub[p].sub /\ pub'[p].list = pub[p].list /\ pub'[p].at = pub[p].at
    BY DEF Taken
  <2>2. \A t \in Topics, j \in Nat \ {0} : InRest(t, j, s) => InRest(t, j, s)'
    BY DEF InRest, Registered
  <2>3. QED
    BY <1>0, <1>2, <2>1, <2>2, WaitsKept
<1>3. ASSUME NEW c \in Clients, client'[c] = client[c], Conn(c) # z PROVE Follow(c)'
  <2>1. PICK s : s = Conn(c)
    OBVIOUS
  <2>2. ASSUME s \in Conns, NEW i, Held(s, i) PROVE Held(s, i)'
    <3>1. HeldBy(subs'[s]) = HeldBy(subs[s])
      BY <1>3, <2>1, <2>2 DEF Subs, Taken
    <3>2. QED
      BY <3>1, <2>2 DEF Held
  <2>3. /\ missed \subseteq missed' /\ (busClosed => busClosed') /\ Follow(c)
        /\ (Registered(s) => Registered(s)')
    BY <1>0 DEF FollowInv, Registered
  <2>4. QED
    BY <1>0, <1>2, <1>3, <2>1, <2>2, <2>3, FollowSame
<1>4. QED
  BY <1>1, <1>2, <1>3

LEMMA ConsumerTakeKeeps ==
    ASSUME BusIInv, NEW z \in Consumers, ConsumerTake(z)
    PROVE  BusIInv'
<1>0. BusTypes /\ IdsInv /\ StoredInv /\ FollowInv
  BY DEF BusIInv
<1>1. subs[z].items # <<>> /\ Popped(z) /\ UNCHANGED <<bucket, rows, frames, busClosed, count, client, missed>>
  BY DEF ConsumerTake
<1>2. z \in Subs
  BY DEF Subs
<1>3. Taken(z)
  BY <1>0, <1>1, <1>2, PoppedIs
<1>4. /\ IdsInv' /\ StoredInv'
      /\ \A c \in Clients : client'[c] = client[c] /\ Conn(c) # z => Follow(c)'
  BY <1>1, <1>2, <1>3, TakenKeeps
<1>5. BusTypes'
  BY <1>0, <1>1, <1>3 DEF BusTypes, Taken
<1>6. ASSUME NEW c \in Clients PROVE Follow(c)'
  <2>1. CASE Conn(c) \in Conns
    <3>1. Conn(c) # z
      BY <2>1, SubsAssumption
    <3>2. QED
      BY <1>1, <1>4, <3>1
  <2>2. CASE Conn(c) \notin Conns
    BY <1>0, <1>1, <2>2 DEF FollowInv, Follow
  <2>3. QED
    BY <2>1, <2>2
<1>7. QED
  BY <1>4, <1>5, <1>6 DEF BusIInv, FollowInv

(* The client's record after one event went out.                           *)
LEMMA SentIs ==
    ASSUME BusTypes, NEW b \in Clients, NEW d \in EventIds, NEW x \in Cursors, NEW w \in Seq(Fetched), NEW v,
           v = [[[client[b] EXCEPT !.pending = w] EXCEPT !.seen = client[b].seen \cup {d}] EXCEPT !.lastId = x],
           client' = [client EXCEPT ![b] = v]
    PROVE  /\ client' \in [Clients -> ClientRec]
           /\ \A c \in Clients : c # b => client'[c] = client[c]
           /\ client'[b].pc = client[b].pc /\ client'[b].conn = client[b].conn
           /\ client'[b].cursor = client[b].cursor /\ client'[b].pending = w
           /\ client'[b].seen = client[b].seen \cup {d} /\ client'[b].cut = client[b].cut
<1>1. PICK r \in ClientRec : r = client[b]
  BY DEF BusTypes
<1>2. PICK n \in SUBSET EventIds : n = r.seen \cup {d}
  BY DEF ClientRec
<1>3. PICK r1 : r1 = [r EXCEPT !.pending = w]
  OBVIOUS
<1>4. /\ r1 \in ClientRec /\ r1.pending = w /\ r1.pc = r.pc /\ r1.conn = r.conn
      /\ r1.cursor = r.cursor /\ r1.cut = r.cut
  BY <1>3 DEF ClientRec
<1>5. PICK r2 : r2 = [r1 EXCEPT !.seen = n]
  OBVIOUS
<1>6. /\ r2 \in ClientRec /\ r2.pending = w /\ r2.pc = r.pc /\ r2.conn = r.conn
      /\ r2.cursor = r.cursor /\ r2.cut = r.cut /\ r2.seen = n
  BY <1>4, <1>5 DEF ClientRec
<1>7. v = [r2 EXCEPT !.lastId = x]
  BY <1>1, <1>2, <1>3, <1>5
<1>8. /\ v \in ClientRec /\ v.pending = w /\ v.pc = r.pc /\ v.conn = r.conn
      /\ v.cursor = r.cursor /\ v.cut = r.cut /\ v.seen = n
  BY <1>6, <1>7 DEF ClientRec
<1>9. client \in [Clients -> ClientRec]
  BY DEF BusTypes
<1>10. QED
  BY <1>1, <1>2, <1>8, <1>9

LEMMA SendLiveKeeps ==
    ASSUME BusIInv, NEW b \in Clients, SendLive(b)
    PROVE  BusIInv'
<1>0. BusTypes /\ IdsInv /\ StoredInv /\ FollowInv
  BY DEF BusIInv
<1>1. /\ client[b].pc = "live" /\ subs[Conn(b)].items # <<>> /\ Popped(Conn(b))
      /\ UNCHANGED <<bucket, rows, frames, busClosed, count, missed>>
  BY DEF SendLive
<1>2. Conn(b) \in Conns /\ client[b].pending = <<>> /\ Follow(b)
  BY <1>0, <1>1 DEF FollowInv, Follow, Following
<1>3. PICK z \in Subs : z = Conn(b)
  BY <1>2 DEF Subs
<1>4. Taken(z) /\ Head(subs[z].items) \in Events
  BY <1>0, <1>1, <1>3, PoppedIs
<1>5. PICK e \in Events : e = Head(subs[z].items)
  BY <1>4
<1>6. PICK d \in EventIds : d = e.id
  BY DEF Events, EventIds
<1>7. PICK x \in Cursors : x = IF e.kind = "legacy" THEN [kind |-> "frame", n |-> e.id] ELSE [kind |-> "uuid", n |-> 0]
  <2>1. e.id \in Nat
    BY <1>6 DEF EventIds
  <2>2. [kind |-> "frame", n |-> e.id] \in Cursors /\ [kind |-> "uuid", n |-> 0] \in Cursors
    BY <2>1 DEF Cursors
  <2>3. QED
    BY <2>2, Zenon
<1>8. PICK r \in ClientRec : r = client[b]
  BY <1>0 DEF BusTypes
<1>9. PICK v : v = [[[r EXCEPT !.pending = <<>>] EXCEPT !.seen = r.seen \cup {d}] EXCEPT !.lastId = x]
  OBVIOUS
<1>10. client' = [client EXCEPT ![b] = v]
  <2>1. client' = [client EXCEPT ![b].seen = @ \cup {d}, ![b].lastId = x]
    BY <1>3, <1>5, <1>6, <1>7 DEF SendLive
  <2>2. [r EXCEPT !.pending = <<>>] = r
    BY <1>2, <1>8 DEF ClientRec
  <2>3. v = [r EXCEPT !.seen = r.seen \cup {d}, !.lastId = x]
    BY <1>9, <2>2
  <2>4. client \in [Clients -> ClientRec]
    BY <1>0 DEF BusTypes
  <2>5. QED
    BY <1>8, <2>1, <2>3, <2>4 DEF ClientRec
<1>11. /\ client' \in [Clients -> ClientRec]
       /\ \A c \in Clients : c # b => client'[c] = client[c]
       /\ client'[b].pc = client[b].pc /\ client'[b].conn = client[b].conn
       /\ client'[b].cursor = client[b].cursor /\ client'[b].pending = <<>>
       /\ client'[b].seen = client[b].seen \cup {d} /\ client'[b].cut = client[b].cut
  <2>1. <<>> \in Seq(Fetched)
    OBVIOUS
  <2>2. v = [[[client[b] EXCEPT !.pending = <<>>] EXCEPT !.seen = client[b].seen \cup {d}] EXCEPT !.lastId = x]
    BY <1>8, <1>9
  <2>3. QED
    BY <1>0, <1>10, <2>1, <2>2, SentIs
<1>12. /\ IdsInv' /\ StoredInv'
       /\ \A i, s : \A p \in Publishers : Waits(p, s, i) => Waits(p, s, i)'
       /\ \A c \in Clients : client'[c] = client[c] /\ Conn(c) # z => Follow(c)'
  BY <1>1, <1>4, TakenKeeps
<1>13. BusTypes'
  BY <1>0, <1>1, <1>4, <1>11 DEF BusTypes, Taken
<1>14. ASSUME NEW c \in Clients, c # b PROVE Follow(c)'
  <2>1. Conn(c) # z
    BY <1>3, <1>14 DEF Conn
  <2>2. QED
    BY <1>11, <1>12, <1>14, <2>1
<1>15. Follow(b)'
  <2>1. Conn(b)' = z
    BY <1>3, <1>11 DEF Conn
  <2>2. ASSUME NEW i, Held(z, i) PROVE Held(z, i)' \/ i \in client'[b].seen
    <3>1. PICK y \in HeldBy(subs[z]) : y.id = i
      BY <2>2 DEF Held
    <3>2. y \in HeldBy(subs'[z]) \/ y = e
      BY <3>1, <1>4, <1>5 DEF Taken
    <3>3. QED
      BY <3>1, <3>2, <1>6, <1>11 DEF Held
  <2>3. ASSUME NEW i, Reckoned(b, i) PROVE Reckoned(b, i)'
    <3>1. client[b].seen \subseteq client'[b].seen /\ client[b].cut \subseteq client'[b].cut /\ missed \subseteq missed'
      BY <1>1, <1>11
    <3>2. \A p \in Publishers : Waits(p, z, i) =>
               (\E q \in Publishers : Waits(q, z, i)') \/ Held(z, i)' \/ Jumped_(z, i)'
      BY <1>12
    <3>3. Held(z, i) => Held(z, i)' \/ i \in client'[b].seen
      BY <2>2
    <3>4. QED
      BY <1>3, <2>1, <2>3, <3>1, <3>2, <3>3, ReckonedKept
  <2>4. Registered(Conn(b)) => Registered(Conn(b))'
    BY <1>1, <1>3, <2>1 DEF Registered
  <2>5. rows' \in Seq(Events) /\ rows' = rows /\ frames' \ frames = {}
    BY <1>0, <1>1 DEF BusTypes
  <2>6. Len(rows) <= Len(rows') /\ Len(rows) + 1 .. Len(rows') = {}
    BY <2>5
  <2>7. \A n \in 1 .. Len(rows) : rows'[n] = rows[n]
    BY <2>5
  <2>8. client'[b].pending = client[b].pending /\ (busClosed => busClosed')
    BY <1>1, <1>2, <1>11
  <2>9. QED
    BY <1>0, <1>2, <1>11, <2>3, <2>4, <2>5, <2>6, <2>7, <2>8, FollowKept
<1>16. QED
  BY <1>12, <1>13, <1>14, <1>15 DEF BusIInv, FollowInv

(* The list after an entry left it: the others are in it, in order, and a  *)
(* walk that is before the entry still has in front of it what it had.     *)
LEMMA ListShrinks ==
    ASSUME bucket \in [Topics -> Seq(Subs)], NEW u \in Topics, NEW m \in 1 .. Len(bucket[u]),
           bucket' = [bucket EXCEPT ![u] = RemoveAt(@, m)]
    PROVE  /\ bucket' \in [Topics -> Seq(Subs)]
           /\ \A t \in Topics : t # u => bucket'[t] = bucket[t]
           /\ \A j \in 1 .. Len(bucket[u]) :
                /\ j < m => j \in 1 .. Len(bucket'[u]) /\ bucket'[u][j] = bucket[u][j]
                /\ j > m => j - 1 \in 1 .. Len(bucket'[u]) /\ bucket'[u][j - 1] = bucket[u][j]
<1>1. PICK b \in Seq(Subs), l \in Nat : b = bucket[u] /\ l = Len(b)
  OBVIOUS
<1>2. m \in DOMAIN b /\ m \in 1 .. l
  BY <1>1
<1>3. PICK w : w = RemoveAt(b, m)
  OBVIOUS
<1>4. /\ w \in Seq(Subs) /\ Len(w) = l - 1
      /\ \A j \in 1 .. l - 1 : w[j] = b[IF j < m THEN j ELSE j + 1]
  BY <1>1, <1>2, <1>3, RemoveAtIs
<1>5. bucket' = [bucket EXCEPT ![u] = w]
  BY <1>1, <1>3
<1>6. /\ bucket' \in [Topics -> Seq(Subs)] /\ bucket'[u] = w
      /\ \A t \in Topics : t # u => bucket'[t] = bucket[t]
  BY <1>4, <1>5
<1>7. ASSUME NEW j \in 1 .. l
      PROVE  /\ j < m => j \in 1 .. l - 1 /\ w[j] = b[j]
             /\ j > m => j - 1 \in 1 .. l - 1 /\ w[j - 1] = b[j]
  <2>1. CASE j < m
    <3>1. j \in 1 .. l - 1 /\ ~(j > m)
      BY <2>1, <1>2
    <3>2. QED
      BY <2>1, <3>1, <1>4
  <2>2. CASE j > m
    <3>1. j - 1 \in 1 .. l - 1 /\ ~(j - 1 < m) /\ (j - 1) + 1 = j /\ ~(j < m)
      BY <2>2, <1>2
    <3>2. QED
      BY <3>1, <1>4
  <2>3. CASE j = m
    BY <2>3
  <2>4. QED
    BY <2>1, <2>2, <2>3, <1>2
<1>8. QED
  BY <1>1, <1>4, <1>6, <1>7

(* The subscription's iterator is done; its queue is what it was.          *)
LEMMA DoneIs ==
    ASSUME BusTypes, NEW z \in Subs, subs' = [subs EXCEPT ![z].iter = "done"]
    PROVE  /\ subs' \in [Subs -> SubRec]
           /\ \A s \in Subs : Bounded(subs'[s]) /\ HeldBy(subs'[s]) = HeldBy(subs[s])
<1>1. PICK g \in SubRec : g = subs[z] /\ Bounded(g)
  BY DEF BusTypes
<1>2. PICK h : h = [g EXCEPT !.iter = "done"]
  OBVIOUS
<1>3. h \in SubRec /\ h.items = g.items /\ h.lost = g.lost
  BY <1>2 DEF SubRec, Iters
<1>4. Bounded(h) /\ HeldBy(h) = HeldBy(g)
  BY <1>1, <1>3 DEF Bounded, HeldBy
<1>5. subs \in [Subs -> SubRec] /\ \A s \in Subs : Bounded(subs[s])
  BY DEF BusTypes
<1>6. subs' = [subs EXCEPT ![z] = h]
  BY <1>1, <1>2, <1>5
<1>7. subs' \in [Subs -> SubRec] /\ subs'[z] = h /\ \A s \in Subs : s # z => subs'[s] = subs[s]
  BY <1>3, <1>5, <1>6
<1>8. QED
  BY <1>1, <1>3, <1>4, <1>5, <1>7

LEMMA ConsumerEndsKeeps ==
    ASSUME BusIInv, NEW z \in Consumers, ConsumerEnds(z)
    PROVE  BusIInv'
<1>0. BusTypes /\ IdsInv /\ StoredInv /\ FollowInv
  BY DEF BusIInv
<1>1. /\ subs' = [subs EXCEPT ![z].iter = "done"] /\ Unregister(z)
      /\ UNCHANGED <<pub, rows, frames, busClosed, count, client>>
  BY DEF ConsumerEnds
<1>2. z \in Subs /\ TopicOf(z) = "class" /\ "class" \in Topics /\ "*" \in Topics
  BY SubsAssumption DEF Subs, TopicOf, Topics
<1>3. /\ subs' \in [Subs -> SubRec]
      /\ \A s \in Subs : Bounded(subs'[s]) /\ HeldBy(subs'[s]) = HeldBy(subs[s])
  BY <1>0, <1>1, <1>2, DoneIs
<1>4. bucket \in [Topics -> Seq(Subs)]
  BY <1>0 DEF BusTypes
<1>5. bucket' \in [Topics -> Seq(Subs)] /\ bucket'["*"] = bucket["*"] /\ missed \subseteq missed'
  <2>1. CASE \E i \in 1 .. Len(bucket["class"]) : bucket["class"][i] = z
    <3>1. PICK m : m = CHOOSE j \in 1 .. Len(bucket["class"]) : bucket["class"][j] = z
      OBVIOUS
    <3>2. m \in 1 .. Len(bucket["class"])
      BY <2>1, <3>1
    <3>3. bucket' = [bucket EXCEPT !["class"] = RemoveAt(@, m)] /\ missed \subseteq missed'
      BY <1>1, <1>2, <2>1, <3>1, ZenonT(30) DEF Unregister
    <3>4. /\ bucket' \in [Topics -> Seq(Subs)]
          /\ \A t \in Topics : t # "class" => bucket'[t] = bucket[t]
      BY <1>2, <1>4, <3>2, <3>3, ListShrinks
    <3>5. QED
      BY <1>2, <3>3, <3>4
  <2>2. CASE ~\E i \in 1 .. Len(bucket["class"]) : bucket["class"][i] = z
    <3>1. bucket' = bucket /\ missed' = missed
      BY <1>1, <1>2, <2>2 DEF Unregister
    <3>2. QED
      BY <1>4, <3>1
  <2>3. QED
    BY <2>1, <2>2
<1>6. BusTypes'
  BY <1>0, <1>1, <1>3, <1>5 DEF BusTypes
<1>7. IdsInv' /\ StoredInv'
  <2>1. \A s \in Subs : HeldBy(subs'[s]) \subseteq HeldBy(subs[s])
    BY <1>3
  <2>2. QED
    BY <1>0, <1>1, <2>1, NothingNew
<1>8. ASSUME NEW c \in Clients PROVE Follow(c)'
  <2>1. PICK s : s = Conn(c)
    OBVIOUS
  <2>2. ASSUME s \in Conns, NEW i, Held(s, i) PROVE Held(s, i)'
    <3>1. HeldBy(subs'[s]) = HeldBy(subs[s])
      BY <1>3, <2>2 DEF Subs
    <3>2. QED
      BY <3>1, <2>2 DEF Held
  <2>3. ASSUME Registered(s), NEW i, NEW q \in Publishers, Waits(q, s, i) PROVE Waits(q, s, i)'
    <3>1. pub'[q] = pub[q] /\ Registered(s)'
      BY <1>1, <1>5, <2>3 DEF Registered
    <3>2. \A t \in Topics, j \in Nat \ {0} : InRest(t, j, s) => InRest(t, j, s)'
      BY <1>5, <3>1 DEF InRest, Topics
    <3>3. QED
      BY <1>0, <2>3, <3>1, <3>2, WaitsKept
  <2>4. client'[c] = client[c] /\ missed \subseteq missed' /\ (busClosed => busClosed') /\ Follow(c)
    BY <1>0, <1>1, <1>5 DEF FollowInv
  <2>5. Registered(s) => Registered(s)'
    BY <1>5 DEF Registered
  <2>6. QED
    BY <1>0, <1>1, <2>1, <2>2, <2>3, <2>4, <2>5, FollowSame
<1>9. QED
  BY <1>6, <1>7, <1>8 DEF BusIInv, FollowInv

(* What a stream's end does to the walks through "*": a subscription that  *)
(* was in front of one is still in front of it, or it is the one jumped    *)
(* over.                                                                   *)
LEMMA StreamsShrink ==
    ASSUME BusTypes, NEW z, NEW m \in 1 .. Len(bucket["*"]), bucket["*"][m] = z,
           bucket' = [bucket EXCEPT !["*"] = RemoveAt(@, m)],
           missed' = missed \cup Jumped("*", m), pub' = pub,
           NEW s, s # z
    PROVE  /\ Registered(s) => Registered(s)'
           /\ \A i : \A p \in Publishers : Waits(p, s, i) => Waits(p, s, i)' \/ Jumped_(s, i)'
<1>0. bucket \in [Topics -> Seq(Subs)] /\ "*" \in Topics /\ "class" \in Topics
  BY DEF BusTypes, Topics
<1>1. PICK b \in Seq(Subs), l \in Nat : b = bucket["*"] /\ l = Len(b)
  BY <1>0
<1>2. PICK w, k : w = bucket'["*"] /\ k = Len(w)
  OBVIOUS
<1>3. /\ bucket'["class"] = bucket["class"]
      /\ \A j \in 1 .. l :
           /\ j < m => j \in 1 .. k /\ w[j] = b[j]
           /\ j > m => j - 1 \in 1 .. k /\ w[j - 1] = b[j]
  <2>1. /\ \A t \in Topics : t # "*" => bucket'[t] = bucket[t]
        /\ \A j \in 1 .. Len(bucket["*"]) :
                /\ j < m => j \in 1 .. Len(bucket'["*"]) /\ bucket'["*"][j] = bucket["*"][j]
                /\ j > m => j - 1 \in 1 .. Len(bucket'["*"]) /\ bucket'["*"][j - 1] = bucket["*"][j]
    BY <1>0, ListShrinks
  <2>2. QED
    BY <1>0, <1>1, <1>2, <2>1
<1>4. m \in 1 .. l /\ k \in Nat
  <2>1. bucket' \in [Topics -> Seq(Subs)]
    BY <1>0, ListShrinks
  <2>2. QED
    BY <1>0, <1>1, <1>2, <2>1
<1>5. \A j \in 1 .. l : b[j] = s => j # m
  BY <1>1
<1>6. ASSUME Registered(s) PROVE Registered(s)'
  <2>1. PICK j \in 1 .. l : b[j] = s
    BY <1>1, <1>6 DEF Registered
  <2>2. j < m \/ j > m
    BY <1>4, <1>5, <2>1
  <2>3. \E x \in 1 .. k : w[x] = s
    BY <1>3, <2>1, <2>2
  <2>4. QED
    BY <1>2, <2>3 DEF Registered
<1>7. ASSUME NEW i, NEW p \in Publishers, Waits(p, s, i), ~Jumped_(s, i)' PROVE Waits(p, s, i)'
  <2>0. Active(p) /\ pub[p].ev.id = i /\ pub'[p] = pub[p] /\ (Active(p)')
    BY <1>7 DEF Waits, Active
  <2>1. CASE pub[p].pc \notin {"blocked", "woken"}
    BY <2>0, <2>1 DEF Waits
  <2>2. CASE pub[p].pc \in {"blocked", "woken"}
    <3>1. PICK t \in Topics, a \in Nat, e \in Events : t = pub[p].list /\ a = pub[p].at /\ e = pub[p].ev
      BY <2>2, PubShape
    <3>2. s = pub[p].sub \/ InRest(t, a + 1, s)
      BY <1>7, <2>2, <3>1 DEF Waits
    <3>3. InRest(pub[p].list, pub[p].at + 1, s)' <=> InRest(t, a + 1, s)'
      BY <2>0, <3>1 DEF InRest
    <3>4. CASE s = pub[p].sub
      BY <2>0, <3>4 DEF Waits
    <3>5. CASE t = "class" /\ InRest(t, a + 1, s)
      <4>1. InRest(t, a + 1, s)'
        BY <3>5, <1>3, <1>6 DEF InRest
      <4>2. QED
        BY <2>0, <3>3, <4>1 DEF Waits
    <3>6. CASE t = "*" /\ InRest(t, a + 1, s)
      <4>1. PICK j \in a + 1 .. l : b[j] = s
        BY <1>1, <3>6 DEF InRest
      <4>2. j \in 1 .. l /\ (j < m \/ j > m)
        BY <1>4, <1>5, <4>1
      <4>3. ~(j = a + 1 /\ m <= a)
        <5>1. SUFFICES ASSUME j = a + 1, m <= a PROVE FALSE
          OBVIOUS
        <5>2. a < l /\ b[a + 1] = s
          BY <4>1, <5>1
        <5>3. p \in {q \in Publishers : /\ pub[q].pc \in {"blocked", "woken"}
                                  /\ pub[q].list = "*" /\ m <= pub[q].at
                                  /\ pub[q].at < Len(bucket["*"])}
          BY <1>1, <2>2, <3>1, <3>6, <5>1, <5>2
        <5>4. <<bucket["*"][pub[p].at + 1], pub[p].ev>> \in Jumped("*", m)
          BY <5>3 DEF Jumped
        <5>5. <<s, e>> \in missed'
          BY <1>1, <3>1, <5>2, <5>4
        <5>6. QED
          BY <1>7, <2>0, <3>1, <5>5 DEF Jumped_
      <4>4. \E x \in a + 1 .. k : w[x] = s
        <5>1. CASE j < m
          <6>1. j \in 1 .. k /\ w[j] = s
            BY <1>3, <4>1, <4>2, <5>1
          <6>2. j \in a + 1 .. k
            BY <4>1, <6>1, <1>4
          <6>3. QED
            BY <6>1, <6>2
        <5>2. CASE j > m
          <6>1. j - 1 \in 1 .. k /\ w[j - 1] = s
            BY <1>3, <4>1, <4>2, <5>2
          <6>2. j - 1 \in a + 1 .. k
            BY <4>1, <4>3, <5>2, <6>1, <1>4
          <6>3. QED
            BY <6>1, <6>2
        <5>3. QED
          BY <4>2, <5>1, <5>2
      <4>5. InRest(t, a + 1, s)'
        BY <1>2, <3>6, <4>4 DEF InRest
      <4>6. QED
        BY <2>0, <3>3, <4>5 DEF Waits
    <3>7. QED
      BY <3>2, <3>4, <3>5, <3>6 DEF Topics
  <2>3. QED
    BY <2>1, <2>2
<1>8. QED
  BY <1>6, <1>7

LEMMA StreamCloseKeeps ==
    ASSUME BusIInv, NEW b \in Clients, StreamClose(b)
    PROVE  BusIInv'
<1>0. BusTypes /\ IdsInv /\ StoredInv /\ FollowInv
  BY DEF BusIInv
<1>1. /\ client[b].pc \notin {"idle", "closed"} /\ UNCHANGED <<pub, rows, frames, busClosed, count>>
      /\ client' = [client EXCEPT ![b].pc = "closed", ![b].pending = <<>>]
  BY DEF StreamClose
<1>2. PICK r \in ClientRec : r = client[b]
  BY <1>0 DEF BusTypes
<1>3. PICK r1 : r1 = [r EXCEPT !.pc = "closed"]
  OBVIOUS
<1>4. r1 \in ClientRec /\ r1.pc = "closed"
  BY <1>3 DEF ClientRec
<1>5. PICK v : v = [r1 EXCEPT !.pending = <<>>]
  OBVIOUS
<1>6. v \in ClientRec /\ v.pc = "closed" /\ v.pending = <<>>
  <2>1. <<>> \in Seq(Fetched)
    OBVIOUS
  <2>2. QED
    BY <1>4, <1>5, <2>1 DEF ClientRec
<1>7. client \in [Clients -> ClientRec]
  BY <1>0 DEF BusTypes
<1>8. client' = [client EXCEPT ![b] = v]
  BY <1>1, <1>2, <1>3, <1>5, <1>7
<1>9. /\ client' \in [Clients -> ClientRec] /\ client'[b] = v
      /\ \A c \in Clients : c # b => client'[c] = client[c]
  BY <1>6, <1>7, <1>8
<1>10. Follow(b)'
  BY <1>6, <1>9 DEF Follow, Following
<1>11. CASE client[b].pc # "live"
  <2>1. UNCHANGED <<subs, bucket, missed>>
    BY <1>11 DEF StreamClose
  <2>2. BusTypes'
    BY <1>0, <1>1, <1>9, <2>1 DEF BusTypes
  <2>3. IdsInv' /\ StoredInv'
    <3>1. \A s \in Subs : HeldBy(subs'[s]) \subseteq HeldBy(subs[s])
      BY <2>1
    <3>2. QED
      BY <1>0, <1>1, <3>1, NothingNew
  <2>4. ASSUME NEW c \in Clients, c # b PROVE Follow(c)'
    <3>1. \A s : Registered(s) => Registered(s)'
      BY <2>1 DEF Registered
    <3>2. \A s : \A t \in Topics, i \in Nat \ {0} : InRest(t, i, s) => InRest(t, i, s)'
      BY <2>1 DEF InRest, Registered
    <3>3. client'[c] = client[c] /\ Follow(c) /\ \A s \in Subs : HeldBy(subs'[s]) = HeldBy(subs[s])
      BY <1>0, <1>9, <2>1, <2>4 DEF FollowInv
    <3>4. QED
      BY <1>0, <1>1, <2>1, <3>1, <3>2, <3>3, FollowGrown
  <2>5. QED
    BY <1>10, <2>2, <2>3, <2>4 DEF BusIInv, FollowInv
<1>12. CASE client[b].pc = "live"
  <2>1. Conn(b) \in Conns /\ Registered(Conn(b))
    BY <1>0, <1>12 DEF FollowInv, Follow, Following
  <2>2. PICK z \in Subs : z = Conn(b)
    BY <2>1 DEF Subs
  <2>3. TopicOf(z) = "*" /\ "*" \in Topics
    BY <2>1, <2>2 DEF TopicOf, Topics
  <2>4. subs' = [subs EXCEPT ![z].iter = "done"] /\ Unregister(z)
    BY <1>12, <2>2 DEF StreamClose
  <2>5. /\ subs' \in [Subs -> SubRec]
        /\ \A s \in Subs : Bounded(subs'[s]) /\ HeldBy(subs'[s]) = HeldBy(subs[s])
    BY <1>0, <2>4, DoneIs
  <2>6. PICK m : m = CHOOSE j \in 1 .. Len(bucket["*"]) : bucket["*"][j] = z
    OBVIOUS
  <2>7. m \in 1 .. Len(bucket["*"]) /\ bucket["*"][m] = z /\ \E j \in 1 .. Len(bucket["*"]) : bucket["*"][j] = z
    BY <2>1, <2>2, <2>6 DEF Registered
  <2>8. bucket' = [bucket EXCEPT !["*"] = RemoveAt(@, m)] /\ missed' = missed \cup Jumped("*", m)
    BY <2>3, <2>4, <2>6, <2>7 DEF Unregister
  <2>9. bucket' \in [Topics -> Seq(Subs)]
    <3>1. bucket \in [Topics -> Seq(Subs)]
      BY <1>0 DEF BusTypes
    <3>2. QED
      BY <2>3, <2>7, <2>8, <3>1, ListShrinks
  <2>10. BusTypes'
    BY <1>0, <1>1, <1>9, <2>5, <2>9 DEF BusTypes
  <2>11. IdsInv' /\ StoredInv'
    <3>1. \A s \in Subs : HeldBy(subs'[s]) \subseteq HeldBy(subs[s])
      BY <2>5
    <3>2. QED
      BY <1>0, <1>1, <3>1, NothingNew
  <2>12. ASSUME NEW c \in Clients, c # b PROVE Follow(c)'
    <3>1. PICK s : s = Conn(c)
      OBVIOUS
    <3>2. s # z
      BY <2>2, <2>12, <3>1 DEF Conn
    <3>3. /\ Registered(s) => Registered(s)'
          /\ \A i : \A p \in Publishers : Waits(p, s, i) => Waits(p, s, i)' \/ Jumped_(s, i)'
      BY <1>0, <1>1, <2>7, <2>8, <3>2, StreamsShrink
    <3>4. ASSUME s \in Conns, NEW i, Held(s, i) PROVE Held(s, i)'
      <4>1. HeldBy(subs'[s]) = HeldBy(subs[s])
        BY <2>5, <3>4 DEF Subs
      <4>2. QED
        BY <4>1, <3>4 DEF Held
    <3>5. client'[c] = client[c] /\ missed \subseteq missed' /\ (busClosed => busClosed') /\ Follow(c)
      BY <1>0, <1>1, <1>9, <2>8, <2>12 DEF FollowInv
    <3>6. QED
      BY <1>0, <1>1, <3>1, <3>3, <3>4, <3>5, FollowSame
  <2>13. QED
    BY <1>10, <2>10, <2>11, <2>12 DEF BusIInv, FollowInv
<1>13. QED
  BY <1>11, <1>12

(* A client whose fetch or send is its own affair: the others follow on.   *)
LEMMA OthersFollow ==
    ASSUME BusIInv, NEW b \in Clients, client' \in [Clients -> ClientRec],
           \A c \in Clients : c # b => client'[c] = client[c], Follow(b)',
           UNCHANGED <<subs, bucket, pub, rows, frames, busClosed, count, missed>>
    PROVE  BusIInv'
<1>0. BusTypes /\ IdsInv /\ StoredInv /\ FollowInv
  BY DEF BusIInv
<1>1. BusTypes'
  BY <1>0 DEF BusTypes
<1>2. IdsInv' /\ StoredInv'
  <2>1. \A s \in Subs : HeldBy(subs'[s]) \subseteq HeldBy(subs[s])
    OBVIOUS
  <2>2. QED
    BY <1>0, <2>1, NothingNew
<1>3. ASSUME NEW c \in Clients, c # b PROVE Follow(c)'
  <2>1. \A s : Registered(s) => Registered(s)'
    BY DEF Registered
  <2>2. \A s : \A t \in Topics, i \in Nat \ {0} : InRest(t, i, s) => InRest(t, i, s)'
    BY DEF InRest, Registered
  <2>3. client'[c] = client[c] /\ Follow(c) /\ \A s \in Subs : HeldBy(subs'[s]) = HeldBy(subs[s])
    BY <1>0, <1>3 DEF FollowInv
  <2>4. QED
    BY <1>0, <2>1, <2>2, <2>3, FollowGrown
<1>4. QED
  BY <1>1, <1>2, <1>3 DEF BusIInv, FollowInv

(* The client's record after a fetch.                                      *)
Fetches(b, w, left) ==
    /\ client' \in [Clients -> ClientRec]
    /\ \A c \in Clients : c # b => client'[c] = client[c]
    /\ client'[b].pc = "sending" /\ client'[b].conn = client[b].conn
    /\ client'[b].cursor = client[b].cursor /\ client'[b].pending = w /\ client'[b].cut = left

LEMMA FetchedIs ==
    ASSUME BusTypes, NEW b \in Clients, NEW w \in Seq(Fetched), NEW left \in IdSets,
           NEW v, v = [[[client[b] EXCEPT !.pc = "sending"] EXCEPT !.pending = w] EXCEPT !.cut = left],
           client' = [client EXCEPT ![b] = v]
    PROVE  Fetches(b, w, left)
<1>1. PICK r \in ClientRec : r = client[b]
  BY DEF BusTypes
<1>2. PICK r1 : r1 = [r EXCEPT !.pc = "sending"]
  OBVIOUS
<1>3. r1 \in ClientRec /\ r1.pc = "sending" /\ r1.conn = r.conn /\ r1.cursor = r.cursor
  BY <1>1, <1>2 DEF ClientRec, Following
<1>4. PICK r2 : r2 = [r1 EXCEPT !.pending = w]
  OBVIOUS
<1>5. r2 \in ClientRec /\ r2.pc = "sending" /\ r2.conn = r.conn /\ r2.cursor = r.cursor /\ r2.pending = w
  BY <1>3, <1>4 DEF ClientRec
<1>6. v = [r2 EXCEPT !.cut = left]
  BY <1>1, <1>2, <1>4
<1>7. /\ v \in ClientRec /\ v.pc = "sending" /\ v.conn = r.conn /\ v.cursor = r.cursor /\ v.pending = w
      /\ v.cut = left
  BY <1>5, <1>6 DEF ClientRec, IdSets
<1>8. client \in [Clients -> ClientRec]
  BY DEF BusTypes
<1>10. /\ client' \in [Clients -> ClientRec] /\ client'[b] = v
       /\ \A c \in Clients : c # b => client'[c] = client[c]
  <2>1. v \in ClientRec
    BY <1>7
  <2>2. QED
    BY <1>8, <2>1
<1>11. QED
  BY <1>1, <1>7, <1>10 DEF Fetches

LEMMA FetchReplayKeeps ==
    ASSUME BusIInv, NEW b \in Clients, FetchReplay(b)
    PROVE  BusIInv'
<1>0. BusTypes /\ IdsInv /\ StoredInv /\ FollowInv
  BY DEF BusIInv
<1>1. /\ client[b].pc = "replay" /\ UNCHANGED <<subs, bucket, pub, rows, frames, busClosed, count, missed>>
  BY DEF FetchReplay
<1>2. Follow(b) /\ Conn(b) \in Conns /\ Registered(Conn(b)) /\ client[b].cursor.kind = "durable"
  BY <1>0, <1>1 DEF FollowInv, Follow, Following
<1>3. PICK r \in ClientRec, n \in Nat : r = client[b] /\ n = client[b].cursor.n
  BY <1>0 DEF BusTypes, ClientRec, Cursors
<1>4. PICK l \in Nat : l = Len(rows) /\ rows \in Seq(Events)
  BY <1>0 DEF BusTypes
<1>5. PICK upto \in Int : upto = Min({ReplayLimit, l - n}) /\ upto <= l - n /\ (upto >= 0 \/ upto = l - n)
  <2>1. ReplayLimit \in Nat /\ ReplayLimit \in Int /\ l - n \in Int
    BY BusAssumption
  <2>2. Min({ReplayLimit, l - n}) = IF ReplayLimit <= l - n THEN ReplayLimit ELSE l - n
    BY <2>1, MinOfTwo
  <2>3. QED
    BY <2>1, <2>2
<1>6. PICK w : w = [k \in 1 .. upto |-> [id |-> rows[n + k].id, cursor |-> [kind |-> "durable", n |-> n + k]]]
  OBVIOUS
<1>7. PICK left : left = {rows[m].id : m \in n + upto + 1 .. l}
  OBVIOUS
<1>8. \A m \in 1 .. l : rows[m].id \in EventIds
  <2>1. \A m \in 1 .. l : rows[m] \in Events
    BY <1>4
  <2>2. QED
    BY <2>1 DEF Events, EventIds
<1>9. left \in IdSets
  <2>1. \A m \in n + upto + 1 .. l : m \in 1 .. l
    BY <1>5
  <2>2. QED
    BY <1>7, <1>8, <2>1 DEF IdSets
<1>10. w \in Seq(Fetched) /\ \A k \in 1 .. upto : k \in 1 .. Len(w) /\ w[k].id = rows[n + k].id
  <2>1. ASSUME NEW k \in 1 .. upto
        PROVE  [id |-> rows[n + k].id, cursor |-> [kind |-> "durable", n |-> n + k]] \in Fetched
    <3>1. n + k \in 1 .. l /\ n + k \in Nat
      BY <1>5
    <3>2. PICK x, y : x = rows[n + k].id /\ y = n + k
      OBVIOUS
    <3>3. x \in EventIds /\ y \in Nat
      BY <1>8, <3>1, <3>2
    <3>4. [kind |-> "durable", n |-> y] \in Cursors
      BY <3>3 DEF Cursors
    <3>5. [id |-> x, cursor |-> [kind |-> "durable", n |-> y]] \in Fetched
      BY <3>3, <3>4 DEF Fetched
    <3>6. QED
      BY <3>2, <3>5
  <2>2. PICK m \in Nat : 1 .. upto = 1 .. m
    <3>1. CASE upto >= 0
      BY <3>1
    <3>2. CASE upto < 0
      <4>1. 1 .. upto = 1 .. 0
        BY <3>2
      <4>2. QED
        BY <4>1
    <3>3. QED
      BY <3>1, <3>2
  <2>3. w \in [1 .. m -> Fetched]
    BY <1>6, <2>1, <2>2
  <2>4. w \in Seq(Fetched) /\ Len(w) = m
    BY <2>3
  <2>5. \A k \in 1 .. upto : w[k].id = rows[n + k].id
    BY <1>6
  <2>6. QED
    BY <2>2, <2>4, <2>5
<1>11. client' = [client EXCEPT ![b].pc = "sending", ![b].pending = w, ![b].cut = left]
  BY <1>3, <1>4, <1>5, <1>6, <1>7 DEF FetchReplay
<1>19. PICK v : v = [[[r EXCEPT !.pc = "sending"] EXCEPT !.pending = w] EXCEPT !.cut = left]
  OBVIOUS
<1>20. client' = [client EXCEPT ![b] = v]
  <2>1. client \in [Clients -> ClientRec] /\ r = client[b]
    BY <1>0, <1>3 DEF BusTypes
  <2>2. QED
    BY <1>11, <1>19, <2>1
<1>12. /\ client' \in [Clients -> ClientRec]
       /\ \A c \in Clients : c # b => client'[c] = client[c]
       /\ client'[b].pc = "sending" /\ client'[b].conn = client[b].conn
       /\ client'[b].cursor = client[b].cursor /\ client'[b].pending = w /\ client'[b].cut = left
  <2>1. v = [[[client[b] EXCEPT !.pc = "sending"] EXCEPT !.pending = w] EXCEPT !.cut = left]
    BY <1>3, <1>19
  <2>2. w \in Seq(Fetched)
    BY <1>10
  <2>3. BusTypes
    BY <1>0
  <2>4. Fetches(b, w, left)
    BY <1>9, <1>20, <2>1, <2>2, <2>3, FetchedIs
  <2>5. QED
    BY <2>4 DEF Fetches
<1>13. Conn(b)' = Conn(b)
  BY <1>3, <1>12 DEF Conn
<1>14. ASSUME NEW m \in n + 1 .. l, NEW i, i = rows'[m].id PROVE Covered(b, i)'
  <2>1. i = rows[m].id
    BY <1>1, <1>14
  <2>2. CASE m <= n + upto
    <3>1. m - n \in 1 .. upto /\ n + (m - n) = m
      BY <2>2
    <3>2. m - n \in 1 .. Len(w) /\ w[m - n].id = i
      BY <1>10, <2>1, <3>1
    <3>3. Pending(b, i)'
      BY <1>12, <3>2 DEF Pending
    <3>4. QED
      BY <3>3 DEF Covered
  <2>3. CASE ~(m <= n + upto)
    <3>1. m \in n + upto + 1 .. l
      BY <2>3
    <3>2. i \in client'[b].cut
      BY <1>7, <1>12, <2>1, <3>1
    <3>3. Reckoned(b, i)'
      BY <3>2 DEF Reckoned
    <3>4. QED
      BY <3>3 DEF Covered
  <2>4. QED
    BY <2>2, <2>3
<1>15. Delivers(b)'
  <2>1. \A m \in n + 1 .. l : Covered(b, rows[m].id)'
    <3>1. SUFFICES ASSUME NEW m \in n + 1 .. l PROVE Covered(b, rows[m].id)'
      OBVIOUS
    <3>2. PICK i : i = rows'[m].id
      OBVIOUS
    <3>3. Covered(b, i)'
      BY <1>14, <3>2
    <3>4. QED
      BY <3>2, <3>3
  <2>2. client'[b].cursor.kind = "durable" /\ client'[b].cursor.n = n /\ Len(rows') = l
    BY <1>1, <1>2, <1>3, <1>4, <1>12
  <2>3. QED
    BY <2>1, <2>2 DEF Delivers
<1>16. Registered(Conn(b))'
  BY <1>1, <1>2, <1>13 DEF Registered
<1>17. Follow(b)'
  BY <1>2, <1>12, <1>13, <1>15, <1>16 DEF Follow
<1>18. QED
  BY <1>1, <1>12, <1>17, OthersFollow

LEMMA FetchFramesKeeps ==
    ASSUME BusIInv, NEW b \in Clients, FetchFrames(b)
    PROVE  BusIInv'
<1>0. BusTypes /\ IdsInv /\ StoredInv /\ FollowInv
  BY DEF BusIInv
<1>1. client[b].pc = "backfill" /\ UNCHANGED <<subs, bucket, pub, rows, frames, busClosed, count, missed>>
  BY DEF FetchFrames
<1>2. Follow(b) /\ Conn(b) \in Conns /\ Registered(Conn(b)) /\ client[b].cursor.kind = "frame"
  BY <1>0, <1>1 DEF FollowInv, Follow, Following
<1>3. PICK r \in ClientRec, n \in Nat : r = client[b] /\ n = client[b].cursor.n
  BY <1>0 DEF BusTypes, ClientRec, Cursors
<1>4. PICK first : first = {f \in frames : Cardinality({g \in frames : g <= f}) <= FrameLimit}
  OBVIOUS
<1>5. PICK S : S = {f \in first : f > n}
  OBVIOUS
<1>6. PICK after : after = Ascending(S)
  OBVIOUS
<1>7. frames \subseteq EventIds /\ S \in SUBSET EventIds /\ first \subseteq frames /\ S \subseteq first
  BY <1>0, <1>4, <1>5 DEF BusTypes
<1>8. S \in SUBSET Int /\ IsFiniteSet(S)
  <2>1. IsFiniteSet(EventIds)
    BY BusAssumption, FS_Interval DEF EventIds
  <2>2. IsFiniteSet(S)
    BY <1>7, <2>1, FS_Subset
  <2>3. S \in SUBSET Int
    BY <1>7 DEF EventIds
  <2>4. QED
    BY <2>2, <2>3
<1>9. /\ after \in Seq(S) /\ \A x \in S : \E k \in 1 .. Len(after) : after[k] = x
      /\ \A k \in 1 .. Len(after) : after[k] \in S
  BY <1>6, <1>8, AscendingIs
<1>10. PICK l \in Nat : l = Len(after)
  <2>1. after \in Seq(S)
    BY <1>9
  <2>2. QED
    BY <2>1
<1>11. PICK w : w = [k \in 1 .. l |-> [id |-> after[k], cursor |-> [kind |-> "frame", n |-> after[k]]]]
  OBVIOUS
<1>12. PICK left : left = frames \ first
  OBVIOUS
<1>13. left \in IdSets
  BY <1>7, <1>12 DEF IdSets
<1>14. w \in Seq(Fetched) /\ Len(w) = l /\ \A k \in 1 .. l : w[k].id = after[k]
  <2>1. ASSUME NEW k \in 1 .. l
        PROVE  [id |-> after[k], cursor |-> [kind |-> "frame", n |-> after[k]]] \in Fetched
    <3>1. PICK x \in EventIds : x = after[k]
      BY <1>7, <1>9, <1>10
    <3>2. x \in Nat
      BY DEF EventIds
    <3>3. [kind |-> "frame", n |-> x] \in Cursors
      BY <3>2 DEF Cursors
    <3>4. [id |-> x, cursor |-> [kind |-> "frame", n |-> x]] \in Fetched
      BY <3>3 DEF Fetched
    <3>5. QED
      BY <3>1, <3>4
  <2>2. w \in [1 .. l -> Fetched]
    BY <1>11, <2>1
  <2>3. w \in Seq(Fetched) /\ Len(w) = l
    BY <2>2
  <2>4. QED
    BY <1>11, <2>3
<1>15. client' = [client EXCEPT ![b].pc = "sending", ![b].pending = w, ![b].cut = left]
  BY <1>3, <1>4, <1>5, <1>6, <1>10, <1>11, <1>12, ZenonT(30) DEF FetchFrames
<1>16. PICK v : v = [[[client[b] EXCEPT !.pc = "sending"] EXCEPT !.pending = w] EXCEPT !.cut = left]
  OBVIOUS
<1>17. client' = [client EXCEPT ![b] = v]
  <2>1. client \in [Clients -> ClientRec] /\ r = client[b]
    BY <1>0, <1>3 DEF BusTypes
  <2>2. QED
    BY <1>15, <1>16, <2>1
<1>18. Fetches(b, w, left)
  <2>1. w \in Seq(Fetched)
    BY <1>14
  <2>2. BusTypes
    BY <1>0
  <2>3. QED
    BY <1>13, <1>16, <1>17, <2>1, <2>2, FetchedIs
<1>19. /\ client' \in [Clients -> ClientRec]
       /\ \A c \in Clients : c # b => client'[c] = client[c]
       /\ client'[b].pc = "sending" /\ client'[b].conn = client[b].conn
       /\ client'[b].cursor = client[b].cursor /\ client'[b].pending = w /\ client'[b].cut = left
  BY <1>18 DEF Fetches
<1>20. Conn(b)' = Conn(b)
  BY <1>19 DEF Conn
<1>21. ASSUME NEW f \in frames, f > n PROVE Covered(b, f)'
  <2>1. CASE f \in first
    <3>1. f \in S
      BY <1>5, <1>21, <2>1
    <3>2. PICK k \in 1 .. l : after[k] = f
      BY <1>9, <1>10, <3>1
    <3>3. k \in 1 .. Len(w) /\ w[k].id = f
      BY <1>14, <3>2
    <3>4. Pending(b, f)'
      BY <1>19, <3>3 DEF Pending
    <3>5. QED
      BY <3>4 DEF Covered
  <2>2. CASE f \notin first
    <3>1. f \in client'[b].cut
      BY <1>12, <1>19, <2>2
    <3>2. Reckoned(b, f)'
      BY <3>1 DEF Reckoned
    <3>3. QED
      BY <3>2 DEF Covered
  <2>3. QED
    BY <2>1, <2>2
<1>22. Delivers(b)'
  <2>1. client'[b].cursor.kind = "frame" /\ client'[b].cursor.n = n /\ frames' = frames
    BY <1>1, <1>2, <1>3, <1>19
  <2>2. QED
    BY <1>21, <2>1 DEF Delivers
<1>23. Registered(Conn(b))'
  BY <1>1, <1>2, <1>20 DEF Registered
<1>24. Follow(b)'
  BY <1>2, <1>19, <1>20, <1>22, <1>23 DEF Follow
<1>25. QED
  BY <1>1, <1>19, <1>24, OthersFollow

LEMMA SendFetchedKeeps ==
    ASSUME BusIInv, NEW b \in Clients, SendFetched(b)
    PROVE  BusIInv'
<1>0. BusTypes /\ IdsInv /\ StoredInv /\ FollowInv
  BY DEF BusIInv
<1>1. client[b].pc = "sending" /\ UNCHANGED <<subs, bucket, pub, rows, frames, busClosed, count, missed>>
  BY DEF SendFetched
<1>2. Follow(b) /\ Conn(b) \in Conns /\ Registered(Conn(b)) /\ Delivers(b)
  BY <1>0, <1>1 DEF FollowInv, Follow, Following
<1>3. PICK r \in ClientRec : r = client[b]
  BY <1>0 DEF BusTypes
<1>4. PICK q \in Seq(Fetched) : q = client[b].pending
  BY <1>3 DEF ClientRec
<1>5. client \in [Clients -> ClientRec]
  BY <1>0 DEF BusTypes
<1>6. \A i, s : (Held(s, i) <=> Held(s, i)') /\ (Registered(s) <=> Registered(s)')
  BY <1>1 DEF Held, Registered
<1>7. ASSUME NEW s, NEW i, NEW p \in Publishers, Waits(p, s, i) PROVE Waits(p, s, i)'
  BY <1>1, <1>7, WaitsSame
<1>8. ASSUME client'[b].conn = client[b].conn, client[b].seen \subseteq client'[b].seen,
             client[b].cut \subseteq client'[b].cut, NEW i, Reckoned(b, i)
      PROVE  Reckoned(b, i)'
  <2>1. PICK s : s = Conn(b)
    OBVIOUS
  <2>2. Conn(b)' = s
    BY <1>8, <2>1 DEF Conn
  <2>3. /\ Held(s, i) => Held(s, i)' \/ i \in client'[b].seen
        /\ \A p \in Publishers : Waits(p, s, i) =>
               (\E x \in Publishers : Waits(x, s, i)') \/ Held(s, i)' \/ Jumped_(s, i)'
    BY <1>6, <1>7
  <2>4. missed \subseteq missed'
    BY <1>1
  <2>5. QED
    BY <1>8, <2>1, <2>2, <2>3, <2>4, ReckonedKept
<1>9. ASSUME client'[b].cursor = client[b].cursor,
             \A i : Covered(b, i) => Covered(b, i)'
      PROVE  Delivers(b)'
  <2>1. PICK n, k, l : n = client[b].cursor.n /\ k = client[b].cursor.kind /\ l = Len(rows)
    OBVIOUS
  <2>2. ASSUME k = "durable", NEW m \in n + 1 .. l PROVE Covered(b, rows[m].id)'
    <3>1. Covered(b, rows[m].id)
      BY <1>2, <2>1, <2>2 DEF Delivers
    <3>2. PICK i : i = rows[m].id /\ i = rows'[m].id
      BY <1>1
    <3>3. Covered(b, i)
      BY <3>1, <3>2
    <3>4. Covered(b, i)'
      BY <1>9, <3>3
    <3>5. QED
      BY <3>2, <3>4
  <2>3. ASSUME k = "frame", NEW f \in frames, f > n, ~busClosed PROVE Covered(b, f)'
    <3>1. Covered(b, f)
      BY <1>2, <2>1, <2>3 DEF Delivers
    <3>2. QED
      BY <1>9, <3>1
  <2>4. QED
    BY <1>1, <1>9, <2>1, <2>2, <2>3 DEF Delivers
<1>10. CASE q = <<>>
  <2>1. client' = [client EXCEPT ![b].pc = "live"]
    BY <1>4, <1>10 DEF SendFetched
  <2>2. PICK v : v = [r EXCEPT !.pc = "live"]
    OBVIOUS
  <2>3. /\ v \in ClientRec /\ v.pc = "live" /\ v.conn = r.conn /\ v.cursor = r.cursor
        /\ v.pending = r.pending /\ v.seen = r.seen /\ v.cut = r.cut
    BY <2>2 DEF ClientRec, Following
  <2>4. client' = [client EXCEPT ![b] = v]
    BY <1>3, <1>5, <2>1, <2>2
  <2>5. /\ client' \in [Clients -> ClientRec] /\ client'[b] = v
        /\ \A c \in Clients : c # b => client'[c] = client[c]
    BY <1>5, <2>3, <2>4
  <2>6. \A i : Reckoned(b, i) => Reckoned(b, i)'
    BY <1>3, <1>8, <2>3, <2>5
  <2>7. \A i : Pending(b, i) => Pending(b, i)'
    BY <1>3, <2>3, <2>5 DEF Pending
  <2>8. Delivers(b)'
    <3>1. \A i : Covered(b, i) => Covered(b, i)'
      BY <2>6, <2>7 DEF Covered
    <3>2. client'[b].cursor = client[b].cursor
      BY <1>3, <2>3, <2>5
    <3>3. QED
      BY <1>9, <3>1, <3>2
  <2>9. Conn(b)' = Conn(b) /\ client'[b].pc = "live" /\ client'[b].pending = <<>>
    BY <1>3, <1>4, <1>10, <2>3, <2>5 DEF Conn
  <2>10. Registered(Conn(b))'
    BY <1>1, <1>2, <2>9 DEF Registered
  <2>11. Follow(b)'
    BY <1>2, <2>8, <2>9, <2>10 DEF Follow
  <2>12. QED
    BY <1>1, <2>5, <2>11, OthersFollow
<1>11. CASE q # <<>>
  <2>1. PICK l \in Nat \ {0} : l = Len(q)
    <3>1. Len(q) \in Nat /\ Len(q) # 0
      BY <1>11
    <3>2. QED
      BY <3>1
  <2>2. PICK w \in Seq(Fetched) : w = Tail(q) /\ Len(w) = l - 1 /\ \A i \in 1 .. l - 1 : w[i] = q[i + 1]
    <3>1. Tail(q) \in Seq(Fetched) /\ Len(Tail(q)) = Len(q) - 1 /\ \A i \in 1 .. Len(q) - 1 : Tail(q)[i] = q[i + 1]
      BY <1>11, HeadTailProperties
    <3>2. QED
      BY <2>1, <3>1
  <2>3. PICK e \in Fetched : e = Head(q) /\ e = q[1]
    BY <1>11, <2>1
  <2>4. PICK d \in EventIds, x \in Cursors : d = e.id /\ x = e.cursor
    BY DEF Fetched
  <2>5. PICK v : v = [[[client[b] EXCEPT !.pending = w] EXCEPT !.seen = client[b].seen \cup {d}] EXCEPT !.lastId = x]
    OBVIOUS
  <2>6. client' = [client EXCEPT ![b] = v]
    <3>1. client' = [client EXCEPT ![b].pending = Tail(@), ![b].seen = @ \cup {Head(q).id}, ![b].lastId = Head(q).cursor]
      BY <1>4, <1>11 DEF SendFetched
    <3>2. v = [r EXCEPT !.pending = Tail(r.pending), !.seen = r.seen \cup {Head(q).id}, !.lastId = Head(q).cursor]
      BY <1>3, <1>4, <2>2, <2>3, <2>4, <2>5
    <3>3. QED
      BY <1>3, <1>5, <3>1, <3>2 DEF ClientRec
  <2>7. /\ client' \in [Clients -> ClientRec]
        /\ \A c \in Clients : c # b => client'[c] = client[c]
        /\ client'[b].pc = client[b].pc /\ client'[b].conn = client[b].conn
        /\ client'[b].cursor = client[b].cursor /\ client'[b].pending = w
        /\ client'[b].seen = client[b].seen \cup {d} /\ client'[b].cut = client[b].cut
    BY <1>0, <2>5, <2>6, SentIs
  <2>8. \A i : Reckoned(b, i) => Reckoned(b, i)'
    BY <1>8, <2>7
  <2>9. ASSUME NEW i, Pending(b, i) PROVE Pending(b, i)' \/ Reckoned(b, i)'
    <3>1. PICK k \in 1 .. l : q[k].id = i
      BY <1>4, <2>1, <2>9 DEF Pending
    <3>2. CASE k = 1
      <4>1. i \in client'[b].seen
        BY <2>3, <2>4, <2>7, <3>1, <3>2
      <4>2. QED
        BY <4>1 DEF Reckoned
    <3>3. CASE k # 1
      <4>1. k - 1 \in 1 .. l - 1 /\ (k - 1) + 1 = k
        BY <3>3
      <4>2. k - 1 \in 1 .. Len(w) /\ w[k - 1].id = i
        BY <2>2, <3>1, <4>1
      <4>3. QED
        BY <2>7, <4>2 DEF Pending
    <3>4. QED
      BY <3>2, <3>3
  <2>10. Delivers(b)'
    <3>1. \A i : Covered(b, i) => Covered(b, i)'
      BY <2>8, <2>9 DEF Covered
    <3>2. QED
      BY <1>9, <2>7, <3>1
  <2>11. Conn(b)' = Conn(b) /\ client'[b].pc = "sending"
    BY <1>1, <2>7 DEF Conn
  <2>12. Registered(Conn(b))'
    BY <1>1, <1>2, <2>11 DEF Registered
  <2>13. Follow(b)'
    BY <1>2, <2>10, <2>11, <2>12 DEF Follow
  <2>14. QED
    BY <1>1, <2>7, <2>13, OthersFollow
<1>12. QED
  BY <1>10, <1>11

LEMMA BusNextInv == ASSUME BusIInv, [BusNext]_busVars PROVE BusIInv'
<1>1. CASE UNCHANGED busVars
  <2>1. UNCHANGED <<subs, bucket, pub, rows, frames, busClosed, count, client, missed>>
    BY <1>1 DEF busVars
  <2>2. BusTypes' /\ IdsInv' /\ StoredInv'
    <3>1. BusTypes'
      BY <2>1 DEF BusIInv, BusTypes
    <3>2. StoredIds' = StoredIds /\ \A p : Active(p)' = Active(p)
      BY <2>1 DEF StoredIds, Active
    <3>3. IdsInv'
      BY <2>1, <3>2 DEF BusIInv, IdsInv
    <3>4. StoredInv'
      BY <2>1, <3>2 DEF BusIInv, StoredInv
    <3>5. QED
      BY <3>1, <3>3, <3>4
  <2>3. ASSUME NEW c \in Clients PROVE Follow(c)'
    <3>1. \A s : Registered(s) => Registered(s)'
      BY <2>1 DEF Registered
    <3>2. \A s : \A t \in Topics, i \in Nat \ {0} : InRest(t, i, s) => InRest(t, i, s)'
      BY <2>1 DEF InRest, Registered
    <3>3. BusTypes /\ client'[c] = client[c] /\ Follow(c) /\ \A s \in Subs : HeldBy(subs'[s]) = HeldBy(subs[s])
      BY <2>1 DEF BusIInv, FollowInv
    <3>4. QED
      BY <2>1, <3>1, <3>2, <3>3, FollowGrown
  <2>4. QED
    BY <2>2, <2>3 DEF BusIInv, FollowInv
<1>2. CASE \E s \in Consumers : ConsumerStart(s) \/ ConsumerTake(s) \/ ConsumerEnds(s)
  BY <1>2, ConsumerStartKeeps, ConsumerTakeKeeps, ConsumerEndsKeeps
<1>3. CASE \E p \in Publishers : \/ \E k \in Kinds : Publish(p, k)
                                 \/ AppendFrame(p) \/ Persist(p) \/ PersistFails(p)
                                 \/ FanOut(p) \/ Unblock(p)
  BY <1>3, PublishKeeps, AppendFrameKeeps, PersistKeeps, PersistFailsKeeps, FanOutKeeps, UnblockKeeps
<1>4. CASE CloseBus
  BY <1>4, CloseBusKeeps
<1>5. CASE \E c \in Clients : \/ \E id \in Headers \cup {client[c].lastId} : StreamOpen(c, id)
                              \/ FetchReplay(c) \/ FetchFrames(c)
                              \/ SendFetched(c) \/ SendLive(c) \/ StreamClose(c)
  BY <1>5, StreamOpenKeeps, FetchReplayKeeps, FetchFramesKeeps, SendFetchedKeeps, SendLiveKeeps, StreamCloseKeeps
<1>6. QED
  BY <1>1, <1>2, <1>3, <1>4, <1>5 DEF BusNext

(* The invariant in the model's own terms.                                 *)
LEMMA BusIInvSays == ASSUME BusIInv PROVE BusInv /\ ResumeHasNoGap
<1>0. BusTypes /\ IdsInv /\ StoredInv /\ FollowInv
  BY DEF BusIInv
<1>1. BusTypeOK
  <2>1. ASSUME NEW s \in Subs
        PROVE  /\ subs[s].items \in Seq(Events) /\ Len(subs[s].items) <= MaxSize
               /\ subs[s].lost \subseteq Events
               /\ subs[s].dropped \in Nat /\ subs[s].durableDropped \in Nat
               /\ subs[s].iter \in {"none", "fresh", "running", "done"}
    <3>1. PICK g \in SubRec : g = subs[s] /\ Bounded(g)
      BY <1>0 DEF BusTypes
    <3>2. g.items \in Seq(Events) /\ g.lost \subseteq Events /\ g.dropped \in Nat /\ g.durableDropped \in Nat
          /\ g.iter \in {"none", "fresh", "running", "done"}
      BY DEF SubRec, Iters
    <3>3. Len(g.items) <= MaxSize
      BY <3>1 DEF Bounded
    <3>4. QED
      BY <3>1, <3>2, <3>3
  <2>2. \A t \in Topics : bucket[t] \in Seq(Subs)
    BY <1>0 DEF BusTypes
  <2>3. \A p \in Publishers : pub[p].pc \in {"idle", "frame", "persist", "walk", "blocked", "woken"}
    BY <1>0, PubShape
  <2>4. rows \in Seq(Events) /\ frames \subseteq 1 .. MaxEvents /\ count \in 0 .. MaxEvents
    BY <1>0 DEF BusTypes, EventIds
  <2>5. \A c \in Clients : client[c].pc \in {"idle", "replay", "backfill", "sending", "live", "closed"}
    BY <1>0 DEF BusTypes, ClientRec, Following
  <2>6. QED
    BY <2>1, <2>2, <2>3, <2>4, <2>5 DEF BusTypeOK
<1>2. StoredBeforeSeen
  <2>1. rows \in Seq(Events)
    BY <1>0 DEF BusTypes
  <2>2. {e.id : e \in ToSet(rows)} = StoredIds
    BY <2>1 DEF ToSet, StoredIds
  <2>3. \A s \in Subs : Queued(s) \cup subs[s].lost = HeldBy(subs[s])
    BY DEF Queued, HeldBy
  <2>4. QED
    BY <1>0, <2>2, <2>3 DEF StoredBeforeSeen, StoredInv
<1>3. ASSUME NEW c \in Clients, NEW i, Reckoned(c, i) PROVE Accounted(c, i)
  <2>1. PICK s : s = Conn(c)
    OBVIOUS
  <2>2. Held(s, i) => \E e \in Queued(s) \cup subs[s].lost : e.id = i
    BY DEF Held, HeldBy, Queued
  <2>3. ASSUME NEW p \in Publishers, Waits(p, s, i) PROVE Ahead(p, s, i)
    <3>1. Active(p) /\ pub[p].ev.id = i /\ pub[p].pc # "idle"
      BY <2>3 DEF Waits, Active
    <3>2. CASE pub[p].pc \in {"blocked", "woken"}
      <4>1. PICK t \in Topics, a \in Nat : t = pub[p].list /\ a = pub[p].at
        BY <1>0, <3>2, PubShape
      <4>2. s = pub[p].sub \/ InRest(t, a + 1, s)
        BY <2>3, <3>2, <4>1 DEF Waits
      <4>3. a + 1 \in Nat \ {0} /\ bucket \in [Topics -> Seq(Subs)]
        BY <1>0 DEF BusTypes
      <4>4. Contains(Rest(t, a + 1), s) <=> InRest(t, a + 1, s)
        BY <4>3, RestContains
      <4>5. QED
        BY <3>1, <4>1, <4>2, <4>4 DEF Ahead
    <3>3. CASE pub[p].pc \notin {"blocked", "woken"}
      BY <3>1, <3>3 DEF Ahead
    <3>4. QED
      BY <3>2, <3>3
  <2>4. \/ i \in client[c].seen \/ i \in client[c].cut \/ Held(s, i) \/ Jumped_(s, i)
        \/ \E p \in Publishers : Waits(p, s, i)
    BY <1>3, <2>1 DEF Reckoned
  <2>5. QED
    BY <2>1, <2>2, <2>3, <2>4 DEF Accounted, Jumped_
<1>4. ResumeHasNoGap
  <2>1. SUFFICES ASSUME NEW c \in Clients, client[c].pc = "live"
                 PROVE  /\ client[c].cursor.kind = "durable" =>
                             \A n \in client[c].cursor.n + 1 .. Len(rows) : Accounted(c, rows[n].id)
                        /\ client[c].cursor.kind = "frame" =>
                             \A f \in frames : f > client[c].cursor.n /\ ~busClosed => Accounted(c, f)
    BY DEF ResumeHasNoGap
  <2>2. client[c].pending = <<>> /\ Delivers(c)
    BY <1>0, <2>1 DEF FollowInv, Follow, Following
  <2>3. \A i : ~Pending(c, i)
    BY <2>2 DEF Pending
  <2>4. \A i : Covered(c, i) => Accounted(c, i)
    BY <1>3, <2>3 DEF Covered
  <2>5. QED
    BY <2>2, <2>4 DEF Delivers
<1>5. QED
  BY <1>1, <1>2, <1>4 DEF BusInv

(* The bus keeps its queues within their bound and shows nobody a durable  *)
(* event that is not in the events table (event_bus.py, publish).          *)
THEOREM BusInvariant == BusSpec => []BusInv
<1>1. BusInit => BusIInv
  BY BusInitInv
<1>2. BusIInv /\ [BusNext]_busVars => BusIInv'
  BY BusNextInv
<1>3. BusIInv => BusInv
  BY BusIInvSays
<1>4. QED
  BY <1>1, <1>2, <1>3, PTL DEF BusSpec

(* A stream that resumed from a cursor has no gap (sse.py, _stream), for   *)
(* any number of publishers, streams, reconnections and list changes.      *)
THEOREM ResumeInvariant == BusSpec => []ResumeHasNoGap
<1>1. BusInit => BusIInv
  BY BusInitInv
<1>2. BusIInv /\ [BusNext]_busVars => BusIInv'
  BY BusNextInv
<1>3. BusIInv => ResumeHasNoGap
  BY BusIInvSays
<1>4. QED
  BY <1>1, <1>2, <1>3, PTL DEF BusSpec

=============================================================================
