----------------------------- MODULE HITLProofs -----------------------------
(***************************************************************************)
(* Proofs about HITL, for any number of sessions, requests and resolvers.  *)
(***************************************************************************)
EXTENDS HITL, TLAPS

LEMMA AppendIndex ==
    ASSUME NEW S, NEW q \in Seq(S), NEW e \in S
    PROVE  /\ Append(q, e) \in Seq(S)
           /\ \A i \in 1..Len(Append(q, e)) :
                Append(q, e)[i] = e \/ (i \in 1..Len(q) /\ Append(q, e)[i] = q[i])
  OBVIOUS

LEMMA TailIndex ==
    ASSUME NEW S, NEW q \in Seq(S), q # <<>>
    PROVE  /\ Tail(q) \in Seq(S)
           /\ Head(q) = q[1] /\ 1 \in 1..Len(q) /\ Head(q) \in S
           /\ \A i \in 1..Len(Tail(q)) : i + 1 \in 1..Len(q) /\ Tail(q)[i] = q[i + 1]
  OBVIOUS

----------------------------------------------------------------------------
(* Types *)

\* A resolver's coroutine keeps its request and its decision.
LEMMA SetCallType ==
    ASSUME TypeOK, NEW c \in Resolvers, call[c].pc # "idle",
           NEW pc \in {"check", "set", "write", "done"}, NEW exp \in Nat, NEW won \in BOOLEAN,
           SetCall(c, pc, exp, won) \/ Lose(c)
    PROVE  /\ call' \in [Resolvers -> Call]
           /\ \A e \in Resolvers : call'[e].pc # "idle" => call'[e].req \in Requests
<1>1. call[c] \in Call /\ call[c].req \in Requests
  BY DEF TypeOK
<1>2. call[c].via \in Via /\ call[c].dec \in Decision
  BY <1>1 DEF Call
<1>3. ASSUME NEW k \in Call, k.req \in Requests, call' = [call EXCEPT ![c] = k]
      PROVE  /\ call' \in [Resolvers -> Call]
             /\ \A e \in Resolvers : call'[e].pc # "idle" => call'[e].req \in Requests
  BY <1>3 DEF TypeOK
<1>4. CASE SetCall(c, pc, exp, won)
  <2> DEFINE k == [pc |-> pc, via |-> IF pc = "done" THEN "api" ELSE call[c].via,
                   req |-> call[c].req, dec |-> call[c].dec,
                   exp |-> IF pc = "done" THEN 0 ELSE exp, won |-> won]
  <2>1. k \in Call /\ k.req \in Requests
    BY <1>1, <1>2 DEF Call, Via
  <2>2. call' = [call EXCEPT ![c] = k]
    BY <1>4 DEF SetCall, TypeOK
  <2> HIDE DEF k
  <2>3. QED
    BY <1>3, <2>1, <2>2
<1>5. CASE Lose(c)
  <2> DEFINE k == [pc |-> "done", via |-> "api", req |-> call[c].req,
                   dec |-> "deny", exp |-> 0, won |-> FALSE]
  <2>1. k \in Call /\ k.req \in Requests
    BY <1>1 DEF Call, Via, Decision
  <2>2. call' = [call EXCEPT ![c] = k]
    BY <1>5 DEF Lose, TypeOK
  <2> HIDE DEF k
  <2>3. QED
    BY <1>3, <2>1, <2>2
<1>6. QED
  BY <1>4, <1>5

\* A frame put on its way to a runner.
LEMMA SendType ==
    ASSUME TypeOK, NEW s \in Sessions, NEW f \in Frame,
           toRunner' = [toRunner EXCEPT ![s] = Append(@, f)]
    PROVE  toRunner' \in [Sessions -> Seq(Frame)]
<1>1. toRunner[s] \in Seq(Frame) /\ toRunner \in [Sessions -> Seq(Frame)]
  BY DEF TypeOK
<1>2. Append(toRunner[s], f) \in Seq(Frame)
  BY <1>1, AppendIndex
<1>3. QED
  BY <1>1, <1>2

LEMMA CallStepType ==
    ASSUME TypeOK, NEW c \in Resolvers, CallStep(c)
    PROVE  TypeOK'
<1> USE DEF wireVars
<1>1. call[c].pc # "idle" /\ call[c].req \in Requests /\ call[c].dec \in Decision /\ call[c].exp \in Nat
  BY DEF CallStep, ReadVersion, CheckRow, Resolve, WriteRow, TypeOK, Call
<1>2. row[call[c].req].version \in Nat
  BY <1>1 DEF TypeOK, Row
<1>3. CASE ReadVersion(c)
  BY <1>1, <1>2, <1>3, SetCallType DEF ReadVersion, RowVersion, TypeOK
<1>4. CASE CheckRow(c)
  BY <1>1, <1>4, SetCallType DEF CheckRow, TypeOK
<1>5. CASE Resolve(c)
  <2>1. fut' \in [Requests -> {"none", "open"} \cup Decision]
    BY <1>1, <1>5 DEF Resolve, TypeOK
  <2>2. QED
    BY <1>1, <1>5, <2>1, SetCallType DEF Resolve, TypeOK
<1>6. CASE WriteRow(c)
  <2>1. row' \in [Requests -> Row]
    BY <1>1, <1>2, <1>6 DEF WriteRow, TypeOK, Row
  <2>2. call[c].won \in BOOLEAN
    BY DEF TypeOK, Call
  <2>3. QED
    BY <1>1, <1>6, <2>1, <2>2, SetCallType DEF WriteRow, TypeOK
<1>7. QED
  BY <1>3, <1>4, <1>5, <1>6 DEF CallStep

LEMMA TypeStep ==
    ASSUME TypeOK, [Next]_vars
    PROVE  TypeOK'
<1> USE HITLAssumption DEF wireVars
<1>1. ASSUME NEW r \in Requests, Ask(r) PROVE TypeOK'
  BY <1>1 DEF Ask, TypeOK
<1>2. ASSUME NEW r \in Requests, BridgeReceives(r) PROVE TypeOK'
  BY <1>2 DEF BridgeReceives, TypeOK
<1>3. ASSUME NEW r \in Requests, Deliver(r) PROVE TypeOK'
  <2>1. [req |-> r, dec |-> fut[r]] \in Frame
    BY <1>3 DEF Deliver, Answered, Frame
  <2>2. toRunner' \in [Sessions -> Seq(Frame)]
    <3>1. CASE UNCHANGED toRunner
      BY <3>1 DEF TypeOK
    <3>2. CASE toRunner' = [toRunner EXCEPT ![Owner[r]] = Append(@, [req |-> r, dec |-> fut[r]])]
      BY <2>1, <3>2, SendType
    <3>3. QED
      BY <1>3, <3>1, <3>2 DEF Deliver
  <2>3. QED
    BY <1>3, <2>2 DEF Deliver, Answered, TypeOK
<1>4. ASSUME NEW s \in Sessions, RunnerReceives(s) PROVE TypeOK'
  <2>1. Head(toRunner[s]) \in Frame /\ toRunner' \in [Sessions -> Seq(Frame)]
    BY <1>4, TailIndex DEF RunnerReceives, TypeOK
  <2>2. asked' \in [Requests -> {"no", "waiting", "gone"} \cup Decision]
    BY <1>4, <2>1 DEF RunnerReceives, TypeOK, Decision
  <2>3. QED
    BY <1>4, <2>1, <2>2 DEF RunnerReceives, TypeOK
<1>5. ASSUME NEW s \in Sessions, Cancel(s) \/ SessionEnds(s) PROVE TypeOK'
  BY <1>5, ZenonT(40) DEF Cancel, CancelAll, SessionEnds, TypeOK, Decision
<1>6. ASSUME NEW s \in Sessions, TearDown(s) PROVE TypeOK'
  <2>1. [req |-> None, dec |-> "shutdown"] \in Frame
    BY DEF Frame
  <2>2. toRunner' \in [Sessions -> Seq(Frame)]
    <3>1. CASE SendShutdown(s)
      BY <1>6, <2>1, <3>1, SendType DEF SendShutdown
    <3>2. CASE UNCHANGED toRunner
      BY <3>2 DEF TypeOK
    <3>3. CASE StopRunner(s)
      BY <1>6, <3>3 DEF StopRunner, TypeOK
    <3>4. QED
      BY <1>6, <3>1, <3>2, <3>3 DEF TearDown, BridgeShutdown, BridgeShutdownCut
  <2>3. QED
    BY <1>6, <2>2 DEF TearDown, BridgeShutdown, BridgeShutdownCut, StopRunner, TypeOK
<1>7. ASSUME NEW c \in Resolvers, NEW r \in Requests, NEW d \in Decision, NEW via \in Via,
             Answer(c, r, d, via)
      PROVE  TypeOK'
  BY <1>7 DEF Answer, TypeOK, Call
<1>8. CASE RelayShutdown
  BY <1>8 DEF RelayShutdown, TypeOK, Decision
<1>9. CASE UNCHANGED vars
  BY <1>9 DEF vars, TypeOK
<1>10. QED
  BY <1>1, <1>2, <1>3, <1>4, <1>5, <1>6, <1>7, <1>8, <1>9, CallStepType DEF Next

LEMMA InitType == Init => TypeOK
  BY HITLAssumption DEF Init, TypeOK, Row, Call, Decision, Via
----------------------------------------------------------------------------
(* Winners *)

\* One step of a resolver's coroutine: it keeps its request and its decision if
\* it has won, and it wins only by answering an open future.
LEMMA CallStepWins ==
    ASSUME TypeOK, CallsInv, NEW c \in Resolvers, CallStep(c)
    PROVE  /\ \A e \in Resolvers : e # c => call'[e] = call[e]
           /\ call'[c].won => call'[c].req = call[c].req /\ call'[c].dec = call[c].dec
           /\ call[c].won => call'[c].won
           /\ call'[c].won => call'[c].pc \in {"write", "done"}
           /\ call'[c].pc = "write" => call'[c].won
           /\ call'[c].won /\ ~call[c].won =>
                 Resolve(c) /\ fut[call[c].req] = "open"
                            /\ fut' = [fut EXCEPT ![call[c].req] = call[c].dec]
<1>1. call \in [Resolvers -> Call]
  BY DEF TypeOK
<1>2. ASSUME NEW pc, NEW exp, NEW won, SetCall(c, pc, exp, won)
      PROVE  /\ \A e \in Resolvers : e # c => call'[e] = call[e]
             /\ call'[c].req = call[c].req /\ call'[c].dec = call[c].dec
             /\ call'[c].won = won /\ call'[c].pc = pc
  BY <1>1, <1>2 DEF SetCall
<1>3. ASSUME Lose(c)
      PROVE  /\ \A e \in Resolvers : e # c => call'[e] = call[e]
             /\ call'[c].won = FALSE /\ call'[c].pc = "done"
  BY <1>1, <1>3 DEF Lose
<1>4. CASE ReadVersion(c)
  BY <1>2, <1>4 DEF ReadVersion, CallsInv
<1>5. CASE CheckRow(c)
  <2>1. CASE Lose(c)
    BY <1>3, <1>5, <2>1 DEF CheckRow, CallsInv
  <2>2. CASE SetCall(c, "set", call[c].exp, FALSE)
    <3>1. /\ \A e \in Resolvers : e # c => call'[e] = call[e]
          /\ call'[c].won = FALSE /\ call'[c].pc = "set"
      BY <1>1, <2>2 DEF SetCall
    <3>2. ~call[c].won
      BY <1>5 DEF CheckRow, CallsInv
    <3>3. QED
      BY <3>1, <3>2
  <2>3. QED
    BY <1>5, <2>1, <2>2 DEF CheckRow
<1>6. CASE Resolve(c)
  <2>1. CASE Lose(c)
    BY <1>3, <1>6, <2>1 DEF Resolve, CallsInv
  <2>2. CASE Hits(c) /\ fut[call[c].req] = "open"
    <3> DEFINE pc == IF Records(c) THEN "write" ELSE "done"
    <3>1. /\ SetCall(c, pc, call[c].exp, TRUE)
          /\ fut' = [fut EXCEPT ![call[c].req] = call[c].dec]
      BY <1>6, <2>2 DEF Resolve
    <3>2. pc \in {"write", "done"}
      OBVIOUS
    <3> HIDE DEF pc
    <3>3. QED
      BY <1>2, <1>6, <2>2, <3>1, <3>2
  <2>3. QED
    BY <1>6, <2>1, <2>2 DEF Resolve
<1>7. CASE WriteRow(c)
  BY <1>2, <1>7 DEF WriteRow, CallsInv
<1>8. QED
  BY <1>4, <1>5, <1>6, <1>7 DEF CallStep

\* An answer that only begins has won nothing.
LEMMA AnswerWins ==
    ASSUME TypeOK, CallsInv, NEW c \in Resolvers, NEW r \in Requests,
           NEW d \in Decision, NEW via \in Via, Answer(c, r, d, via)
    PROVE  /\ \A e \in Resolvers : e # c => call'[e] = call[e]
           /\ ~call[c].won /\ ~call'[c].won /\ call'[c].pc # "write"
  BY DEF Answer, TypeOK, CallsInv

\* Steps of nobody who answers.
Others == 
    \/ \E r \in Requests : Ask(r) \/ BridgeReceives(r) \/ Deliver(r)
    \/ \E s \in Sessions : RunnerReceives(s) \/ Cancel(s) \/ SessionEnds(s) \/ TearDown(s)
    \/ RelayShutdown
    \/ UNCHANGED vars

LEMMA OthersKeepCalls ==
    ASSUME Others
    PROVE  call' = call /\ row' = row
  BY DEF Others, Ask, BridgeReceives, Deliver, RunnerReceives, Cancel, SessionEnds, TearDown,
         BridgeShutdown, BridgeShutdownCut, StopRunner, RelayShutdown, vars

NextCases ==
    \/ Others
    \/ \E c \in Resolvers : CallStep(c)
    \/ \E c \in Resolvers, r \in Requests, d \in Decision, via \in Via : Answer(c, r, d, via)

LEMMA StepCases ==
    ASSUME [Next]_vars
    PROVE  NextCases
  BY DEF Next, Others, NextCases

\* Who has won stays the winner, with its request and its decision, and a new
\* winner has just answered an open future.
LEMMA WinnersStay ==
    ASSUME TypeOK, CallsInv, [Next]_vars
    PROVE  /\ CallsInv'
           /\ \A e \in Resolvers : call[e].won =>
                 call'[e].won /\ call'[e].req = call[e].req /\ call'[e].dec = call[e].dec
           /\ \A e \in Resolvers : call'[e].won /\ ~call[e].won =>
                 /\ Resolve(e) /\ fut[call[e].req] = "open"
                 /\ fut' = [fut EXCEPT ![call[e].req] = call[e].dec]
                 /\ call'[e].req = call[e].req /\ call'[e].dec = call[e].dec
<1>1. CASE Others
  BY <1>1, OthersKeepCalls DEF CallsInv
<1>2. ASSUME NEW c \in Resolvers, CallStep(c)
      PROVE  /\ \A e \in Resolvers : e # c => call'[e] = call[e]
             /\ call'[c].won => call'[c].req = call[c].req /\ call'[c].dec = call[c].dec
             /\ call[c].won => call'[c].won
             /\ call'[c].won => call'[c].pc \in {"write", "done"}
             /\ call'[c].pc = "write" => call'[c].won
             /\ call'[c].won /\ ~call[c].won =>
                   Resolve(c) /\ fut[call[c].req] = "open"
                              /\ fut' = [fut EXCEPT ![call[c].req] = call[c].dec]
  BY <1>2, CallStepWins
<1>3. CASE \E c \in Resolvers : CallStep(c)
  <2>1. PICK c \in Resolvers : CallStep(c)
    BY <1>3
  <2>2. CallsInv'
    BY <1>2, <2>1 DEF CallsInv
  <2>3. QED
    BY <1>2, <2>1, <2>2
<1>4. CASE \E c \in Resolvers, r \in Requests, d \in Decision, via \in Via : Answer(c, r, d, via)
  <2>1. PICK c \in Resolvers : \E r \in Requests, d \in Decision, via \in Via : Answer(c, r, d, via)
    BY <1>4
  <2>2. /\ \A e \in Resolvers : e # c => call'[e] = call[e]
        /\ ~call[c].won /\ ~call'[c].won /\ call'[c].pc # "write"
    BY <2>1, AnswerWins
  <2>3. CallsInv'
    BY <2>2 DEF CallsInv
  <2>4. QED
    BY <2>2, <2>3
<1>5. QED
  BY <1>1, <1>3, <1>4, StepCases DEF NextCases

\* A decision somebody won with stays a winner's.
LEMMA WinnerStays ==
    ASSUME TypeOK, CallsInv, [Next]_vars, NEW r, NEW d, Winner(r, d)
    PROVE  Winner(r, d)'
  BY WinnersStay DEF Winner, Won

\* A step that answers no open future of a request makes it no new winner.
LEMMA NoNewWinner ==
    ASSUME TypeOK, CallsInv, [Next]_vars, NEW r \in Requests,
           fut[r] # "open" \/ fut'[r] \notin Decision, NoWinner(r)
    PROVE  NoWinner(r)'
<1>1. ASSUME NEW e \in Resolvers, call'[e].won, call'[e].req = r PROVE FALSE
  <2>1. ~call[e].won
    BY <1>1, WinnersStay DEF NoWinner, Won
  <2>2. /\ Resolve(e) /\ fut[r] = "open" /\ call[e].req = r
        /\ fut' = [fut EXCEPT ![r] = call[e].dec]
    BY <1>1, <2>1, WinnersStay
  <2>3. call[e].dec \in Decision /\ fut \in [Requests -> {"none", "open"} \cup Decision]
    BY DEF TypeOK, Call
  <2>4. QED
    BY <2>2, <2>3
<1>2. QED
  BY <1>1 DEF NoWinner, Won
----------------------------------------------------------------------------
(* The entries of the coordinator *)

\* How one step moves the entry and the frame of a request.
LEMMA EntryMoves ==
    ASSUME TypeOK, EntriesInv, [Next]_vars, NEW r \in Requests
    PROVE  /\ fut'[r] = "open" => /\ r \notin sent' /\ asked'[r] # "no"
                                  /\ fut[r] = "open" \/ r \in sent \/ asked[r] = "no"
           /\ r \in sent' => /\ fut'[r] = "none" /\ asked'[r] # "no"
                             /\ r \in sent \/ asked[r] = "no"
           /\ asked'[r] = "no" => asked[r] = "no" /\ fut'[r] = "none"
<1> DEFINE Goal ==
      /\ fut'[r] = "open" => /\ r \notin sent' /\ asked'[r] # "no"
                             /\ fut[r] = "open" \/ r \in sent \/ asked[r] = "no"
      /\ r \in sent' => /\ fut'[r] = "none" /\ asked'[r] # "no"
                        /\ r \in sent \/ asked[r] = "no"
      /\ asked'[r] = "no" => asked[r] = "no" /\ fut'[r] = "none"
<1> USE HITLAssumption DEF wireVars
<1>1. /\ asked \in [Requests -> {"no", "waiting", "gone"} \cup Decision]
      /\ fut \in [Requests -> {"none", "open"} \cup Decision]
      /\ sent \subseteq Requests
      /\ call \in [Resolvers -> Call]
  BY DEF TypeOK
<1>2. /\ fut[r] = "open" => r \notin sent /\ asked[r] # "no"
      /\ r \in sent => fut[r] = "none" /\ asked[r] # "no"
      /\ asked[r] = "no" => fut[r] = "none"
  BY DEF EntriesInv
<1>3. ASSUME NEW q \in Requests, Ask(q) PROVE Goal
  BY <1>1, <1>2, <1>3 DEF Ask
<1>4. ASSUME NEW q \in Requests, BridgeReceives(q) PROVE Goal
  BY <1>1, <1>2, <1>4 DEF BridgeReceives
<1>5. ASSUME NEW q \in Requests, Deliver(q) PROVE Goal
  BY <1>1, <1>2, <1>5 DEF Deliver, Answered, Decision
<1>6. ASSUME NEW s \in Sessions, RunnerReceives(s) PROVE Goal
  <2>1. asked'[r] = "no" => asked[r] = "no"
    BY <1>1, <1>6 DEF RunnerReceives, Decision
  <2>2. asked[r] = "no" => fut[r] = "none"
    BY <1>2
  <2>3. fut' = fut /\ sent' = sent
    BY <1>6 DEF RunnerReceives
  <2>4. QED
    BY <1>2, <2>1, <2>3
<1>7. ASSUME NEW s \in Sessions, Cancel(s) \/ SessionEnds(s) PROVE Goal
  BY <1>1, <1>2, <1>7 DEF Cancel, CancelAll, SessionEnds
<1>8. ASSUME NEW s \in Sessions, TearDown(s) PROVE Goal
  <2>1. CASE BridgeShutdown(s)
    BY <1>1, <1>2, <2>1 DEF BridgeShutdown
  <2>2. CASE BridgeShutdownCut(s)
    BY <1>1, <1>2, <2>2 DEF BridgeShutdownCut
  <2>3. CASE StopRunner(s)
    BY <1>1, <1>2, <2>3 DEF StopRunner
  <2>4. QED
    BY <1>8, <2>1, <2>2, <2>3 DEF TearDown
<1>9. ASSUME NEW c \in Resolvers, CallStep(c) PROVE Goal
  <2>1. sent' = sent /\ asked' = asked
    BY <1>9 DEF CallStep, ReadVersion, CheckRow, Resolve, WriteRow
  <2>2. fut'[r] # fut[r] => fut[r] = "open" /\ fut'[r] \in Decision
    <3>1. call[c].dec \in Decision
      BY <1>1 DEF Call
    <3>2. QED
      BY <1>1, <1>9, <3>1 DEF CallStep, ReadVersion, CheckRow, Resolve, WriteRow
  <2>3. QED
    BY <1>2, <2>1, <2>2 DEF Decision
<1>10. ASSUME NEW c \in Resolvers, NEW q \in Requests, NEW d \in Decision, NEW via \in Via,
              Answer(c, q, d, via)
       PROVE  Goal
  BY <1>2, <1>10 DEF Answer
<1>11. CASE RelayShutdown
  BY <1>1, <1>2, <1>11 DEF RelayShutdown
<1>12. CASE UNCHANGED vars
  BY <1>2, <1>12 DEF vars
<1>13. QED
  BY <1>3, <1>4, <1>5, <1>6, <1>7, <1>8, <1>9, <1>10, <1>11, <1>12 DEF Next

\* No two resolvers win: the second finds the future answered.
LEMMA WinnerIsUnique ==
    ASSUME TypeOK, CallsInv, EntriesInv, [Next]_vars, NEW r \in Requests,
           NEW c \in Resolvers, NEW e \in Resolvers, Won(c, r)', Won(e, r)'
    PROVE  c = e
<1>1. \A x, y \in Resolvers : Won(x, r) /\ Won(y, r) => x = y
  BY DEF EntriesInv
<1>2. ASSUME NEW x \in Resolvers, NEW y \in Resolvers, Won(x, r)', Won(y, r)', ~Won(x, r)
      PROVE  x = y
  <2>1. ~call[x].won
    BY <1>2, WinnersStay DEF Won
  <2>2. Resolve(x) /\ fut[r] = "open"
    BY <1>2, <2>1, WinnersStay DEF Won
  <2>3. ~Won(y, r)
    BY <2>2 DEF EntriesInv, NoWinner
  <2>4. ~call[y].won
    BY <1>2, <2>3, WinnersStay DEF Won
  <2>5. \A z \in Resolvers : z # x => call'[z] = call[z]
    BY <2>2, CallStepWins DEF CallStep
  <2>6. QED
    BY <1>2, <2>4, <2>5 DEF Won
<1>3. QED
  BY <1>1, <1>2

LEMMA EntriesStep ==
    ASSUME TypeOK, CallsInv, EntriesInv, [Next]_vars
    PROVE  EntriesInv'
<1>1. SUFFICES ASSUME NEW r \in Requests
               PROVE  /\ fut'[r] = "open" => NoWinner(r)' /\ r \notin sent' /\ asked'[r] # "no"
                      /\ r \in sent' => NoWinner(r)' /\ fut'[r] = "none" /\ asked'[r] # "no"
                      /\ asked'[r] = "no" => NoWinner(r)' /\ fut'[r] = "none"
                      /\ \A c, e \in Resolvers : Won(c, r)' /\ Won(e, r)' => c = e
  BY DEF EntriesInv
<1>2. fut[r] = "open" \/ r \in sent \/ asked[r] = "no" => NoWinner(r)
  BY DEF EntriesInv
<1>3. asked[r] = "no" => fut[r] = "none"
  BY DEF EntriesInv
<1>4. fut'[r] = "open" => NoWinner(r)'
  <2>1. "open" \notin Decision
    BY DEF Decision
  <2>2. QED
    BY <1>2, <2>1, EntryMoves, NoNewWinner
<1>5. r \in sent' => NoWinner(r)'
  <2>1. "none" \notin Decision
    BY DEF Decision
  <2>2. QED
    BY <1>2, <2>1, EntryMoves, NoNewWinner
<1>6. asked'[r] = "no" => NoWinner(r)'
  BY <1>2, <1>3, EntryMoves, NoNewWinner
<1>7. QED
  BY <1>4, <1>5, <1>6, EntryMoves, WinnerIsUnique
----------------------------------------------------------------------------
(* Approvals on their way *)

\* A future is answered by a resolver that thereby wins.
LEMMA AnsweredByWinner ==
    ASSUME TypeOK, NEW r \in Requests, NEW d \in Decision, NEW c \in Resolvers,
           CallStep(c), fut'[r] = d, fut[r] # d
    PROVE  Winner(r, d)'
<1>1. /\ fut \in [Requests -> {"none", "open"} \cup Decision]
      /\ call \in [Resolvers -> Call]
  BY DEF TypeOK
<1>2. /\ Resolve(c) /\ fut[call[c].req] = "open"
      /\ fut' = [fut EXCEPT ![call[c].req] = call[c].dec]
  BY DEF CallStep, ReadVersion, CheckRow, Resolve, WriteRow
<1>3. call[c].req = r /\ call[c].dec = d
  BY <1>1, <1>2
<1>4. call'[c].won /\ call'[c].req = r /\ call'[c].dec = d
  <2>1. Hits(c)
    BY <1>2 DEF Resolve
  <2>2. SetCall(c, IF Records(c) THEN "write" ELSE "done", call[c].exp, TRUE)
    BY <1>2, <2>1 DEF Resolve
  <2>3. QED
    BY <1>1, <1>3, <2>2 DEF SetCall
<1>5. QED
  BY <1>4 DEF Winner, Won

\* An open future is accepted by a resolver that thereby wins.
LEMMA AcceptedByWinner ==
    ASSUME TypeOK, CallsInv, ApprovalsInv, [Next]_vars, NEW r \in Requests, fut'[r] = "accept"
    PROVE  Winner(r, "accept")'
<1> USE HITLAssumption DEF wireVars
<1>1. /\ fut \in [Requests -> {"none", "open"} \cup Decision]
      /\ call \in [Resolvers -> Call]
  BY DEF TypeOK
<1>2. CASE fut[r] = "accept"
  BY <1>2, WinnerStays DEF ApprovalsInv
<1>3. CASE fut[r] # "accept"
  <2>1. ASSUME Others PROVE FALSE
    BY <1>1, <1>3, <2>1
       DEF Others, Ask, BridgeReceives, Deliver, RunnerReceives, Cancel, CancelAll, SessionEnds,
           TearDown, BridgeShutdown, BridgeShutdownCut, StopRunner, RelayShutdown, vars
  <2>2. ASSUME NEW c \in Resolvers, NEW q \in Requests, NEW d \in Decision, NEW via \in Via,
               Answer(c, q, d, via)
        PROVE  FALSE
    BY <1>3, <2>2 DEF Answer
  <2>3. PICK c \in Resolvers : CallStep(c)
    BY <2>1, <2>2, StepCases DEF NextCases
  <2>4. "accept" \in Decision
    BY DEF Decision
  <2>5. QED
    BY <1>3, <2>3, <2>4, AnsweredByWinner
<1>4. QED
  BY <1>2, <1>3

\* The runner takes a request for approved only from such a future or frame.
LEMMA HeardFromWinner ==
    ASSUME TypeOK, CallsInv, ApprovalsInv, [Next]_vars, NEW r \in Requests, asked'[r] = "accept"
    PROVE  Winner(r, "accept")'
<1> USE HITLAssumption DEF wireVars
<1>1. /\ asked \in [Requests -> {"no", "waiting", "gone"} \cup Decision]
      /\ toRunner \in [Sessions -> Seq(Frame)]
  BY DEF TypeOK
<1>2. SUFFICES Winner(r, "accept")
  BY WinnerStays
<1>3. CASE asked[r] = "accept"
  BY <1>3 DEF ApprovalsInv
<1>4. ASSUME NEW q \in Requests, Deliver(q), asked[r] # "accept" PROVE Winner(r, "accept")
  <2>1. fut[r] = "accept"
    BY <1>1, <1>4 DEF Deliver
  <2>2. QED
    BY <2>1 DEF ApprovalsInv
<1>5. ASSUME NEW s \in Sessions, RunnerReceives(s), asked[r] # "accept" PROVE Winner(r, "accept")
  <2> DEFINE f == Head(toRunner[s])
  <2>1. toRunner[s] # <<>> /\ toRunner[s] \in Seq(Frame)
    BY <1>1, <1>5 DEF RunnerReceives
  <2>2. f = toRunner[s][1] /\ 1 \in 1..Len(toRunner[s])
    BY <2>1, TailIndex
  <2>3. f.dec = "accept" /\ f.req = r
    BY <1>1, <1>5 DEF RunnerReceives
  <2> HIDE DEF f
  <2>4. f.dec \in Decision
    BY <2>3 DEF Decision
  <2>5. QED
    BY <2>2, <2>3, <2>4 DEF ApprovalsInv
<1>6. ASSUME asked[r] # "accept"
      PROVE  \/ \E q \in Requests : Deliver(q)
             \/ \E s \in Sessions : RunnerReceives(s)
  <2>1. ASSUME NEW q \in Requests, Ask(q) \/ BridgeReceives(q) PROVE FALSE
    BY <1>1, <1>6, <2>1 DEF Ask, BridgeReceives
  <2>2. ASSUME NEW s \in Sessions, Cancel(s) \/ SessionEnds(s) \/ TearDown(s) PROVE FALSE
    BY <1>1, <1>6, <2>2
       DEF Cancel, SessionEnds, TearDown, BridgeShutdown, BridgeShutdownCut, StopRunner
  <2>3. ASSUME NEW c \in Resolvers, CallStep(c) PROVE FALSE
    BY <1>6, <2>3 DEF CallStep, ReadVersion, CheckRow, Resolve, WriteRow
  <2>4. ASSUME NEW c \in Resolvers, NEW q \in Requests, NEW d \in Decision, NEW via \in Via,
               Answer(c, q, d, via)
        PROVE  FALSE
    BY <1>6, <2>4 DEF Answer
  <2>5. ~RelayShutdown /\ ~UNCHANGED vars
    BY <1>6 DEF RelayShutdown, vars
  <2>6. QED
    BY <2>1, <2>2, <2>3, <2>4, <2>5 DEF Next
<1>7. QED
  BY <1>3, <1>4, <1>5, <1>6

\* Only a winner writes the row.
LEMMA RecordedByWinner ==
    ASSUME TypeOK, CallsInv, ApprovalsInv, [Next]_vars, NEW r \in Requests, row'[r].version > 0
    PROVE  Winner(r, row[r].status)'
<1> USE DEF wireVars
<1>1. CASE row'[r] = row[r]
  <2>1. Winner(r, row[r].status)
    BY <1>1 DEF ApprovalsInv
  <2>2. Winner(r, row'[r].status)
    BY <1>1, <2>1
  <2>3. \E c \in Resolvers : call[c].won /\ call[c].req = r /\ call[c].dec = row'[r].status
    BY <2>2 DEF Winner, Won
  <2>4. \E c \in Resolvers : call'[c].won /\ call'[c].req = r /\ call'[c].dec = row'[r].status
    BY <2>3, WinnersStay
  <2>5. QED
    BY <2>4 DEF Winner, Won
<1>2. CASE row'[r] # row[r]
  <2>1. PICK c \in Resolvers : WriteRow(c)
    BY <1>2, OthersKeepCalls, StepCases
       DEF NextCases, Answer, CallStep, ReadVersion, CheckRow, Resolve
  <2>2. call[c].req = r /\ row'[r].status = call[c].dec
    BY <1>2, <2>1 DEF WriteRow, TypeOK
  <2>3. call[c].won
    BY <2>1 DEF WriteRow, CallsInv
  <2>4. call'[c].won /\ call'[c].req = r /\ call'[c].dec = row'[r].status
    BY <2>2, <2>3, WinnersStay
  <2>5. QED
    BY <2>4 DEF Winner, Won
<1>3. QED
  BY <1>1, <1>2
\* What a frame on its way to a runner says.
Backed(f) == f.dec \in Decision =>
                /\ f.req \in Requests
                /\ f.dec = "accept" => Winner(f.req, "accept")

\* A frame that is sent or received leaves the others as they were.
LEMMA FramesBacked ==
    ASSUME TypeOK, CallsInv, ApprovalsInv, [Next]_vars, NEW s \in Sessions, NEW i \in 1..Len(toRunner'[s])
    PROVE  Backed(toRunner'[s][i])
<1> USE HITLAssumption
<1>1. /\ toRunner \in [Sessions -> Seq(Frame)] /\ toRunner[s] \in Seq(Frame)
      /\ fut \in [Requests -> {"none", "open"} \cup Decision]
  BY DEF TypeOK
<1>2. \A j \in 1..Len(toRunner[s]) : Backed(toRunner[s][j])
  BY DEF ApprovalsInv, Backed
<1>3. CASE toRunner'[s] = toRunner[s]
  BY <1>2, <1>3
<1>4. ASSUME NEW f \in Frame, Backed(f), NEW x \in Sessions,
             toRunner' = [toRunner EXCEPT ![x] = Append(@, f)]
      PROVE  Backed(toRunner'[s][i])
  <2>1. CASE x # s
    BY <1>1, <1>3, <1>4, <2>1
  <2>2. CASE x = s
    <3>1. toRunner'[s] = Append(toRunner[s], f)
      BY <1>1, <1>4, <2>2
    <3>2. toRunner'[s][i] = f \/ (i \in 1..Len(toRunner[s]) /\ toRunner'[s][i] = toRunner[s][i])
      BY <1>1, <3>1, AppendIndex
    <3>3. QED
      BY <1>2, <1>4, <3>2
  <2>3. QED
    BY <2>1, <2>2
<1>5. ASSUME NEW r \in Requests, Deliver(r), toRunner' # toRunner
      PROVE  Backed(toRunner'[s][i])
  <2> DEFINE f == [req |-> r, dec |-> fut[r]]
  <2>1. f.req = r /\ f.dec = fut[r] /\ f \in Frame
    BY <1>5 DEF Deliver, Answered, Frame
  <2>2. toRunner' = [toRunner EXCEPT ![Owner[r]] = Append(@, f)]
    BY <1>5 DEF Deliver
  <2> HIDE DEF f
  <2>3. Backed(f)
    BY <2>1 DEF ApprovalsInv, Backed
  <2>4. QED
    BY <1>4, <2>1, <2>2, <2>3
<1>6. ASSUME NEW x \in Sessions, RunnerReceives(x) PROVE Backed(toRunner'[s][i])
  <2>1. CASE x # s
    BY <1>1, <1>3, <1>6, <2>1 DEF RunnerReceives
  <2>2. CASE x = s
    <3>1. toRunner[s] # <<>> /\ toRunner'[s] = Tail(toRunner[s])
      BY <1>1, <1>6, <2>2 DEF RunnerReceives
    <3>2. i + 1 \in 1..Len(toRunner[s]) /\ toRunner'[s][i] = toRunner[s][i + 1]
      BY <1>1, <3>1, TailIndex
    <3>3. QED
      BY <1>2, <3>2
  <2>3. QED
    BY <2>1, <2>2
<1>7. ASSUME NEW x \in Sessions, TearDown(x) PROVE Backed(toRunner'[s][i])
  <2>1. CASE SendShutdown(x)
    <3> DEFINE f == [req |-> None, dec |-> "shutdown"]
    <3>1. f \in Frame /\ f.dec = "shutdown"
      BY DEF Frame
    <3>2. toRunner' = [toRunner EXCEPT ![x] = Append(@, f)]
      BY <2>1 DEF SendShutdown
    <3> HIDE DEF f
    <3>3. Backed(f)
      BY <3>1 DEF Backed, Decision
    <3>4. QED
      BY <1>4, <1>7, <3>1, <3>2, <3>3
  <2>2. CASE StopRunner(x)
    <3>1. CASE x # s
      BY <1>1, <1>3, <2>2, <3>1 DEF StopRunner
    <3>2. CASE x = s
      BY <1>1, <2>2, <3>2 DEF StopRunner
    <3>3. QED
      BY <3>1, <3>2
  <2>3. QED
    BY <1>3, <1>7, <2>1, <2>2 DEF TearDown, BridgeShutdown, BridgeShutdownCut
<1>8. ASSUME toRunner' # toRunner
      PROVE  \/ \E r \in Requests : Deliver(r)
             \/ \E x \in Sessions : RunnerReceives(x) \/ TearDown(x)
  <2>1. ASSUME NEW c \in Resolvers, CallStep(c) PROVE FALSE
    BY <1>8, <2>1 DEF CallStep, ReadVersion, CheckRow, Resolve, WriteRow, wireVars
  <2>2. QED
    BY <1>8, <2>1
       DEF Next, Ask, BridgeReceives, Cancel, SessionEnds, RelayShutdown, vars, Answer, wireVars
<1>9. QED
  BY <1>3, <1>5, <1>6, <1>7, <1>8

LEMMA ApprovalsStep ==
    ASSUME TypeOK, CallsInv, ApprovalsInv, [Next]_vars
    PROVE  ApprovalsInv'
<1>1. ASSUME NEW r \in Requests
      PROVE  /\ fut'[r] = "accept" => Winner(r, "accept")'
             /\ asked'[r] = "accept" => Winner(r, "accept")'
             /\ row'[r].version > 0 => Winner(r, row[r].status)'
  BY <1>1, AcceptedByWinner, HeardFromWinner, RecordedByWinner
<1>2. ASSUME NEW s \in Sessions, NEW i \in 1..Len(toRunner'[s]), toRunner'[s][i].dec \in Decision
      PROVE  /\ toRunner'[s][i].req \in Requests
             /\ toRunner'[s][i].dec = "accept" => Winner(toRunner[s][i].req, "accept")'
  <2>1. Backed(toRunner'[s][i])
    BY <1>2, FramesBacked
  <2>2. \A q \in Requests : Winner(q, "accept") => Winner(q, "accept")'
    BY WinnerStays
  <2>3. \A q \in Requests : Winner(q, "accept") =>
           \E c \in Resolvers : call'[c].won /\ call'[c].req = q /\ call'[c].dec = "accept"
    BY <2>2 DEF Winner, Won
  <2>4. QED
    BY <1>2, <2>1, <2>3 DEF Backed, Winner, Won
<1>3. QED
  BY <1>1, <1>2 DEF ApprovalsInv

----------------------------------------------------------------------------
(* Denials on their way *)

\* A session does not come back to life.
LEMMA EndedStaysEnded ==
    ASSUME TypeOK, [Next]_vars, NEW s \in Sessions, sess'[s] = "live"
    PROVE  sess[s] = "live"
<1>1. sess \in [Sessions -> {"live", "ending", "stopping", "over"}]
  BY DEF TypeOK
<1>2. ASSUME NEW c \in Resolvers, CallStep(c) PROVE sess' = sess
  BY <1>2 DEF CallStep, ReadVersion, CheckRow, Resolve, WriteRow
<1>3. QED
  BY <1>1, <1>2
     DEF Next, Ask, BridgeReceives, Deliver, RunnerReceives, Cancel, SessionEnds, TearDown,
         BridgeShutdown, BridgeShutdownCut, StopRunner, Answer, RelayShutdown, vars

\* In a live session a future is denied only by a resolver that thereby wins.
LEMMA DeniedByWinner ==
    ASSUME TypeOK, CallsInv, DenialsInv, [Next]_vars, NEW r \in Requests,
           sess'[Owner[r]] = "live", fut'[r] = "deny"
    PROVE  Winner(r, "deny")'
<1> USE HITLAssumption DEF wireVars
<1>1. /\ fut \in [Requests -> {"none", "open"} \cup Decision]
      /\ sess \in [Sessions -> {"live", "ending", "stopping", "over"}]
      /\ Owner[r] \in Sessions
  BY DEF TypeOK
<1>2. sess[Owner[r]] = "live"
  BY <1>1, EndedStaysEnded
<1>3. CASE fut[r] = "deny"
  BY <1>2, <1>3, WinnerStays DEF DenialsInv
<1>4. CASE fut[r] # "deny"
  <2>1. ASSUME Others PROVE FALSE
    BY <1>1, <1>2, <1>4, <2>1
       DEF Others, Ask, BridgeReceives, Deliver, RunnerReceives, Cancel, CancelAll, SessionEnds,
           TearDown, BridgeShutdown, BridgeShutdownCut, StopRunner, RelayShutdown, vars
  <2>2. ASSUME NEW c \in Resolvers, NEW q \in Requests, NEW d \in Decision, NEW via \in Via,
               Answer(c, q, d, via)
        PROVE  FALSE
    BY <1>4, <2>2 DEF Answer
  <2>3. PICK c \in Resolvers : CallStep(c)
    BY <2>1, <2>2, StepCases DEF NextCases
  <2>4. "deny" \in Decision
    BY DEF Decision
  <2>5. QED
    BY <1>4, <2>3, <2>4, AnsweredByWinner
<1>5. QED
  BY <1>3, <1>4

\* The runner of a live session takes a request for denied only from such a
\* future or frame: the shutdown frame, which denies everything, comes later.
LEMMA RefusedByWinner ==
    ASSUME TypeOK, CallsInv, DenialsInv, [Next]_vars, NEW r \in Requests,
           sess'[Owner[r]] = "live", asked'[r] = "deny"
    PROVE  Winner(r, "deny")'
<1> USE HITLAssumption DEF wireVars
<1>1. /\ asked \in [Requests -> {"no", "waiting", "gone"} \cup Decision]
      /\ toRunner \in [Sessions -> Seq(Frame)]
      /\ Owner[r] \in Sessions
  BY DEF TypeOK
<1>2. sess[Owner[r]] = "live"
  BY <1>1, EndedStaysEnded
<1>3. SUFFICES Winner(r, "deny")
  BY WinnerStays
<1>4. CASE asked[r] = "deny"
  BY <1>2, <1>4 DEF DenialsInv
<1>5. ASSUME NEW q \in Requests, Deliver(q), asked[r] # "deny" PROVE Winner(r, "deny")
  <2>1. fut[r] = "deny"
    BY <1>1, <1>5 DEF Deliver
  <2>2. QED
    BY <1>2, <2>1 DEF DenialsInv
<1>6. ASSUME NEW s \in Sessions, RunnerReceives(s), asked[r] # "deny" PROVE Winner(r, "deny")
  <2> DEFINE f == Head(toRunner[s])
  <2>1. toRunner[s] # <<>> /\ toRunner[s] \in Seq(Frame)
    BY <1>1, <1>6 DEF RunnerReceives
  <2>2. f = toRunner[s][1] /\ 1 \in 1..Len(toRunner[s])
    BY <2>1, TailIndex
  <2>3. \/ f.dec = "deny" /\ f.req = r
        \/ f.dec = "shutdown" /\ Owner[r] = s
    BY <1>1, <1>6 DEF RunnerReceives
  <2> HIDE DEF f
  <2>4. Heeded(f) /\ (f.dec = "shutdown" => sess[s] # "live")
    BY <2>2 DEF DenialsInv
  <2>5. QED
    BY <1>2, <2>3, <2>4 DEF Heeded
<1>7. ASSUME asked[r] # "deny"
      PROVE  \/ \E q \in Requests : Deliver(q)
             \/ \E s \in Sessions : RunnerReceives(s)
  <2>1. ASSUME NEW q \in Requests, Ask(q) \/ BridgeReceives(q) PROVE FALSE
    BY <1>1, <1>7, <2>1 DEF Ask, BridgeReceives
  <2>2. ASSUME NEW s \in Sessions, Cancel(s) \/ SessionEnds(s) \/ TearDown(s) PROVE FALSE
    BY <1>1, <1>7, <2>2
       DEF Cancel, SessionEnds, TearDown, BridgeShutdown, BridgeShutdownCut, StopRunner
  <2>3. ASSUME NEW c \in Resolvers, CallStep(c) PROVE FALSE
    BY <1>7, <2>3 DEF CallStep, ReadVersion, CheckRow, Resolve, WriteRow
  <2>4. ASSUME NEW c \in Resolvers, NEW q \in Requests, NEW d \in Decision, NEW via \in Via,
               Answer(c, q, d, via)
        PROVE  FALSE
    BY <1>7, <2>4 DEF Answer
  <2>5. ~RelayShutdown /\ ~UNCHANGED vars
    BY <1>7 DEF RelayShutdown, vars
  <2>6. QED
    BY <2>1, <2>2, <2>3, <2>4, <2>5 DEF Next
<1>8. QED
  BY <1>4, <1>5, <1>6, <1>7

\* A row with a decision has been written.
LEMMA RowsWritten ==
    ASSUME TypeOK, CallsInv, DenialsInv, [Next]_vars, NEW r \in Requests,
           row'[r].status \in Decision
    PROVE  row'[r].version > 0
<1>1. CASE row'[r] = row[r]
  BY <1>1 DEF DenialsInv
<1>2. CASE row'[r] # row[r]
  <2>1. PICK c \in Resolvers : WriteRow(c)
    BY <1>2, OthersKeepCalls, StepCases
       DEF NextCases, Answer, CallStep, ReadVersion, CheckRow, Resolve
  <2>2. row \in [Requests -> Row] /\ row[r].version \in Nat
    BY DEF TypeOK, Row
  <2>3. row'[r].version = row[r].version + 1
    BY <1>2, <2>1, <2>2 DEF WriteRow
  <2>4. QED
    BY <2>2, <2>3
<1>3. QED
  BY <1>1, <1>2

\* A denial that is sent is a winner's or its session is ending, and a shutdown
\* frame is sent by a bridge that stops.
LEMMA FramesHeeded ==
    ASSUME TypeOK, DenialsInv, [Next]_vars, NEW s \in Sessions, NEW i \in 1..Len(toRunner'[s])
    PROVE  /\ Heeded(toRunner'[s][i])
           /\ toRunner'[s][i].dec = "shutdown" => sess'[s] # "live"
<1> USE HITLAssumption
<1> DEFINE Goal == /\ Heeded(toRunner'[s][i])
                   /\ toRunner'[s][i].dec = "shutdown" => sess'[s] # "live"
<1>1. /\ toRunner \in [Sessions -> Seq(Frame)] /\ toRunner[s] \in Seq(Frame)
      /\ fut \in [Requests -> {"none", "open"} \cup Decision]
      /\ sess \in [Sessions -> {"live", "ending", "stopping", "over"}]
  BY DEF TypeOK
<1>2. \A j \in 1..Len(toRunner[s]) :
         Heeded(toRunner[s][j]) /\ (toRunner[s][j].dec = "shutdown" => sess'[s] # "live")
  BY EndedStaysEnded DEF DenialsInv
<1>3. CASE toRunner'[s] = toRunner[s]
  BY <1>2, <1>3
<1>4. ASSUME NEW f \in Frame, NEW x \in Sessions, Heeded(f),
             f.dec = "shutdown" => sess'[x] # "live",
             toRunner' = [toRunner EXCEPT ![x] = Append(@, f)]
      PROVE  Goal
  <2>1. CASE x # s
    BY <1>1, <1>3, <1>4, <2>1
  <2>2. CASE x = s
    <3>1. toRunner'[s] = Append(toRunner[s], f)
      BY <1>1, <1>4, <2>2
    <3>2. toRunner'[s][i] = f \/ (i \in 1..Len(toRunner[s]) /\ toRunner'[s][i] = toRunner[s][i])
      BY <1>1, <3>1, AppendIndex
    <3>3. QED
      BY <1>2, <1>4, <2>2, <3>2
  <2>3. QED
    BY <2>1, <2>2
<1>5. ASSUME NEW r \in Requests, Deliver(r), toRunner' # toRunner
      PROVE  Goal
  <2> DEFINE f == [req |-> r, dec |-> fut[r]]
  <2>1. f.req = r /\ f.dec = fut[r] /\ f \in Frame /\ fut[r] # "shutdown"
    BY <1>5 DEF Deliver, Answered, Frame, Decision
  <2>2. toRunner' = [toRunner EXCEPT ![Owner[r]] = Append(@, f)]
    BY <1>5 DEF Deliver
  <2> HIDE DEF f
  <2>3. Heeded(f)
    BY <2>1 DEF DenialsInv, Heeded
  <2>4. QED
    BY <1>4, <2>1, <2>2, <2>3
<1>6. ASSUME NEW x \in Sessions, RunnerReceives(x) PROVE Goal
  <2>1. CASE x # s
    BY <1>1, <1>3, <1>6, <2>1 DEF RunnerReceives
  <2>2. CASE x = s
    <3>1. toRunner[s] # <<>> /\ toRunner'[s] = Tail(toRunner[s])
      BY <1>1, <1>6, <2>2 DEF RunnerReceives
    <3>2. i + 1 \in 1..Len(toRunner[s]) /\ toRunner'[s][i] = toRunner[s][i + 1]
      BY <1>1, <3>1, TailIndex
    <3>3. QED
      BY <1>2, <3>2
  <2>3. QED
    BY <2>1, <2>2
<1>7. ASSUME NEW x \in Sessions, TearDown(x) PROVE Goal
  <2>1. CASE SendShutdown(x)
    <3> DEFINE f == [req |-> None, dec |-> "shutdown"]
    <3>1. f \in Frame /\ f.dec = "shutdown"
      BY DEF Frame
    <3>2. toRunner' = [toRunner EXCEPT ![x] = Append(@, f)]
      BY <2>1 DEF SendShutdown
    <3>3. sess'[x] # "live"
      BY <1>1, <1>7 DEF TearDown, BridgeShutdown, BridgeShutdownCut, StopRunner
    <3> HIDE DEF f
    <3>4. Heeded(f)
      BY <3>1 DEF Heeded
    <3>5. QED
      BY <1>4, <1>7, <3>1, <3>2, <3>3, <3>4
  <2>2. CASE StopRunner(x)
    <3>1. CASE x # s
      BY <1>1, <1>3, <2>2, <3>1 DEF StopRunner
    <3>2. CASE x = s
      BY <1>1, <2>2, <3>2 DEF StopRunner
    <3>3. QED
      BY <3>1, <3>2
  <2>3. QED
    BY <1>3, <1>7, <2>1, <2>2 DEF TearDown, BridgeShutdown, BridgeShutdownCut
<1>8. ASSUME toRunner' # toRunner
      PROVE  \/ \E r \in Requests : Deliver(r)
             \/ \E x \in Sessions : RunnerReceives(x) \/ TearDown(x)
  <2>1. ASSUME NEW c \in Resolvers, CallStep(c) PROVE FALSE
    BY <1>8, <2>1 DEF CallStep, ReadVersion, CheckRow, Resolve, WriteRow, wireVars
  <2>2. QED
    BY <1>8, <2>1
       DEF Next, Ask, BridgeReceives, Cancel, SessionEnds, RelayShutdown, vars, Answer, wireVars
<1>9. QED
  BY <1>3, <1>5, <1>6, <1>7, <1>8

LEMMA DenialsStep ==
    ASSUME TypeOK, CallsInv, ApprovalsInv, DenialsInv, [Next]_vars
    PROVE  DenialsInv'
<1>1. ASSUME NEW r \in Requests
      PROVE  /\ sess'[Owner[r]] = "live" /\ "deny" \in {fut'[r], asked'[r]} => Winner(r, "deny")'
             /\ row'[r].status \in Decision => row'[r].version > 0
  BY <1>1, DeniedByWinner, RefusedByWinner, RowsWritten
<1>2. ASSUME NEW s \in Sessions, NEW i \in 1..Len(toRunner'[s])
      PROVE  /\ Heeded(toRunner[s][i])'
             /\ toRunner'[s][i].dec = "shutdown" => sess'[s] # "live"
  <2>1. /\ Heeded(toRunner'[s][i])
        /\ toRunner'[s][i].dec = "shutdown" => sess'[s] # "live"
    BY <1>2, FramesHeeded
  <2>2. ApprovalsInv' /\ TypeOK'
    BY ApprovalsStep, TypeStep
  <2>3. toRunner'[s][i].dec = "deny" => toRunner'[s][i].req \in Requests
    BY <1>2, <2>2 DEF ApprovalsInv, Decision
  <2>4. \A q \in Requests : sess'[Owner[q]] = "live" => sess[Owner[q]] = "live"
    BY EndedStaysEnded, HITLAssumption
  <2>5. \A q \in Requests : Winner(q, "deny") => Winner(q, "deny")'
    BY WinnerStays
  <2>6. \A q \in Requests : Winner(q, "deny") =>
           \E c \in Resolvers : call'[c].won /\ call'[c].req = q /\ call'[c].dec = "deny"
    BY <2>5 DEF Winner, Won
  <2>7. QED
    BY <2>1, <2>3, <2>4, <2>6 DEF Heeded, Winner, Won
<1>3. QED
  BY <1>1, <1>2 DEF DenialsInv

----------------------------------------------------------------------------
(* Tear-down *)

LEMMA TornDownStep ==
    ASSUME TypeOK, TornDownInv, EntriesInv, [Next]_vars
    PROVE  TornDownInv'
<1> USE HITLAssumption DEF wireVars
<1>1. SUFFICES ASSUME NEW r \in Requests
               PROVE  /\ sess'[Owner[r]] \in {"stopping", "over"} /\ Owner[r] \notin cut' => fut'[r] = "none"
                      /\ Owner[r] \in cut' \/ sess'[Owner[r]] = "stopping" => Owner[r] \in Wire
  BY DEF TornDownInv
<1> DEFINE Goal ==
      /\ sess'[Owner[r]] \in {"stopping", "over"} /\ Owner[r] \notin cut' => fut'[r] = "none"
      /\ Owner[r] \in cut' \/ sess'[Owner[r]] = "stopping" => Owner[r] \in Wire
<1>2. /\ sess \in [Sessions -> {"live", "ending", "stopping", "over"}]
      /\ fut \in [Requests -> {"none", "open"} \cup Decision]
      /\ call \in [Resolvers -> Call] /\ Owner[r] \in Sessions
  BY DEF TypeOK
<1>3. /\ sess[Owner[r]] \in {"stopping", "over"} /\ Owner[r] \notin cut => fut[r] = "none"
      /\ Owner[r] \in cut \/ sess[Owner[r]] = "stopping" => Owner[r] \in Wire
  BY DEF TornDownInv
<1>4. ASSUME NEW q \in Requests, Ask(q) \/ BridgeReceives(q) \/ Deliver(q) PROVE Goal
  BY <1>2, <1>3, <1>4 DEF Ask, BridgeReceives, Deliver, OfWire
<1>5. ASSUME NEW s \in Sessions, RunnerReceives(s) \/ Cancel(s) \/ SessionEnds(s) PROVE Goal
  BY <1>2, <1>3, <1>5 DEF RunnerReceives, Cancel, CancelAll, SessionEnds
<1>6. ASSUME NEW s \in Sessions, TearDown(s) PROVE Goal
  <2>1. CASE BridgeShutdown(s)
    BY <1>2, <1>3, <2>1 DEF BridgeShutdown
  <2>2. CASE BridgeShutdownCut(s)
    BY <1>2, <1>3, <2>2 DEF BridgeShutdownCut
  <2>3. CASE StopRunner(s)
    BY <1>2, <1>3, <2>3 DEF StopRunner
  <2>4. QED
    BY <1>6, <2>1, <2>2, <2>3 DEF TearDown
<1>7. ASSUME NEW c \in Resolvers, CallStep(c) PROVE Goal
  <2>1. fut[r] = "none" => fut'[r] = "none"
    BY <1>2, <1>7 DEF CallStep, ReadVersion, CheckRow, Resolve, WriteRow
  <2>2. sess' = sess /\ cut' = cut
    BY <1>7 DEF CallStep, ReadVersion, CheckRow, Resolve, WriteRow
  <2>3. QED
    BY <1>3, <2>1, <2>2
<1>8. ASSUME NEW c \in Resolvers, NEW q \in Requests, NEW d \in Decision, NEW via \in Via,
             Answer(c, q, d, via)
      PROVE  Goal
  BY <1>3, <1>8 DEF Answer
<1>9. CASE RelayShutdown \/ UNCHANGED vars
  BY <1>2, <1>3, <1>9 DEF RelayShutdown, vars
<1>10. QED
  BY <1>4, <1>5, <1>6, <1>7, <1>8, <1>9 DEF Next

----------------------------------------------------------------------------
(* The theorems *)

LEMMA InitHITLInv == Init => HITLInv
<1>1. Init => CallsInv
  BY DEF Init, CallsInv
<1>2. Init => EntriesInv
  BY DEF Init, EntriesInv, NoWinner, Won
<1>3. Init => ApprovalsInv
  BY DEF Init, ApprovalsInv
<1>4. Init => TornDownInv
  BY HITLAssumption DEF Init, TornDownInv
<1>5. QED
  BY <1>1, <1>2, <1>3, <1>4 DEF HITLInv

\* Type correctness: no step leaves the coordinator, the frames or the rows
\* with a value the code does not know.
THEOREM HITLTypeCorrect == Spec => []TypeOK
<1>1. TypeOK /\ [Next]_vars => TypeOK'
  BY TypeStep
<1>2. QED
  BY <1>1, InitType, PTL DEF Spec

LEMMA HITLInductive == Spec => [](TypeOK /\ HITLInv)
<1>1. TypeOK /\ HITLInv /\ [Next]_vars => HITLInv'
  BY WinnersStay, EntriesStep, ApprovalsStep, TornDownStep DEF HITLInv
<1>2. QED
  BY <1>1, InitType, InitHITLInv, TypeStep, PTL DEF Spec

\* Resolvers race: whoever and however many answer a request, the coordinator's
\* future has one winner, a tool runs only on a winner's approval, and the row
\* records the winner's decision.
THEOREM OneDecisionHolds == Spec => []OneDecision
<1>1. HITLInv => OneDecision
  BY DEF HITLInv, EntriesInv, ApprovalsInv, OneDecision, Winner
<1>2. QED
  BY <1>1, HITLInductive, PTL

\* A session whose bridge was shut down leaves nothing in the coordinator that
\* could still be answered.
THEOREM NoGhosts == Spec => []NoGhostEntry
<1>1. HITLInv => NoGhostEntry
  BY DEF HITLInv, TornDownInv, NoGhostEntry
<1>2. QED
  BY <1>1, HITLInductive, PTL

\* The human's approval and the runner's reading of it agree: as long as the
\* session is live, no call the table records as approved was denied to the
\* runner, whichever of coordinator, bridge and proxy carried it.
THEOREM DecisionsAreDelivered == Spec => []RecordedIsDelivered
<1>1. Init => DenialsInv
  BY DEF Init, DenialsInv, Decision
<1>2. TypeOK /\ HITLInv /\ DenialsInv /\ [Next]_vars => DenialsInv'
  BY DenialsStep DEF HITLInv
<1>3. HITLInv /\ DenialsInv => RecordedIsDelivered
  <2> SUFFICES ASSUME HITLInv, DenialsInv, NEW r \in Requests, row[r].status = "accept",
                      asked[r] = "deny", sess[Owner[r]] = "live"
               PROVE  FALSE
    BY DEF RecordedIsDelivered
  <2>1. Winner(r, "accept")
    BY DEF HITLInv, ApprovalsInv, DenialsInv, Decision
  <2>2. Winner(r, "deny")
    BY DEF DenialsInv
  <2>3. QED
    BY <2>1, <2>2 DEF HITLInv, EntriesInv, Winner
<1>4. QED
  BY <1>1, <1>2, <1>3, HITLInductive, PTL DEF Spec
=============================================================================
