---------------------------- MODULE RunnerProofs ----------------------------
(***************************************************************************)
(* Theorems about a conversation with the SDK, for every number of tool    *)
(* uses, of any kinds, and for every limit and budget.                     *)
(***************************************************************************)
EXTENDS Runner, DataLemmas

(***************************************************************************)
(* The two queues.                                                         *)
(***************************************************************************)

\* FirstMatch is the position of the first entry of the kind, or 0.
LEMMA FirstMatchIs ==
    ASSUME NEW q \in Seq(Uses), NEW u \in Uses
    PROVE  LET i == FirstMatch(q, u)
           IN  IF i = 0 THEN \A j \in DOMAIN q : KindOf[q[j]] # KindOf[u]
                        ELSE /\ i \in DOMAIN q /\ KindOf[q[i]] = KindOf[u]
                             /\ \A j \in DOMAIN q : KindOf[q[j]] = KindOf[u] => i <= j
<1> DEFINE I == {i \in 1..Len(q) : KindOf[q[i]] = KindOf[u]}
<1>1. FirstMatch(q, u) = IF I # {} THEN Min(I) ELSE 0
  BY DEF FirstMatch, SelectInSeq
<1>2. I \in SUBSET Nat /\ 0 \notin I /\ DOMAIN q = 1..Len(q)
  OBVIOUS
<1>3. CASE I = {}
  BY <1>1, <1>2, <1>3
<1>4. CASE I # {}
  <2>1. Min(I) \in I /\ \A i \in I : Min(I) <= i
    BY <1>2, <1>4, MinOfNats
  <2>2. QED
    BY <1>1, <1>2, <1>4, <2>1
<1>5. QED
  BY <1>3, <1>4

\* A queue holds the uses of S, those of one kind in the order of the uses.
Lists(q, S) ==
    /\ q \in Seq(Uses) /\ Range(q) = S
    /\ \A i, j \in DOMAIN q : i < j /\ KindOf[q[i]] = KindOf[q[j]] => q[i] < q[j]

LEMMA ListsAppend ==
    ASSUME NEW q, NEW S \in SUBSET Uses, Lists(q, S), NEW u \in Uses,
           \A v \in S : KindOf[v] = KindOf[u] => v < u
    PROVE  Lists(Append(q, u), S \cup {u})
<1> DEFINE r == Append(q, u)
<1>1. q \in Seq(Uses) /\ DOMAIN q = 1..Len(q) /\ Len(q) \in Nat
  BY DEF Lists
<1>2. /\ r \in Seq(Uses) /\ DOMAIN r = 1..(Len(q) + 1)
      /\ \A i \in DOMAIN q : r[i] = q[i]
      /\ r[Len(q) + 1] = u
  BY <1>1
<1> HIDE DEF r
<1>3. \A i \in DOMAIN r : i \in DOMAIN q \/ i = Len(q) + 1
  BY <1>1, <1>2
<1>4. Range(r) = S \cup {u}
  <2>1. \A v \in S \cup {u} : \E i \in DOMAIN r : r[i] = v
    <3>1. ASSUME NEW v \in S PROVE \E i \in DOMAIN r : r[i] = v
      <4>1. PICK i \in DOMAIN q : q[i] = v
        BY <3>1 DEF Lists, Range
      <4>2. QED
        BY <1>1, <1>2, <4>1
    <3>2. QED
      BY <1>1, <1>2, <3>1
  <2>2. \A i \in DOMAIN r : r[i] \in S \cup {u}
    BY <1>2, <1>3 DEF Lists, Range
  <2>3. QED
    BY <2>1, <2>2 DEF Range
<1>5. ASSUME NEW i \in DOMAIN r, NEW j \in DOMAIN r, i < j, KindOf[r[i]] = KindOf[r[j]]
      PROVE  r[i] < r[j]
  <2>1. i \in DOMAIN q
    BY <1>1, <1>2, <1>3, <1>5
  <2>2. q[i] \in S
    BY <2>1 DEF Lists, Range
  <2>3. QED
    BY <1>2, <1>3, <1>5, <2>1, <2>2 DEF Lists
<1>6. QED
  BY <1>2, <1>4, <1>5 DEF Lists, r

\* When u is the least of its kind that can be in the queue, FirstMatch finds u
\* itself or nothing of its kind.
LEMMA ListsFirst ==
    ASSUME NEW q, NEW S \in SUBSET Uses, Lists(q, S), NEW u \in Uses,
           \A v \in S : KindOf[v] = KindOf[u] => u <= v /\ u \in S,
           NEW i, i = FirstMatch(q, u)
    PROVE  IF i = 0 THEN u \notin S
                    ELSE i \in DOMAIN q /\ q[i] = u /\ Lists(RemoveAt(q, i), S \ {u})
<1>1. q \in Seq(Uses) /\ DOMAIN q = 1..Len(q) /\ Len(q) \in Nat
  BY DEF Lists
<1>2. CASE i = 0
  BY <1>1, <1>2, FirstMatchIs DEF Lists, Range
<1>3. CASE i # 0
  <2>1. /\ i \in DOMAIN q /\ KindOf[q[i]] = KindOf[u] /\ q[i] \in S
        /\ \A j \in DOMAIN q : KindOf[q[j]] = KindOf[u] => i <= j
    BY <1>1, <1>3, FirstMatchIs DEF Lists, Range
  <2>2. PICK j \in DOMAIN q : q[j] = u
    BY <2>1 DEF Lists, Range
  <2>3. q[i] = u
    <3>1. i <= j /\ u <= q[i] /\ q[i] \in Uses
      BY <2>1, <2>2
    <3>2. CASE i < j
      BY <2>1, <2>2, <3>1, <3>2 DEF Lists, Uses
    <3>3. QED
      BY <1>1, <2>1, <2>2, <3>1, <3>2
  <2> DEFINE r == RemoveAt(q, i)
             at(k) == IF k < i THEN k ELSE k + 1
  <2>4. /\ r \in Seq(Uses) /\ DOMAIN r = 1..(Len(q) - 1)
        /\ \A k \in DOMAIN r : r[k] = q[at(k)]
    <3>1. /\ r \in Seq(Uses) /\ Len(r) = Len(q) - 1
          /\ \A k \in 1..(Len(q) - 1) : r[k] = q[at(k)]
      BY <1>1, <2>1, RemoveAtIs
    <3> HIDE DEF r
    <3>2. QED
      BY <3>1
  <2> HIDE DEF r
  <2>5. \A k \in DOMAIN r : at(k) \in DOMAIN q /\ at(k) # i
    BY <1>1, <2>1, <2>4
  <2>6. \A k, l \in DOMAIN r : k < l => at(k) < at(l)
    BY <1>1, <2>1, <2>4
  <2>7. \A k \in DOMAIN q : k # i => q[k] # u
    <3> SUFFICES ASSUME NEW k \in DOMAIN q, k # i, q[k] = u PROVE FALSE
      OBVIOUS
    <3>1. k < i \/ i < k
      BY <1>1, <2>1
    <3>2. ~(u < u)
      BY DEF Uses
    <3>3. QED
      BY <2>1, <2>3, <3>1, <3>2 DEF Lists
  <2>8. Range(r) = S \ {u}
    <3>1. \A k \in DOMAIN r : r[k] \in S \ {u}
      BY <2>4, <2>5, <2>7 DEF Lists, Range
    <3>2. ASSUME NEW v \in S \ {u} PROVE \E k \in DOMAIN r : r[k] = v
      <4>1. PICK l \in DOMAIN q : q[l] = v
        BY DEF Lists, Range
      <4>2. l # i
        BY <2>3, <4>1
      <4>3. CASE l < i
        <5>1. l \in DOMAIN r /\ at(l) = l
          BY <1>1, <2>1, <2>4, <4>3
        <5>2. QED
          BY <2>4, <4>1, <5>1
      <4>4. CASE i < l
        <5>1. l - 1 \in DOMAIN r /\ at(l - 1) = l
          BY <1>1, <2>1, <2>4, <4>4
        <5>2. QED
          BY <2>4, <4>1, <5>1
      <4>5. QED
        BY <1>1, <2>1, <4>2, <4>3, <4>4
    <3>3. QED
      BY <3>1, <3>2 DEF Range
  <2>9. ASSUME NEW k \in DOMAIN r, NEW l \in DOMAIN r, k < l, KindOf[r[k]] = KindOf[r[l]]
        PROVE  r[k] < r[l]
    BY <2>4, <2>5, <2>6, <2>9 DEF Lists
  <2>10. QED
    BY <1>3, <2>1, <2>3, <2>4, <2>8, <2>9 DEF Lists, r
<1>4. QED
  BY <1>2, <1>3

(***************************************************************************)
(* Frames.                                                                 *)
(***************************************************************************)

FrameTypes == {"install.done", "pre_run", "truncated", "error", "msg.chunk", "tool.request",
               "tool.result", "session.end", "pause.ack", "hook"}
Frames == [type : FrameTypes, seq : Nat, use : Nat, req : Nat]

LEMMA FrameType ==
    ASSUME NEW t \in FrameTypes, NEW n \in Nat
    PROVE  Frame(t, n) \in Frames /\ Frame(t, n).type = t /\ Frame(t, n).seq = n
BY DEF Frame, Frames, NoReq

\* What is added to the channel by one frame, and by two.
Adds(f) == /\ chan' = Append(chan, f)
           /\ verdicts' = verdicts \cup ({f.type} \cap {"session.end", "error"})

AddsTwo(f, g) == /\ chan' = Append(Append(chan, f), g)
                 /\ verdicts' = verdicts \cup ({f.type, g.type} \cap {"session.end", "error"})

LEMMA SendAdds ==
    ASSUME chan \in Seq(Frames), NEW f \in Frames, Send(f)
    PROVE  Adds(f)
<1>1. chan \o <<f>> = Append(chan, f)
  BY AppendIsConcat
<1>2. {g.type : g \in Range(<<f>>)} = {f.type}
  BY DEF Range
<1>3. QED
  BY <1>1, <1>2 DEF Send, Write, Adds

LEMMA RaiseAdds ==
    ASSUME chan \in Seq(Frames), seq \in Nat, transport = "up"
    PROVE  /\ Raise(<< >>) => Adds(Frame("error", seq + 1)) /\ seq' = seq + 1
           /\ Raise(<<Frame("msg.chunk", seq + 1)>>) =>
                /\ AddsTwo(Frame("msg.chunk", seq + 1), Frame("error", seq + 2))
                /\ seq' = seq + 2
<1> DEFINE e(n) == Frame("error", n)
           m == Frame("msg.chunk", seq + 1)
<1>1. \A n \in Nat : e(n) \in Frames /\ m \in Frames
  <2>1. ASSUME NEW n \in Nat PROVE e(n) \in Frames
    BY FrameType DEF FrameTypes
  <2>2. m \in Frames
    BY FrameType DEF FrameTypes
  <2>3. QED
    BY <2>1, <2>2
<1> HIDE DEF e, m
<1>2. Raise(<< >>) => Adds(e(seq + 1)) /\ seq' = seq + 1
  <2>1. << >> \o <<e(seq + 1)>> = <<e(seq + 1)>> /\ Len(<< >>) = 0
    OBVIOUS
  <2>2. seq + 0 + 1 = seq + 1
    OBVIOUS
  <2>3. QED
    BY <1>1, <2>1, <2>2, SendAdds DEF Raise, Send, e
<1>3. Raise(<<m>>) => AddsTwo(m, e(seq + 2)) /\ seq' = seq + 2
  <2>1. Len(<<m>>) = 1 /\ seq + 1 + 1 = seq + 2
    OBVIOUS
  <2>2. chan \o (<<m>> \o <<e(seq + 2)>>) = Append(Append(chan, m), e(seq + 2))
    BY <1>1
  <2>3. {g.type : g \in Range(<<m>> \o <<e(seq + 2)>>)} = {m.type, e(seq + 2).type}
    BY DEF Range
  <2>4. QED
    BY <2>1, <2>2, <2>3 DEF Raise, Write, AddsTwo, e
<1>4. QED
  BY <1>2, <1>3 DEF e, m

LEMMA AppendIs ==
    ASSUME NEW q \in Seq(Frames), NEW f \in Frames
    PROVE  /\ Append(q, f) \in Seq(Frames)
           /\ Range(Append(q, f)) = Range(q) \cup {f}
           /\ DOMAIN Append(q, f) = DOMAIN q \cup {Len(q) + 1}
           /\ Append(q, f)[Len(q) + 1] = f
           /\ \A i \in DOMAIN q : i # Len(q) + 1 /\ Append(q, f)[i] = q[i]
<1> DEFINE r == Append(q, f)
<1>1. /\ r \in Seq(Frames) /\ DOMAIN r = 1..(Len(q) + 1) /\ DOMAIN q = 1..Len(q)
      /\ Len(q) \in Nat /\ r[Len(q) + 1] = f /\ \A i \in 1..Len(q) : r[i] = q[i]
  OBVIOUS
<1> HIDE DEF r
<1>2. DOMAIN r = DOMAIN q \cup {Len(q) + 1}
  BY <1>1
<1>3. Range(r) = Range(q) \cup {f}
  BY <1>1, <1>2 DEF Range
<1>4. QED
  BY <1>1, <1>2, <1>3 DEF r

LEMMA TailIs ==
    ASSUME NEW q \in Seq(Frames), q # << >>
    PROVE  /\ Tail(q) \in Seq(Frames) /\ Head(q) \in Frames /\ Head(q) = q[1] /\ 1 \in DOMAIN q
           /\ Range(Tail(q)) \subseteq Range(q) /\ Head(q) \in Range(q)
           /\ \A i \in DOMAIN Tail(q) : i + 1 \in DOMAIN q /\ i + 1 # 1 /\ Tail(q)[i] = q[i + 1]
<1> DEFINE r == Tail(q)
<1>1. /\ r \in Seq(Frames) /\ DOMAIN r = 1..(Len(q) - 1) /\ DOMAIN q = 1..Len(q)
      /\ Len(q) \in Nat /\ Len(q) >= 1 /\ \A i \in 1..(Len(q) - 1) : r[i] = q[i + 1]
  OBVIOUS
<1>2. Head(q) = q[1] /\ q[1] \in Frames
  OBVIOUS
<1> HIDE DEF r
<1>3. \A i \in DOMAIN r : i + 1 \in DOMAIN q /\ i + 1 # 1 /\ r[i] = q[i + 1]
  BY <1>1
<1>4. QED
  BY <1>1, <1>2, <1>3 DEF Range, r

LEMMA PrefixIs ==
    ASSUME NEW q \in Seq(Frames), NEW n \in 0..Len(q)
    PROVE  LET r == SubSeq(q, 1, n)
           IN  /\ r \in Seq(Frames) /\ Range(r) \subseteq Range(q)
               /\ \A i \in DOMAIN r : i \in DOMAIN q /\ r[i] = q[i]
<1> DEFINE r == SubSeq(q, 1, n)
<1>1. /\ r \in Seq(Frames) /\ DOMAIN r = 1..n /\ DOMAIN q = 1..Len(q) /\ Len(q) \in Nat
      /\ \A i \in 1..n : r[i] = q[i]
  OBVIOUS
<1> HIDE DEF r
<1>2. \A i \in DOMAIN r : i \in DOMAIN q /\ r[i] = q[i]
  BY <1>1
<1>3. Range(r) \subseteq Range(q)
  BY <1>2 DEF Range
<1>4. QED
  BY <1>1, <1>2, <1>3 DEF r

\* The frames of a channel and the stored ones have different numbers.
Distinct(q, K) ==
    /\ \A i \in DOMAIN q : q[i].seq \notin K
    /\ \A i, j \in DOMAIN q : i # j => q[i].seq # q[j].seq

UsedBy(q, K) == K \cup {q[i].seq : i \in DOMAIN q}

LEMMA DistinctAppend ==
    ASSUME NEW q \in Seq(Frames), NEW K, Distinct(q, K), NEW f \in Frames, f.seq \notin UsedBy(q, K)
    PROVE  Distinct(Append(q, f), K) /\ UsedBy(Append(q, f), K) = UsedBy(q, K) \cup {f.seq}
<1> DEFINE r == Append(q, f)
<1>1. /\ DOMAIN r = DOMAIN q \cup {Len(q) + 1} /\ r[Len(q) + 1] = f
      /\ \A i \in DOMAIN q : i # Len(q) + 1 /\ r[i] = q[i]
  BY AppendIs
<1> HIDE DEF r
<1>2. Distinct(r, K)
  BY <1>1 DEF Distinct, UsedBy
<1>3. UsedBy(r, K) = UsedBy(q, K) \cup {f.seq}
  BY <1>1 DEF UsedBy
<1>4. QED
  BY <1>2, <1>3 DEF r

LEMMA DistinctTail ==
    ASSUME NEW q \in Seq(Frames), q # << >>, NEW K, Distinct(q, K)
    PROVE  /\ Head(q).seq \notin K
           /\ Distinct(Tail(q), K) /\ Distinct(Tail(q), K \cup {Head(q).seq})
           /\ UsedBy(Tail(q), K \cup {Head(q).seq}) \subseteq UsedBy(q, K)
           /\ UsedBy(Tail(q), K) \subseteq UsedBy(q, K)
<1> DEFINE r == Tail(q)
           h == Head(q)
<1>1. /\ h = q[1] /\ 1 \in DOMAIN q
      /\ \A i \in DOMAIN r : i + 1 \in DOMAIN q /\ i + 1 # 1 /\ r[i] = q[i + 1]
  BY TailIs
<1>2. \A i, j \in DOMAIN r : i # j => i + 1 # j + 1
  OBVIOUS
<1> HIDE DEF r, h
<1>3. h.seq \notin K /\ Distinct(r, K) /\ Distinct(r, K \cup {h.seq})
  BY <1>1, <1>2 DEF Distinct
<1>4. UsedBy(r, K \cup {h.seq}) \subseteq UsedBy(q, K)
  BY <1>1 DEF UsedBy
<1>5. UsedBy(r, K) \subseteq UsedBy(q, K)
  BY <1>1 DEF UsedBy
<1>6. QED
  BY <1>3, <1>4, <1>5 DEF r, h

LEMMA DistinctPrefix ==
    ASSUME NEW q \in Seq(Frames), NEW n \in 0..Len(q), NEW K, Distinct(q, K)
    PROVE  Distinct(SubSeq(q, 1, n), K) /\ UsedBy(SubSeq(q, 1, n), K) \subseteq UsedBy(q, K)
<1> DEFINE r == SubSeq(q, 1, n)
<1>1. \A i \in DOMAIN r : i \in DOMAIN q /\ r[i] = q[i]
  BY PrefixIs
<1> HIDE DEF r
<1>2. Distinct(r, K) /\ UsedBy(r, K) \subseteq UsedBy(q, K)
  BY <1>1 DEF Distinct, UsedBy
<1>3. QED
  BY <1>2 DEF r

(***************************************************************************)
(* The inductive invariant.                                                *)
(***************************************************************************)

RunTypes ==
    /\ backend \in {"inprocess", "wire"}
    /\ rpc \in {"start", "prerun", "loop", "unwind", "done", "stopped"}
    /\ rexc \in {"none", "error", "cancel"}
    /\ pr \in {"idle", "running", "sending", "marking", "reporting", "expiring", "stopping", "left", "ended"}
    /\ bus \in {"quiet", "due", "refused"} /\ transport \in {"up", "gone"}
    /\ host \in {"drain", "ended"} /\ endStatus \in {"none", "completed", "failed", "cancelled"}
    /\ cmds \in Int /\ {emitted, seq, ackSeq, hookSeq, retries, misc} \subseteq Nat
    /\ chan \in Seq(Frames) /\ verdicts \subseteq {"session.end", "error"}
    /\ synthetic \in BOOLEAN /\ kept \subseteq Nat

Over == {"unwind", "done", "stopped"}

\* What has been said so far, by how far the runner has come.
EndInv ==
    /\ rpc \in {"start", "loop"} => pr = "idle"
    /\ rpc = "prerun" => pr \notin {"left", "ended"}
    /\ rpc \in Over => pr \in {"idle", "left", "ended"}
    /\ pr = "left" => rpc = "unwind" /\ rexc # "none"
    /\ rpc \notin Over =>
          rexc = "none" /\ verdicts = (IF pr = "reporting" THEN {"error"} ELSE {})
    /\ rexc = "error" /\ transport = "up" => "error" \in verdicts
    /\ "session.end" \in verdicts => rexc # "error" /\ ~synthetic /\ "error" \notin verdicts
    /\ \A f \in Range(chan) : f.type = "session.end" => "session.end" \in verdicts
    /\ host = "drain" => bus # "refused"
    /\ host = "ended" /\ backend = "inprocess" =>
          \/ endStatus = "cancelled"
          \/ bus = "refused" /\ endStatus = "failed"
          \/ bus # "refused" /\ rpc \in Over /\ (endStatus = "failed" <=> rexc = "error")
    /\ emitted <= OutputLimit /\ (pr = "marking" => emitted = OutputLimit)
    /\ backend = "inprocess" => ackSeq = 0 /\ pr = "idle" /\ cmds = 0 /\ transport = "up"

AskedFor == {u \in asked : NeedsHitl(u)}

\* The queues hold the requests without a block and the blocks without a
\* request; a use with both has its own request's id until its result is sent.
PairInv ==
    /\ asked \subseteq Uses /\ shown \subseteq Uses
    /\ answered \subseteq asked /\ resulted \subseteq answered \cap shown
    /\ \A u \in asked : \A v \in 1..(u - 1) : KindOf[v] = KindOf[u] => v \in asked
    /\ \A u \in shown : 1..(u - 1) \subseteq shown
    /\ Lists(perms, AskedFor \ shown) /\ Lists(blocks, shown \ AskedFor)
    /\ reqOf = [u \in Uses |-> IF u \in (AskedFor \cap shown) \ resulted THEN u ELSE NoReq]
    /\ ResultsNameTheirRequest

\* The numbers given out: the runner's up to seq, the hooks' from HookBase on.
Numbered(n) ==
    \/ /\ rpc # "start" /\ n <= seq
       /\ rpc = "prerun" /\ pr \in {"idle", "running"} => n < seq
    \/ HookBase <= n /\ n < hookSeq

NumberInv ==
    /\ HookBase <= hookSeq
    /\ ackSeq = 0 /\ ~CutOff =>
          /\ lost = {} /\ Distinct(chan, kept)
          /\ \A n \in UsedBy(chan, kept) : Numbered(n)

RunnerIInv == RunTypes /\ EndInv /\ PairInv

LEMMA SendIs ==
    ASSUME chan \in Seq(Frames), NEW f \in Frames, Send(f)
    PROVE  /\ Adds(f) /\ chan' \in Seq(Frames) /\ Range(chan') = Range(chan) \cup {f}
           /\ verdicts' = IF f.type \in {"session.end", "error"} THEN verdicts \cup {f.type} ELSE verdicts
<1>1. Adds(f)
  BY SendAdds
<1>2. chan' \in Seq(Frames) /\ Range(chan') = Range(chan) \cup {f}
  BY <1>1, AppendIs DEF Adds
<1>3. verdicts' = IF f.type \in {"session.end", "error"} THEN verdicts \cup {f.type} ELSE verdicts
  BY <1>1 DEF Adds
<1>4. QED
  BY <1>1, <1>2, <1>3

(***************************************************************************)
(* How a runner ends.                                                      *)
(***************************************************************************)

\* Steps that write nothing and steps that write a frame other than session.end
\* or error leave the part of EndInv about what has been said as it is.
LEMMA EndPreRun == RunTypes /\ EndInv /\ (StartRunner \/ PreRun) => RunTypes' /\ EndInv'
<1> SUFFICES ASSUME RunTypes, EndInv, StartRunner \/ PreRun PROVE RunTypes' /\ EndInv'
  OBVIOUS
<1> USE RunnerAssumption DEF EndInv, Over, hostVars, pairVars, msgVars, preVars
<1>1. seq \in Nat /\ emitted \in Nat /\ chan \in Seq(Frames) /\ seq + 1 \in Nat
  BY DEF RunTypes
<1>2. CASE StartRunner
  <2>1. CASE backend = "inprocess"
    <3>1. Send(Frame("install.done", seq))
      BY <1>2, <2>1 DEF StartRunner
    <3>2. /\ chan' \in Seq(Frames) /\ verdicts' = verdicts
          /\ \A f \in Range(chan') : f \in Range(chan) \/ f.type = "install.done"
      BY <1>1, <3>1, SendIs, FrameType DEF FrameTypes
    <3>3. QED
      BY SMTT(30), <1>2, <2>1, <3>2 DEF StartRunner, RunTypes
  <2>2. CASE backend # "inprocess"
    BY <1>2, <2>2 DEF StartRunner, RunTypes
  <2>3. QED
    BY <2>1, <2>2
<1>3. CASE SpawnCommand
  BY <1>3 DEF SpawnCommand, RunTypes
<1>4. ASSUME NEW n \in 1..2, Output(n) PROVE RunTypes' /\ EndInv'
  <2>1. /\ chan' \in Seq(Frames) /\ verdicts' = verdicts
        /\ \A f \in Range(chan') : f \in Range(chan) \/ f.type = "pre_run"
    BY <1>1, <1>4, SendIs, FrameType DEF FrameTypes, Output
  <2>2. emitted' \in Nat /\ emitted' <= OutputLimit
    BY <1>1, <1>4 DEF Output, Forwarded
  <2>3. QED
    BY <1>4, <2>1, <2>2 DEF Output, RunTypes
<1>5. CASE Drained
  <2>1. CASE pr = "sending" /\ emitted >= OutputLimit
    <3>1. Send(Frame("truncated", seq + 1))
      BY <1>5, <2>1 DEF Drained
    <3>2. /\ chan' \in Seq(Frames) /\ verdicts' = verdicts
          /\ \A f \in Range(chan') : f \in Range(chan) \/ f.type = "truncated"
      BY <1>1, <3>1, SendIs, FrameType, SMTT(30) DEF FrameTypes
    <3>3. QED
      BY <1>1, <1>5, <2>1, <3>2 DEF Drained, RunTypes
  <2>2. CASE ~(pr = "sending" /\ emitted >= OutputLimit)
    BY <1>1, <1>5, <2>2, ZenonT(30) DEF Drained, RunTypes
  <2>3. QED
    BY <2>1, <2>2
<1>6. CASE CommandDone
  BY <1>6 DEF CommandDone, RunTypes
<1>7. CASE CommandFails
  <2>1. /\ chan' \in Seq(Frames) /\ verdicts' = verdicts \cup {"error"}
        /\ \A f \in Range(chan') : f \in Range(chan) \/ f.type = "error"
    BY <1>1, <1>7, SendIs, FrameType DEF FrameTypes, CommandFails
  <2>2. verdicts' = {"error"}
    BY <1>7, <2>1 DEF CommandFails
  <2>3. QED
    BY <1>7, <2>1, <2>2, SMTT(30) DEF CommandFails, RunTypes
<1>8. CASE ErrorDrained
  BY SMTT(30), <1>8 DEF ErrorDrained, RunTypes
\* A command's end in an error.
<1>9. ASSUME EndsInError, rpc = "prerun", pr \in {"reporting", "expiring"}, pr' \in {"left", "ended"},
             UNCHANGED <<backend, cmds, emitted, ackSeq, hookSeq, pairVars, msgVars, transport, hostVars>>
      PROVE  RunTypes' /\ EndInv'
  <2>1. CASE transport = "up"
    <3>1. Send(Frame("error", seq)) /\ seq' = seq + 1
      BY <1>9, <2>1 DEF EndsInError
    <3>2. /\ chan' \in Seq(Frames) /\ verdicts' = verdicts \cup {"error"}
          /\ \A f \in Range(chan') : f \in Range(chan) \/ f.type = "error"
      BY <1>1, <3>1, SendIs, FrameType DEF FrameTypes
    <3>3. QED
      BY <1>1, <1>9, <2>1, <3>1, <3>2, SMTT(30) DEF EndsInError, RunTypes
  <2>2. CASE transport # "up"
    <3>1. rpc' = "unwind" /\ rexc' = "error" /\ UNCHANGED <<seq, chan, verdicts>>
      BY <1>9, <2>2 DEF EndsInError
    <3>2. RunTypes'
      BY <1>9, <3>1, SMTT(30) DEF RunTypes
    <3>3. EndInv'
      BY <1>9, <2>2, <3>1, SMTT(30) DEF RunTypes
    <3>4. QED
      BY <3>2, <3>3
  <2>3. QED
    BY <2>1, <2>2
<1>10. ASSUME EndsInCancel, rpc = "prerun", pr = "stopping", pr' \in {"left", "ended"},
              UNCHANGED <<backend, cmds, emitted, ackSeq, hookSeq, pairVars, msgVars, transport, hostVars>>
       PROVE  RunTypes' /\ EndInv'
  BY <1>10, SMTT(30) DEF EndsInCancel, RunTypes
<1>11. CASE PreRunTimeout
  <2>1. CASE pr \in Streaming /\ pr' = "expiring" /\ UNCHANGED <<rpc, rexc, seq, chan, verdicts>>
    BY <1>11, <2>1, SMTT(30) DEF PreRunTimeout, Streaming, RunTypes
  <2>2. QED
    BY <1>9, <1>10, <1>11, <2>1 DEF PreRunTimeout
<1>12. CASE TerminateProc
  BY <1>9, <1>10, <1>12 DEF TerminateProc
<1>13. QED
  BY <1>2, <1>3, <1>4, <1>5, <1>6, <1>7, <1>8, <1>11, <1>12 DEF PreRun

LEMMA EndConverse ==
    RunTypes /\ EndInv /\ (\A u \in Uses : reqOf[u] \in Nat) /\ Converse => RunTypes' /\ EndInv'
<1> SUFFICES ASSUME RunTypes, EndInv, \A u \in Uses : reqOf[u] \in Nat, Converse
             PROVE  RunTypes' /\ EndInv'
  OBVIOUS
<1> USE RunnerAssumption DEF EndInv, Over, hostVars, pairVars, msgVars, preVars
<1>1. /\ seq \in Nat /\ seq + 1 \in Nat /\ seq + 2 \in Nat /\ ackSeq + 1 \in Nat
      /\ hookSeq \in Nat /\ hookSeq + 1 \in Nat /\ misc + 1 \in Nat /\ retries + 1 \in Nat
      /\ chan \in Seq(Frames)
  <2>1. seq \in Nat /\ ackSeq \in Nat /\ hookSeq \in Nat /\ misc \in Nat /\ retries \in Nat
    BY DEF RunTypes
  <2>2. QED
    BY <2>1 DEF RunTypes
\* An error before the runner unwinds, and a frame that ends nothing.
<1>2. ASSUME Raise(<< >>) \/ Raise(<<Frame("msg.chunk", seq + 1)>>), verdicts = {}
      PROVE  /\ chan' \in Seq(Frames) /\ seq' \in Nat
             /\ verdicts' = IF transport = "up" THEN {"error"} ELSE {}
             /\ rpc' = "unwind" /\ rexc' = "error"
             /\ \A f \in Range(chan') : f \in Range(chan) \/ f.type # "session.end"
  <2> DEFINE m == Frame("msg.chunk", seq + 1)
             e(n) == Frame("error", n)
  <2>1. /\ m \in Frames /\ m.type = "msg.chunk"
        /\ \A n \in Nat : e(n) \in Frames /\ e(n).type = "error"
    BY <1>1, FrameType DEF FrameTypes
  <2> HIDE DEF m, e
  <2>2. CASE transport = "up" /\ Adds(e(seq + 1)) /\ seq' = seq + 1
    <3>1. chan' \in Seq(Frames) /\ Range(chan') = Range(chan) \cup {e(seq + 1)}
      BY <1>1, <2>1, <2>2, AppendIs DEF Adds
    <3>2. verdicts' = {"error"}
      BY <1>1, <1>2, <2>1, <2>2 DEF Adds
    <3>3. QED
      BY <1>1, <1>2, <2>1, <2>2, <3>1, <3>2 DEF Raise
  <2>3. CASE transport = "up" /\ AddsTwo(m, e(seq + 2)) /\ seq' = seq + 2
    <3> DEFINE q == Append(chan, m)
    <3>1. q \in Seq(Frames) /\ Range(q) = Range(chan) \cup {m} /\ chan' = Append(q, e(seq + 2))
      BY <1>1, <2>1, <2>3, AppendIs DEF AddsTwo
    <3> HIDE DEF q
    <3>2. chan' \in Seq(Frames) /\ Range(chan') = Range(chan) \cup {m} \cup {e(seq + 2)}
      <4>1. e(seq + 2) \in Frames
        BY <1>1, <2>1
      <4>2. QED
        BY <3>1, <4>1, AppendIs
    <3>3. verdicts' = {"error"}
      BY <1>1, <1>2, <2>1, <2>3 DEF AddsTwo
    <3>4. QED
      BY <1>1, <1>2, <2>1, <2>3, <3>2, <3>3 DEF Raise
  <2>4. CASE transport = "up"
    <3>1. (Adds(e(seq + 1)) /\ seq' = seq + 1) \/ (AddsTwo(m, e(seq + 2)) /\ seq' = seq + 2)
      BY <1>1, <1>2, <2>4, RaiseAdds DEF m, e
    <3>2. QED
      BY <2>2, <2>3, <2>4, <3>1
  <2>5. CASE transport # "up"
    <3>1. Len(<< >>) = 0 /\ Len(<<m>>) = 1
      OBVIOUS
    <3>2. QED
      BY <1>1, <1>2, <2>5, <3>1 DEF Raise, m
  <2>6. QED
    BY <2>4, <2>5
<1>3. ASSUME NEW f \in Frames, f.type \notin {"session.end", "error"}, Send(f)
      PROVE  /\ chan' \in Seq(Frames) /\ verdicts' = verdicts
             /\ \A g \in Range(chan') : g \in Range(chan) \/ g.type # "session.end"
  BY <1>1, <1>3, SendIs
<1>4. CASE Connect
  <2>1. CASE rpc' = "loop" /\ UNCHANGED <<rexc, seq, chan, verdicts>>
    BY <1>4, <2>1 DEF Connect, RunTypes
  <2>2. CASE Raise(<< >>)
    BY <1>2, <1>4, <2>2 DEF Connect, RunTypes
  <2>3. QED
    BY <1>4, <2>1, <2>2 DEF Connect
<1>5. ASSUME Chunk, rpc = "loop", UNCHANGED <<backend, rpc, rexc, preVars, ackSeq, hookSeq, transport, hostVars>>,
             synthetic' \in BOOLEAN, {retries', misc'} \subseteq Nat
      PROVE  RunTypes' /\ EndInv'
  <2>1. /\ chan' \in Seq(Frames) /\ verdicts' = verdicts
        /\ \A g \in Range(chan') : g \in Range(chan) \/ g.type # "session.end"
    BY <1>1, <1>3, <1>5, FrameType, SMTT(30) DEF Chunk, FrameTypes
  <2>2. QED
    <3>1. RunTypes'
      BY <1>1, <1>5, <2>1, SMTT(30) DEF Chunk, RunTypes
    <3>2. EndInv'
      BY <1>5, <2>1, SMTT(30)
    <3>3. QED
      BY <3>1, <3>2
<1>6. ASSUME NEW u \in Uses, CanUseTool(u) PROVE RunTypes' /\ EndInv'
  <2>1. CASE NeedsHitl(u)
    <3> DEFINE f == [Frame("tool.request", seq + 1) EXCEPT !.use = u, !.req = u]
    <3>1. f \in Frames /\ f.type = "tool.request"
      <4>1. u \in Nat /\ "tool.request" \in FrameTypes
        BY DEF FrameTypes, Uses
      <4>2. QED
        BY <1>1, <4>1 DEF Frame, Frames, NoReq
    <3>2. Send(f) /\ seq' = seq + 1
      BY <1>6, <2>1 DEF CanUseTool, TakeSeq
    <3> HIDE DEF f
    <3>3. /\ chan' \in Seq(Frames) /\ verdicts' = verdicts
          /\ \A g \in Range(chan') : g \in Range(chan) \/ g.type # "session.end"
      BY <1>3, <3>1, <3>2
    <3>4. QED
      BY <1>1, <1>6, <3>2, <3>3 DEF CanUseTool, RunTypes
  <2>2. CASE ~NeedsHitl(u)
    BY <1>6, <2>2 DEF CanUseTool, RunTypes
  <2>3. QED
    BY <2>1, <2>2
<1>7. ASSUME NEW u \in Uses, Answered(u) PROVE RunTypes' /\ EndInv'
  BY <1>7 DEF Answered, RunTypes
<1>8. ASSUME NEW u \in Uses, ToolBlock(u) PROVE RunTypes' /\ EndInv'
  BY <1>5, <1>8 DEF ToolBlock, RunTypes
<1>9. ASSUME NEW u \in Uses, ToolResult(u) PROVE RunTypes' /\ EndInv'
  <2> DEFINE f == [Frame("tool.result", seq + 2) EXCEPT !.use = u, !.req = reqOf[u]]
  <2>1. f \in Frames /\ f.type = "tool.result"
    <3>1. u \in Nat /\ reqOf[u] \in Nat /\ "tool.result" \in FrameTypes
      BY DEF FrameTypes, Uses
    <3>2. QED
      BY <1>1, <3>1 DEF Frame, Frames, NoReq
  <2>2. Send(f) /\ seq' = seq + 2
    BY <1>9 DEF ToolResult
  <2> HIDE DEF f
  <2>3. /\ chan' \in Seq(Frames) /\ verdicts' = verdicts
        /\ \A g \in Range(chan') : g \in Range(chan) \/ g.type # "session.end"
    BY <1>3, <2>1, <2>2
  <2>4. QED
    BY <1>1, <1>9, <2>2, <2>3 DEF ToolResult, RunTypes
<1>10. ASSUME NEW fake \in BOOLEAN, Says(fake) PROVE RunTypes' /\ EndInv'
  BY <1>1, <1>5, <1>10 DEF Says, RunTypes
<1>11. CASE ApiRetry
  <2>1. CASE RetryBudget > 0 /\ retries' > RetryBudget
    <3>1. Raise(<<Frame("msg.chunk", seq + 1)>>)
      BY <1>11, <2>1 DEF ApiRetry
    <3>2. QED
      BY <1>1, <1>2, <1>11, <3>1 DEF ApiRetry, RunTypes
  <2>2. CASE ~(RetryBudget > 0 /\ retries' > RetryBudget)
    BY <1>1, <1>5, <1>11, <2>2 DEF ApiRetry, RunTypes
  <2>3. QED
    BY <2>1, <2>2
<1>12. CASE Finish
  <2>1. CASE synthetic
    BY <1>2, <1>12, <2>1, SMTT(30) DEF Finish, FakeCompletion, RunTypes
  <2>2. CASE ~synthetic
    <3>1. Send(Frame("session.end", seq + 2))
      BY <1>12, <2>2 DEF Finish, FakeCompletion
    <3>2. chan' \in Seq(Frames) /\ verdicts' = verdicts \cup {"session.end"}
      BY <1>1, <3>1, SendIs, FrameType, SMTT(30) DEF FrameTypes
    <3>3. verdicts' = {"session.end"}
      BY <1>12, <3>2 DEF Finish
    <3>4. QED
      BY <1>1, <1>12, <2>2, <3>2, <3>3, ZenonT(30) DEF Finish, FakeCompletion, RunTypes
  <2>3. QED
    BY <2>1, <2>2
<1>13. CASE StreamBreaks
  <2>1. CASE Raise(<< >>)
    BY <1>2, <1>13, <2>1 DEF StreamBreaks, RunTypes
  <2>2. CASE rpc' = "unwind" /\ UNCHANGED <<rexc, seq, chan, verdicts>>
    BY <1>13, <2>2 DEF StreamBreaks, RunTypes
  <2>3. QED
    BY <1>13, <2>1, <2>2 DEF StreamBreaks
<1>14. CASE SendAck
  <2>1. /\ chan' \in Seq(Frames) /\ verdicts' = verdicts
        /\ \A g \in Range(chan') : g \in Range(chan) \/ g.type # "session.end"
    BY <1>1, <1>3, <1>14, FrameType, SMTT(30) DEF SendAck, FrameTypes
  <2>2. QED
    BY <1>1, <1>14, <2>1 DEF SendAck, RunTypes
<1>15. CASE EmitHook
  <2>1. /\ chan' \in Seq(Frames) /\ verdicts' = verdicts
        /\ \A g \in Range(chan') : g \in Range(chan) \/ g.type # "session.end"
    BY <1>1, <1>3, <1>15, FrameType DEF EmitHook, FrameTypes
  <2>2. QED
    BY <1>1, <1>15, <2>1 DEF EmitHook, RunTypes
<1>16. CASE SendFails
  BY <1>16, SMTT(30) DEF SendFails, Streaming, RunTypes
<1>17. QED
  BY <1>4, <1>6, <1>7, <1>8, <1>9, <1>10, <1>11, <1>12, <1>13, <1>14, <1>15, <1>16 DEF Converse

HostOrSignal == Sigterm \/ Unwind \/ HostStep \/ LinkBreaks

LEMMA EndHost == RunTypes /\ EndInv /\ HostOrSignal => RunTypes' /\ EndInv'
<1> SUFFICES ASSUME RunTypes, EndInv, HostOrSignal PROVE RunTypes' /\ EndInv'
  OBVIOUS
<1> USE RunnerAssumption DEF EndInv, Over, hostVars, pairVars, msgVars, preVars
<1>1. CASE Sigterm
  <2>1. CASE pr \in Streaming
    BY <1>1, <2>1, SMTT(30) DEF Sigterm, Streaming, RunTypes
  <2>2. CASE pr \notin Streaming
    BY <1>1, <2>2, SMTT(30) DEF Sigterm, Streaming, RunTypes
  <2>3. QED
    BY <2>1, <2>2
<1>2. CASE Unwind
  BY <1>2, SMTT(30) DEF Unwind, RunTypes
\* The end of a host loop: in process the status is the one that is recorded.
<1>7. ASSUME NEW status \in {"completed", "failed", "cancelled"}, NEW b \in {"quiet", "due"}, Ends(status, b)
      PROVE  /\ host' = "ended" /\ bus' \in {"quiet", "due", "refused"}
             /\ endStatus' \in {"completed", "failed", "cancelled"}
             /\ transport' \in {transport, "gone"}
             /\ backend = "inprocess" => bus' # "refused" /\ endStatus' = status /\ transport' = transport
  BY <1>7 DEF Ends, RunTypes
<1>3. CASE HostReads
  <2>1. chan \in Seq(Frames) /\ chan # << >>
    BY <1>3 DEF HostReads, RunTypes
  <2>2. /\ chan' \in Seq(Frames) /\ Range(chan') \subseteq Range(chan)
        /\ Head(chan) \in Range(chan) /\ Head(chan) \in Frames
    BY <1>3, <2>1, TailIs DEF HostReads
  <2>3. kept' \subseteq Nat
    <3>1. Head(chan).seq \in Nat
      BY <2>2 DEF Frames
    <3>2. kept' \in {kept, kept \cup {Head(chan).seq}}
      BY <1>3 DEF HostReads, PersistFrame
    <3>3. QED
      BY <3>1, <3>2 DEF RunTypes
  <2> DEFINE f == Head(chan)
             b == IF backend = "wire" /\ f.type \in Durable /\ ~Passes(f) THEN "due" ELSE bus
  <2>4. /\ host = "drain" /\ b \in {"quiet", "due"}
        /\ UNCHANGED <<backend, rpc, rexc, preVars, seq, ackSeq, hookSeq, verdicts, msgVars>>
    BY <1>3 DEF HostReads, RunTypes
  <2>5. \/ f.type # "session.end" /\ bus' = b /\ UNCHANGED <<host, endStatus, transport>>
        \/ f.type = "session.end" /\ Ends("completed", b)
        \/ Refused(f)
    BY <1>3 DEF HostReads
  <2> HIDE DEF f, b
  <2>6. CASE bus' = b /\ UNCHANGED <<host, endStatus, transport>>
    BY <2>2, <2>3, <2>4, <2>6, SMTT(30) DEF RunTypes
  <2>7. CASE f.type = "session.end" /\ Ends("completed", b)
    <3>1. "session.end" \in verdicts
      BY <2>2, <2>7 DEF f
    <3>2. rexc # "error" /\ rpc \in Over
      BY <3>1
    <3>3. /\ host' = "ended" /\ bus' \in {"quiet", "due", "refused"}
          /\ endStatus' \in {"completed", "failed", "cancelled"}
          /\ transport' \in {transport, "gone"}
          /\ backend = "inprocess" => bus' # "refused" /\ endStatus' = "completed" /\ transport' = transport
      BY <1>7, <2>4, <2>7
    <3>4. QED
      BY <2>2, <2>3, <2>4, <3>2, <3>3, SMTT(30) DEF RunTypes
  <2>8. CASE Refused(f)
    BY <2>2, <2>3, <2>4, <2>8, SMTT(30) DEF Refused, RunTypes
  <2>9. QED
    BY <2>5, <2>6, <2>7, <2>8
<1>4. CASE HostSeesClose
  <2>1. /\ host = "drain" /\ bus \in {"quiet", "due"} /\ StatusAtClose \in {"completed", "failed"}
        /\ Ends(StatusAtClose, bus) /\ (rpc = "done" \/ transport = "gone")
        /\ UNCHANGED <<backend, rpc, rexc, preVars, seq, ackSeq, hookSeq, chan, verdicts, msgVars, kept>>
    BY <1>4 DEF HostSeesClose, StatusAtClose, RunTypes
  <2>2. /\ host' = "ended" /\ bus' \in {"quiet", "due", "refused"}
        /\ endStatus' \in {"completed", "failed", "cancelled"}
        /\ transport' \in {transport, "gone"}
        /\ backend = "inprocess" => bus' # "refused" /\ endStatus' = StatusAtClose /\ transport' = transport
    BY <1>7, <2>1
  <2>3. backend = "inprocess" => rpc = "done"
    BY <2>1
  <2>4. QED
    BY <2>1, <2>2, <2>3, SMTT(30) DEF StatusAtClose, RunTypes
<1>5. CASE HostGivesUp
  <2>1. chan' \in Seq(Frames) /\ Range(chan') = {}
    BY <1>5 DEF HostGivesUp, Range
  <2>2. /\ bus \in {"quiet", "due"} /\ Ends("cancelled", bus)
        /\ UNCHANGED <<backend, rpc, rexc, preVars, seq, ackSeq, hookSeq, verdicts, msgVars, kept>>
    BY <1>5 DEF HostGivesUp, RunTypes
  <2>3. /\ host' = "ended" /\ bus' \in {"quiet", "due", "refused"}
        /\ endStatus' \in {"completed", "failed", "cancelled"}
        /\ transport' \in {transport, "gone"}
        /\ backend = "inprocess" => bus' # "refused" /\ endStatus' = "cancelled" /\ transport' = transport
    BY <1>7, <2>2
  <2>4. QED
    BY <2>1, <2>2, <2>3, SMTT(30) DEF RunTypes
<1>6. CASE ExecutorStops
  <2>1. chan' \in Seq(Frames) /\ Range(chan') = {}
    BY <1>6 DEF ExecutorStops, Range
  <2>2. QED
    BY <1>6, <2>1, SMTT(30) DEF ExecutorStops, RunTypes
<1>8. CASE LinkBreaks
  <2>1. chan' \in Seq(Frames) /\ Range(chan') \subseteq Range(chan)
    BY <1>8, PrefixIs DEF LinkBreaks, RunTypes
  <2>2. QED
    BY <1>8, <2>1, SMTT(30) DEF LinkBreaks, RunTypes
<1>9. QED
  BY <1>1, <1>2, <1>3, <1>4, <1>5, <1>6, <1>8 DEF HostStep, HostOrSignal

(***************************************************************************)
(* Results and their requests.                                             *)
(***************************************************************************)

\* Steps that are not about tools.
LEMMA PairKeeps ==
    ASSUME PairInv, UNCHANGED <<backend, pairVars>>,
           \A f \in Range(chan') : f \in Range(chan) \/ f.type # "tool.result"
    PROVE  PairInv'
BY DEF PairInv, pairVars, AskedFor, NeedsHitl, Lists, ResultsNameTheirRequest

\* A frame other than a result.
LEMMA ResultsKeep ==
    ASSUME ResultsNameTheirRequest, backend' = backend,
           \A f \in Range(chan') : f \in Range(chan) \/ f.type # "tool.result"
    PROVE  ResultsNameTheirRequest'
BY DEF ResultsNameTheirRequest, NeedsHitl

LEMMA PairCanUseTool ==
    ASSUME RunTypes, PairInv, NEW u \in Uses, CanUseTool(u)
    PROVE  PairInv'
<1> DEFINE f == [Frame("tool.request", seq + 1) EXCEPT !.use = u, !.req = u]
<1>1. /\ u \notin asked /\ asked' = asked \cup {u}
      /\ \A v \in 1..(u - 1) : KindOf[v] = KindOf[u] => v \in asked
      /\ UNCHANGED <<backend, shown, resulted>>
  BY DEF CanUseTool
<1>2. \A v \in Uses : KindOf[v] = KindOf[u] => (NeedsHitl(v) <=> NeedsHitl(u))
  BY DEF NeedsHitl
<1>3. \A w \in asked' : \A v \in 1..(w - 1) : KindOf[v] = KindOf[w] => v \in asked'
  BY <1>1 DEF PairInv
<1>4. /\ asked \subseteq Uses /\ shown \subseteq Uses /\ AskedFor \subseteq Uses
      /\ Lists(perms, AskedFor \ shown) /\ Lists(blocks, shown \ AskedFor)
  BY DEF PairInv, AskedFor
<1>5. \A w \in Uses : NeedsHitl(w)' <=> NeedsHitl(w)
  BY <1>1 DEF NeedsHitl
<1>6. CASE NeedsHitl(u)
  <2>1. AskedFor' = AskedFor \cup {u} /\ u \notin AskedFor
    BY <1>1, <1>4, <1>5, <1>6 DEF AskedFor
  <2>2. \A g \in Range(chan') : g \in Range(chan) \/ g.type # "tool.result"
    <3>1. seq + 1 \in Nat /\ chan \in Seq(Frames) /\ u \in Nat /\ "tool.request" \in FrameTypes
      BY DEF RunTypes, Uses, FrameTypes
    <3>2. f \in Frames /\ f.type = "tool.request"
      BY <3>1 DEF Frame, Frames, NoReq
    <3>3. Send(f)
      BY <1>6 DEF CanUseTool, TakeSeq
    <3> HIDE DEF f
    <3>4. QED
      BY <3>1, <3>2, <3>3, SendIs
  <2> DEFINE i == FirstMatch(blocks, u)
             S == shown \ AskedFor
  <2>3. \A v \in S : KindOf[v] = KindOf[u] => u <= v /\ u \in S
    <3> SUFFICES ASSUME NEW v \in S, KindOf[v] = KindOf[u] PROVE u <= v /\ u \in S
      OBVIOUS
    <3>1. v \in Uses /\ v \notin asked
      BY <1>2, <1>4, <1>6 DEF AskedFor
    <3>2. u <= v
      BY <1>1, <3>1 DEF Uses
    <3>3. u \in shown
      BY <3>1, <3>2 DEF PairInv, Uses
    <3>4. QED
      BY <2>1, <3>2, <3>3
  <2>4. IF i = 0 THEN u \notin S
                 ELSE i \in DOMAIN blocks /\ blocks[i] = u /\ Lists(RemoveAt(blocks, i), S \ {u})
    BY <1>4, <2>3, ListsFirst
  <2>5. CASE i = 0
    <3>1. perms' = Append(perms, u) /\ UNCHANGED <<blocks, reqOf, answered>>
      BY <1>6, <2>5 DEF CanUseTool
    <3>2. u \notin shown
      BY <2>1, <2>4, <2>5
    <3>3. \A v \in AskedFor \ shown : KindOf[v] = KindOf[u] => v < u
      <4> SUFFICES ASSUME NEW v \in AskedFor \ shown, KindOf[v] = KindOf[u] PROVE v < u
        OBVIOUS
      <4>1. v \in asked /\ v \in Uses /\ v # u
        BY <1>1, <1>4 DEF AskedFor
      <4>2. ~(u < v)
        BY <1>1, <4>1 DEF PairInv, Uses
      <4>3. QED
        BY <4>1, <4>2 DEF Uses
    <3>4. Lists(Append(perms, u), (AskedFor \ shown) \cup {u})
      BY <1>4, <3>3, ListsAppend
    <3>5. /\ (AskedFor \ shown) \cup {u} = AskedFor' \ shown'
          /\ shown' \ AskedFor' = shown \ AskedFor
          /\ AskedFor' \cap shown' = AskedFor \cap shown
      BY <1>1, <2>1, <3>2
    <3>6. Lists(perms, AskedFor \ shown)' /\ Lists(blocks, shown \ AskedFor)'
      BY <1>1, <1>4, <3>1, <3>4, <3>5 DEF Lists
    <3>7. reqOf' = [w \in Uses |-> IF w \in (AskedFor' \cap shown') \ resulted' THEN w ELSE NoReq]
      BY <1>1, <3>1, <3>5 DEF PairInv
    <3>8. QED
      BY <1>1, <1>3, <1>4, <2>2, <3>1, <3>6, <3>7, ResultsKeep DEF PairInv
  <2>6. CASE i # 0
    <3>1. /\ reqOf' = [reqOf EXCEPT ![u] = u] /\ blocks' = RemoveAt(blocks, i)
          /\ UNCHANGED <<perms, answered>>
      BY <1>6, <2>4, <2>6 DEF CanUseTool
    <3>2. u \in shown /\ u \notin resulted
      <4>1. u \in Range(blocks)
        BY <2>4, <2>6 DEF Range
      <4>2. QED
        BY <1>1, <1>4, <4>1 DEF Lists, PairInv
    <3>3. /\ (shown \ AskedFor) \ {u} = shown' \ AskedFor'
          /\ AskedFor' \ shown' = AskedFor \ shown
          /\ AskedFor' \cap shown' = (AskedFor \cap shown) \cup {u}
      BY <1>1, <2>1, <3>2
    <3>4. Lists(perms, AskedFor \ shown)' /\ Lists(blocks, shown \ AskedFor)'
      BY <1>1, <1>4, <2>4, <2>6, <3>1, <3>3 DEF Lists
    <3>5. reqOf' = [w \in Uses |-> IF w \in (AskedFor' \cap shown') \ resulted' THEN w ELSE NoReq]
      BY <1>1, <3>1, <3>2, <3>3 DEF PairInv
    <3>6. QED
      BY <1>1, <1>3, <1>4, <2>2, <3>1, <3>4, <3>5, ResultsKeep DEF PairInv
  <2>7. QED
    BY <2>5, <2>6
<1>7. CASE ~NeedsHitl(u)
  <2>1. answered' = answered \cup {u} /\ UNCHANGED <<chan, perms, blocks, reqOf>>
    BY <1>7 DEF CanUseTool
  <2>2. AskedFor' = AskedFor
    BY <1>1, <1>4, <1>5, <1>7 DEF AskedFor
  <2>3. QED
    BY <1>1, <1>3, <2>1, <2>2, ResultsKeep DEF PairInv, Lists
<1>8. QED
  BY <1>6, <1>7

LEMMA PairToolBlock ==
    ASSUME RunTypes, PairInv, NEW u \in Uses, ToolBlock(u)
    PROVE  PairInv'
<1>1. /\ u \notin shown /\ shown' = shown \cup {u} /\ 1..(u - 1) \subseteq shown
      /\ UNCHANGED <<backend, asked, answered, resulted>>
  BY DEF ToolBlock
<1>2. /\ asked \subseteq Uses /\ shown \subseteq Uses /\ AskedFor \subseteq Uses
      /\ Lists(perms, AskedFor \ shown) /\ Lists(blocks, shown \ AskedFor)
  BY DEF PairInv, AskedFor
<1>3. \A w \in shown' : 1..(w - 1) \subseteq shown'
  BY <1>1 DEF PairInv
<1>4. AskedFor' = AskedFor
  BY <1>1 DEF AskedFor, NeedsHitl
<1>5. \A g \in Range(chan') : g \in Range(chan) \/ g.type # "tool.result"
  <2>1. seq + 1 \in Nat /\ chan \in Seq(Frames) /\ Send(Frame("msg.chunk", seq + 1))
    BY DEF RunTypes, ToolBlock, Chunk
  <2>2. Frame("msg.chunk", seq + 1) \in Frames /\ Frame("msg.chunk", seq + 1).type = "msg.chunk"
    BY <2>1, FrameType DEF FrameTypes
  <2>3. QED
    BY <2>1, <2>2, SendIs
<1> DEFINE i == FirstMatch(perms, u)
           S == AskedFor \ shown
<1>6. \A v \in S : KindOf[v] = KindOf[u] => u <= v /\ u \in S
  <2> SUFFICES ASSUME NEW v \in S, KindOf[v] = KindOf[u] PROVE u <= v /\ u \in S
    OBVIOUS
  <2>1. v \in Uses /\ v \in asked /\ NeedsHitl(v)
    BY <1>2 DEF AskedFor
  <2>2. u <= v
    BY <1>1, <2>1 DEF Uses
  <2>3. u \in asked /\ NeedsHitl(u)
    BY <2>1, <2>2 DEF PairInv, Uses, NeedsHitl
  <2>4. QED
    BY <1>1, <2>2, <2>3 DEF AskedFor
<1>7. IF i = 0 THEN u \notin S
               ELSE i \in DOMAIN perms /\ perms[i] = u /\ Lists(RemoveAt(perms, i), S \ {u})
  BY <1>2, <1>6, ListsFirst
<1>8. CASE i = 0
  <2>1. blocks' = Append(blocks, u) /\ UNCHANGED <<perms, reqOf>>
    BY <1>8 DEF ToolBlock
  <2>2. u \notin AskedFor
    BY <1>1, <1>7, <1>8
  <2>3. \A v \in shown \ AskedFor : KindOf[v] = KindOf[u] => v < u
    <3> SUFFICES ASSUME NEW v \in shown PROVE v < u
      OBVIOUS
    <3>1. v \in Uses /\ v # u /\ ~(u < v)
      BY <1>1, <1>2 DEF PairInv, Uses
    <3>2. QED
      BY <3>1 DEF Uses
  <2>4. Lists(Append(blocks, u), (shown \ AskedFor) \cup {u})
    BY <1>2, <2>3, ListsAppend
  <2>5. /\ (shown \ AskedFor) \cup {u} = shown' \ AskedFor'
        /\ AskedFor' \ shown' = AskedFor \ shown
        /\ AskedFor' \cap shown' = AskedFor \cap shown
    BY <1>1, <1>4, <2>2
  <2>6. Lists(perms, AskedFor \ shown)' /\ Lists(blocks, shown \ AskedFor)'
    BY <1>2, <2>1, <2>4, <2>5 DEF Lists
  <2>7. reqOf' = [w \in Uses |-> IF w \in (AskedFor' \cap shown') \ resulted' THEN w ELSE NoReq]
    BY <1>1, <2>1, <2>5 DEF PairInv
  <2>8. QED
    BY <1>1, <1>2, <1>3, <1>5, <2>1, <2>6, <2>7, ResultsKeep DEF PairInv
<1>9. CASE i # 0
  <2>1. /\ reqOf' = [reqOf EXCEPT ![u] = u] /\ perms' = RemoveAt(perms, i)
        /\ UNCHANGED blocks
    BY <1>7, <1>9 DEF ToolBlock
  <2>2. u \in AskedFor /\ u \notin resulted
    <3>1. u \in Range(perms)
      BY <1>7, <1>9 DEF Range
    <3>2. QED
      BY <1>1, <1>2, <3>1 DEF Lists, PairInv
  <2>3. /\ (AskedFor \ shown) \ {u} = AskedFor' \ shown'
        /\ shown' \ AskedFor' = shown \ AskedFor
        /\ AskedFor' \cap shown' = (AskedFor \cap shown) \cup {u}
    BY <1>1, <1>4, <2>2
  <2>4. Lists(perms, AskedFor \ shown)' /\ Lists(blocks, shown \ AskedFor)'
    BY <1>2, <1>7, <1>9, <2>1, <2>3 DEF Lists
  <2>5. reqOf' = [w \in Uses |-> IF w \in (AskedFor' \cap shown') \ resulted' THEN w ELSE NoReq]
    BY <1>1, <2>1, <2>2, <2>3 DEF PairInv
  <2>6. QED
    BY <1>1, <1>2, <1>3, <1>5, <2>1, <2>4, <2>5, ResultsKeep DEF PairInv
<1>10. QED
  BY <1>8, <1>9

LEMMA PairToolResult ==
    ASSUME RunTypes, PairInv, NEW u \in Uses, ToolResult(u)
    PROVE  PairInv'
<1> DEFINE f == [Frame("tool.result", seq + 2) EXCEPT !.use = u, !.req = reqOf[u]]
<1>1. /\ u \in answered /\ u \in shown /\ u \notin resulted /\ resulted' = resulted \cup {u}
      /\ Send(f) /\ reqOf' = [reqOf EXCEPT ![u] = NoReq]
      /\ UNCHANGED <<backend, perms, blocks, asked, shown, answered>>
  BY DEF ToolResult
<1>2. reqOf[u] = (IF NeedsHitl(u) THEN u ELSE NoReq)
  BY <1>1 DEF PairInv, AskedFor
<1>3. seq + 2 \in Nat /\ chan \in Seq(Frames) /\ u \in Nat /\ reqOf[u] \in Nat
      /\ "tool.result" \in FrameTypes
  BY <1>2 DEF RunTypes, Uses, NoReq, FrameTypes
<1>4. f \in Frames /\ f.use = u /\ f.req = reqOf[u]
  BY <1>3 DEF Frame, Frames, NoReq
<1> HIDE DEF f
<1>5. Range(chan') = Range(chan) \cup {f}
  BY <1>1, <1>3, <1>4, SendIs
<1>6. ResultsNameTheirRequest'
  BY <1>1, <1>2, <1>4, <1>5 DEF PairInv, ResultsNameTheirRequest, NeedsHitl
<1>7. AskedFor' = AskedFor
  BY <1>1 DEF AskedFor, NeedsHitl
<1>8. reqOf' = [w \in Uses |-> IF w \in (AskedFor' \cap shown') \ resulted' THEN w ELSE NoReq]
  BY <1>1, <1>7 DEF PairInv
<1>9. QED
  BY <1>1, <1>6, <1>7, <1>8 DEF PairInv, Lists

\* The frames that are not about tools are no results.
LEMMA RaiseIs ==
    ASSUME chan \in Seq(Frames), seq \in Nat,
           Raise(<< >>) \/ Raise(<<Frame("msg.chunk", seq + 1)>>)
    PROVE  \A f \in Range(chan') : f \in Range(chan) \/ f.type # "tool.result"
<1> DEFINE m == Frame("msg.chunk", seq + 1)
           e(n) == Frame("error", n)
<1>1. /\ m \in Frames /\ m.type = "msg.chunk" /\ seq + 1 \in Nat /\ seq + 2 \in Nat
      /\ \A n \in Nat : e(n) \in Frames /\ e(n).type = "error"
  BY FrameType DEF FrameTypes
<1>2. Adds(e(seq + 1)) \/ AddsTwo(m, e(seq + 2)) \/ chan' = chan
  <2>1. CASE transport = "up"
    BY <2>1, RaiseAdds
  <2>2. CASE transport # "up"
    BY <2>2 DEF Raise
  <2>3. QED
    BY <2>1, <2>2
<1> HIDE DEF m, e
<1>3. CASE Adds(e(seq + 1))
  BY <1>1, <1>3, AppendIs DEF Adds
<1>4. CASE AddsTwo(m, e(seq + 2))
  <2> DEFINE q == Append(chan, m)
  <2>1. q \in Seq(Frames) /\ Range(q) = Range(chan) \cup {m} /\ chan' = Append(q, e(seq + 2))
    BY <1>1, <1>4, AppendIs DEF AddsTwo
  <2> HIDE DEF q
  <2>2. Range(chan') = Range(q) \cup {e(seq + 2)}
    BY <1>1, <2>1, AppendIs
  <2>3. QED
    BY <1>1, <2>1, <2>2
<1>5. QED
  BY <1>2, <1>3, <1>4

LEMMA PairStep == RunTypes /\ PairInv /\ RunnerNext => PairInv'
<1> SUFFICES ASSUME RunTypes, PairInv, RunnerNext PROVE PairInv'
  OBVIOUS
<1> USE DEF hostVars, msgVars, preVars
<1>1. /\ seq \in Nat /\ seq + 1 \in Nat /\ seq + 2 \in Nat /\ ackSeq + 1 \in Nat /\ hookSeq \in Nat
      /\ chan \in Seq(Frames)
  BY DEF RunTypes
<1>2. ASSUME NEW t \in FrameTypes, NEW n \in Nat, Send(Frame(t, n)), t # "tool.result",
             UNCHANGED <<backend, pairVars>>
      PROVE  PairInv'
  BY <1>1, <1>2, SendIs, FrameType, PairKeeps
<1>3. ASSUME UNCHANGED <<backend, pairVars, chan>> PROVE PairInv'
  BY <1>3, PairKeeps
<1>4. ASSUME Raise(<< >>) \/ Raise(<<Frame("msg.chunk", seq + 1)>>), UNCHANGED <<backend, pairVars>>
      PROVE  PairInv'
  BY <1>1, <1>4, RaiseIs, PairKeeps
<1>13. ASSUME EndsInError \/ EndsInCancel, UNCHANGED <<backend, pairVars>> PROVE PairInv'
  BY <1>1, <1>2, <1>3, <1>13 DEF EndsInError, EndsInCancel, FrameTypes
<1>5. CASE StartRunner \/ PreRun
  BY <1>1, <1>2, <1>3, <1>5, <1>13
  DEF StartRunner, PreRun, SpawnCommand, Output, Drained, CommandDone, CommandFails, ErrorDrained,
      PreRunTimeout, TerminateProc, FrameTypes
<1>14. CASE SendFails
  BY <1>3, <1>14 DEF SendFails
<1>6. CASE Connect \/ ApiRetry \/ Finish \/ StreamBreaks \/ SendAck \/ EmitHook
  BY <1>1, <1>2, <1>3, <1>4, <1>6
  DEF Connect, ApiRetry, Finish, StreamBreaks, SendAck, EmitHook, Chunk, FrameTypes
<1>7. ASSUME NEW fake \in BOOLEAN, Says(fake) PROVE PairInv'
  BY <1>1, <1>2, <1>7 DEF Says, Chunk, FrameTypes
<1>8. ASSUME NEW u \in Uses, Answered(u) PROVE PairInv'
  BY <1>8, ResultsKeep DEF Answered, PairInv, AskedFor, NeedsHitl, Lists
<1>9. CASE Sigterm \/ Unwind \/ HostSeesClose
  BY <1>3, <1>9 DEF Sigterm, Unwind, HostSeesClose
<1>10. CASE HostReads
  BY <1>1, <1>10, TailIs, PairKeeps DEF HostReads
<1>11. CASE HostGivesUp \/ ExecutorStops
  <2>1. Range(chan') = {}
    BY <1>11 DEF HostGivesUp, ExecutorStops, Range
  <2>2. QED
    BY <1>11, <2>1, PairKeeps DEF HostGivesUp, ExecutorStops
<1>15. CASE LinkBreaks
  <2>1. Range(chan') \subseteq Range(chan)
    BY <1>1, <1>15, PrefixIs DEF LinkBreaks
  <2>2. QED
    BY <1>15, <2>1, PairKeeps DEF LinkBreaks
<1>12. QED
  BY <1>5, <1>6, <1>7, <1>8, <1>9, <1>10, <1>11, <1>14, <1>15, PairCanUseTool, PairToolBlock, PairToolResult
  DEF RunnerNext, Converse, HostStep

\* Types, how the runner ends, and the pairing hold together.
LEMMA RunnerKeepsIInv == RunnerIInv /\ [RunnerNext]_runnerVars => RunnerIInv'
<1> SUFFICES ASSUME RunnerIInv, [RunnerNext]_runnerVars PROVE RunnerIInv'
  OBVIOUS
<1>1. CASE RunnerNext
  <2>1. \A u \in Uses : reqOf[u] \in Nat
    BY DEF RunnerIInv, PairInv, Uses, NoReq
  <2>2. RunTypes' /\ EndInv'
    BY <1>1, <2>1, EndPreRun, EndConverse, EndHost DEF RunnerIInv, RunnerNext, HostOrSignal
  <2>3. PairInv'
    BY <1>1, PairStep DEF RunnerIInv
  <2>4. QED
    BY <2>2, <2>3 DEF RunnerIInv
<1>2. CASE UNCHANGED runnerVars
  <2> USE DEF runnerVars, hostVars, msgVars, preVars, pairVars
  <2>1. RunTypes' /\ EndInv'
    BY <1>2 DEF RunnerIInv, RunTypes, EndInv
  <2>2. PairInv'
    BY <1>2, PairKeeps DEF RunnerIInv
  <2>3. QED
    BY <2>1, <2>2 DEF RunnerIInv
<1>3. QED
  BY <1>1, <1>2

LEMMA RunnerInitIInv == RunnerInit => RunnerIInv
<1> SUFFICES ASSUME RunnerInit PROVE RunnerIInv
  OBVIOUS
<1>1. << >> \in Seq(Frames) /\ << >> \in Seq(Uses) /\ Range(<< >>) = {} /\ DOMAIN << >> = {}
  BY DEF Range
<1>2. RunTypes /\ EndInv
  <2>1. /\ HookBase \in Nat /\ OutputLimit \in Nat /\ OutputLimit >= 0 /\ MaxCmds \in Nat
        /\ backend \in {"inprocess", "wire"} /\ 0..MaxCmds \subseteq Int
    BY RunnerAssumption DEF RunnerInit
  <2>2. cmds \in Int /\ (backend = "inprocess" => cmds = 0)
    BY <2>1 DEF RunnerInit
  <2>3. RunTypes
    <3>1. chan \in Seq(Frames) /\ verdicts \subseteq {"session.end", "error"} /\ kept \subseteq Nat
      BY <1>1 DEF RunnerInit
    <3>2. {emitted, seq, ackSeq, hookSeq, retries, misc} \subseteq Nat
      BY <2>1 DEF RunnerInit
    <3>3. QED
      BY <2>1, <2>2, <3>1, <3>2 DEF RunnerInit, RunTypes
  <2>4. EndInv
    BY <1>1, <2>1, <2>2 DEF RunnerInit, EndInv, Over
  <2>5. QED
    BY <2>3, <2>4
<1>3. PairInv
  BY <1>1 DEF RunnerInit, PairInv, AskedFor, Lists, ResultsNameTheirRequest
<1>4. QED
  BY <1>2, <1>3 DEF RunnerIInv

\* How a runner ends is told and recorded as it was: an exception is reported
\* before the transport closes, as long as the connection stands; session.end
\* and error are never both sent; no completion the CLI made up passes for one;
\* in process a session is recorded as failed exactly if the runner failed or
\* the event bus refused a frame; pre-run output stays within its cap, and no
\* command runs beside the conversation or beyond the container (client.py,
\* wire_runner.py, _drive_session, _persist_frame).
THEOREM RunnerEndsAreTold == RunnerSpec => []RunnerInv
<1>1. RunnerIInv => RunnerInv
  <2> SUFFICES ASSUME RunnerIInv PROVE RunnerInv
    OBVIOUS
  <2>1. RunnerTypeOK
    BY DEF RunnerIInv, RunTypes, RunnerTypeOK, PairInv, Lists, AskedFor, Streaming
  <2>2. VerdictMatchesOutcome /\ InProcessFailureIsRecorded /\ PreRunBounded
    BY DEF RunnerIInv, RunTypes, EndInv, Over, VerdictMatchesOutcome, InProcessFailureIsRecorded,
           PreRunBounded, ProcAlive, Streaming
  <2>3. QED
    BY <2>1, <2>2 DEF RunnerInv
<1>2. QED
  BY <1>1, RunnerInitIInv, RunnerKeepsIInv, PTL DEF RunnerSpec

\* The result of a tool use goes out under the id of the request made for this
\* very use, for any number of uses that look alike and any interleaving of
\* permission requests and tool blocks (_pair_perm_with_block and
\* _pair_block_with_perm).
THEOREM ResultsAreNamed == RunnerSpec => []ResultsNameTheirRequest
<1>1. RunnerIInv => ResultsNameTheirRequest
  BY DEF RunnerIInv, PairInv
<1>2. QED
  BY <1>1, RunnerInitIInv, RunnerKeepsIInv, PTL DEF RunnerSpec

(***************************************************************************)
(* The numbers of the frames.  The runner and the hooks count apart; what  *)
(* keeps them apart is HookBase, which the code takes to be out of the     *)
(* runner's reach.  The theorem says so.                                   *)
(***************************************************************************)

\* The runner has not come as far as the hooks' first number.
CountersApart == seq < HookBase

Clean == ackSeq = 0 /\ ~CutOff

\* Every number given out stays one that was given out.
Grows == \A n \in Nat : Numbered(n) => Numbered(n)'

LEMMA UsedNat ==
    ASSUME RunTypes
    PROVE  UsedBy(chan, kept) \subseteq Nat
<1>1. kept \subseteq Nat /\ \A i \in DOMAIN chan : chan[i].seq \in Nat
  <2>1. chan \in Seq(Frames)
    BY DEF RunTypes
  <2>2. \A i \in DOMAIN chan : chan[i] \in Frames
    BY <2>1
  <2>3. QED
    BY <2>2 DEF RunTypes, Frames
<1>2. QED
  BY <1>1 DEF UsedBy

LEMMA NumberQuiet ==
    ASSUME RunTypes, NumberInv, UNCHANGED <<chan, kept, lost>>, HookBase <= hookSeq',
           Clean' => Clean /\ Grows
    PROVE  NumberInv'
<1>1. UsedBy(chan, kept) \subseteq Nat
  BY UsedNat
<1>2. UsedBy(chan, kept)' = UsedBy(chan, kept)
  BY DEF UsedBy
<1>3. QED
  BY <1>1, <1>2 DEF NumberInv, Clean, Grows, Distinct

LEMMA NumberAdds ==
    ASSUME RunTypes, NumberInv, UNCHANGED <<kept, lost>>, HookBase <= hookSeq',
           NEW f \in Frames, chan' = Append(chan, f), NEW n \in Nat, f.seq = n,
           Clean' => Clean /\ Grows /\ ~Numbered(n) /\ Numbered(n)'
    PROVE  NumberInv'
<1>1. chan \in Seq(Frames) /\ UsedBy(chan, kept) \subseteq Nat
  BY UsedNat DEF RunTypes
<1>2. CASE Clean'
  <2>1. n \notin UsedBy(chan, kept) /\ Distinct(chan, kept)
    BY <1>2 DEF NumberInv, Clean
  <2>2. Distinct(chan', kept') /\ UsedBy(chan', kept') = UsedBy(chan, kept) \cup {n}
    BY <1>1, <2>1, DistinctAppend
  <2>3. \A k \in UsedBy(chan', kept') : Numbered(k)'
    BY <1>1, <1>2, <2>2 DEF NumberInv, Clean, Grows
  <2>4. QED
    BY <1>2, <2>2, <2>3 DEF NumberInv, Clean
<1>3. CASE ~Clean'
  BY <1>3 DEF NumberInv, Clean
<1>4. QED
  BY <1>2, <1>3

\* A frame of the conversation takes the next number or the one after it.
LEMMA NumberLoop ==
    ASSUME RunTypes, NumberInv, seq < HookBase, seq' < HookBase, rpc = "loop", rpc' \in {"loop", "unwind"},
           UNCHANGED <<kept, lost, ackSeq, hookSeq, pr>>, seq' \in {seq + 1, seq + 2},
           \E f \in Frames : chan' = Append(chan, f) /\ f.seq = seq'
    PROVE  NumberInv'
<1>1. seq \in Nat /\ hookSeq \in Nat /\ HookBase <= hookSeq /\ HookBase \in Nat
  BY RunnerAssumption DEF RunTypes, NumberInv
<1>2. PICK n \in Nat : n = seq'
  BY <1>1
<1>3. Grows /\ ~Numbered(n) /\ Numbered(n)' /\ (Clean' => Clean)
  BY <1>1, <1>2 DEF Grows, Numbered, Clean, CutOff
<1>4. QED
  BY <1>1, <1>2, <1>3, NumberAdds

LEMMA NumberRaiseSent ==
    ASSUME RunTypes, NumberInv, seq < HookBase, seq' < HookBase, rpc \in {"prerun", "loop"},
           UNCHANGED <<kept, lost, ackSeq, hookSeq, pr>>, transport = "up",
           Raise(<< >>) \/ Raise(<<Frame("msg.chunk", seq + 1)>>)
    PROVE  NumberInv'
<1>1. /\ seq \in Nat /\ hookSeq \in Nat /\ HookBase <= hookSeq /\ chan \in Seq(Frames)
      /\ HookBase \in Nat
  BY RunnerAssumption DEF RunTypes, NumberInv
<1>2. PICK s \in Nat : s = seq
  BY <1>1
<1> DEFINE m == Frame("msg.chunk", s + 1)
           e(n) == Frame("error", n)
<1>3. /\ m \in Frames /\ m.seq = s + 1
      /\ \A n \in Nat : e(n) \in Frames /\ e(n).seq = n
  BY FrameType DEF FrameTypes
<1>4. /\ rpc' = "unwind"
      /\ \/ Adds(e(s + 1)) /\ seq' = s + 1
         \/ AddsTwo(m, e(s + 2)) /\ seq' = s + 2
  BY <1>1, <1>2, RaiseAdds DEF Raise
<1> HIDE DEF m, e
<1>5. Grows /\ (Clean' => Clean)
  BY <1>1, <1>2, <1>4 DEF Grows, Numbered, Clean, CutOff
<1>6. CASE Adds(e(s + 1)) /\ seq' = s + 1
  <2> DEFINE g == e(s + 1)
  <2>1. ~Numbered(s + 1) /\ Numbered(s + 1)'
    BY <1>1, <1>2, <1>4, <1>6 DEF Numbered
  <2>2. g \in Frames /\ g.seq = s + 1 /\ chan' = Append(chan, g) /\ s + 1 \in Nat
    BY <1>3, <1>6 DEF Adds
  <2> HIDE DEF g
  <2>3. QED
    BY <1>1, <1>5, <2>1, <2>2, NumberAdds
<1>7. CASE AddsTwo(m, e(s + 2)) /\ seq' = s + 2
  <2>1. /\ ~Numbered(s + 1) /\ Numbered(s + 1)' /\ ~Numbered(s + 2) /\ Numbered(s + 2)'
    BY <1>1, <1>2, <1>4, <1>7 DEF Numbered
  <2> DEFINE q == Append(chan, m)
             g == e(s + 2)
  <2>2. q \in Seq(Frames) /\ chan' = Append(q, g) /\ g \in Frames /\ g.seq = s + 2
    BY <1>1, <1>3, <1>7, AppendIs DEF AddsTwo
  <2>3. CASE Clean'
    <3>1. Distinct(chan, kept) /\ UsedBy(chan, kept) \subseteq Nat /\ lost = {}
          /\ \A n \in UsedBy(chan, kept) : Numbered(n)
      BY <1>5, <2>3, UsedNat DEF NumberInv, Clean
    <3>2. Distinct(q, kept) /\ UsedBy(q, kept) = UsedBy(chan, kept) \cup {s + 1}
      <4>1. m.seq \notin UsedBy(chan, kept)
        BY <1>3, <2>1, <3>1
      <4>2. QED
        BY <1>1, <1>3, <3>1, <4>1, DistinctAppend
    <3> HIDE DEF q, g
    <3>3. g.seq \notin UsedBy(q, kept)
      <4>1. s + 2 # s + 1
        OBVIOUS
      <4>2. QED
        BY <2>1, <2>2, <3>1, <3>2, <4>1
    <3>4. Distinct(chan', kept) /\ UsedBy(chan', kept) = UsedBy(q, kept) \cup {s + 2}
      BY <2>2, <3>2, <3>3, DistinctAppend
    <3>5. \A n \in UsedBy(chan', kept) : Numbered(n)'
      BY <1>5, <2>1, <3>1, <3>2, <3>4 DEF Grows
    <3>6. QED
      BY <1>1, <2>3, <3>1, <3>4, <3>5 DEF NumberInv, Clean
  <2>4. CASE ~Clean'
    BY <1>1, <2>4 DEF NumberInv, Clean
  <2>5. QED
    BY <2>3, <2>4
<1>8. QED
  BY <1>4, <1>6, <1>7

LEMMA NumberRaise ==
    ASSUME RunTypes, NumberInv, seq < HookBase, seq' < HookBase, rpc \in {"prerun", "loop"},
           UNCHANGED <<kept, lost, ackSeq, hookSeq, pr>>,
           Raise(<< >>) \/ Raise(<<Frame("msg.chunk", seq + 1)>>)
    PROVE  NumberInv'
<1>1. CASE transport = "up"
  BY <1>1, NumberRaiseSent
<1>2. CASE transport # "up"
  <2>1. /\ seq \in Nat /\ hookSeq \in Nat /\ HookBase <= hookSeq /\ HookBase \in Nat
    BY RunnerAssumption DEF RunTypes, NumberInv
  <2>2. Len(<< >>) = 0 /\ Len(<<Frame("msg.chunk", seq + 1)>>) = 1
    OBVIOUS
  <2>3. UNCHANGED chan /\ seq' \in {seq + 1, seq + 2} /\ rpc' = "unwind"
    BY <1>2, <2>1, <2>2 DEF Raise
  <2>4. Grows /\ (Clean' => Clean)
    BY <2>1, <2>3 DEF Grows, Numbered, Clean, CutOff
  <2>5. QED
    BY <2>1, <2>3, <2>4, NumberQuiet
<1>3. QED
  BY <1>1, <1>2

\* A frame with a number, as Sent puts it on the channel.
LEMMA SentIs ==
    ASSUME chan \in Seq(Frames), NEW t \in FrameTypes, NEW n \in Nat, Send(Frame(t, n))
    PROVE  \E f \in Frames : chan' = Append(chan, f) /\ f.seq = n
<1> DEFINE g == Frame(t, n)
<1>1. g \in Frames /\ g.seq = n /\ Send(g)
  BY FrameType
<1> HIDE DEF g
<1>2. chan' = Append(chan, g)
  BY <1>1, SendAdds DEF Adds
<1>3. QED
  BY <1>1, <1>2

LEMMA NumberPreRun ==
    ASSUME RunTypes, EndInv, NumberInv, seq < HookBase, seq' < HookBase, StartRunner \/ PreRun
    PROVE  NumberInv'
<1> USE DEF hostVars
<1>1. /\ seq \in Nat /\ hookSeq \in Nat /\ HookBase <= hookSeq /\ chan \in Seq(Frames)
      /\ HookBase \in Nat
  BY RunnerAssumption DEF RunTypes, NumberInv
<1>2. PICK s \in Nat : s = seq
  BY <1>1
<1>3. CASE StartRunner
  <2>1. pr = "idle" /\ rpc = "start" /\ rpc' = "prerun" /\ UNCHANGED <<kept, lost, ackSeq, hookSeq, pr>>
    BY <1>3 DEF StartRunner, EndInv, preVars
  <2>2. CASE backend = "inprocess"
    <3>1. Send(Frame("install.done", s)) /\ seq' = s + 1
      BY <1>2, <1>3, <2>2 DEF StartRunner
    <3>2. PICK f \in Frames : chan' = Append(chan, f) /\ f.seq = s
      BY <1>1, <3>1, SentIs DEF FrameTypes
    <3>3. Grows /\ ~Numbered(s) /\ Numbered(s)' /\ (Clean' => Clean)
      BY <1>1, <1>2, <2>1, <3>1 DEF Grows, Numbered, Clean, CutOff
    <3>4. QED
      BY <1>1, <2>1, <3>2, <3>3, NumberAdds
  <2>3. CASE backend # "inprocess"
    <3>1. Grows /\ (Clean' => Clean) /\ UNCHANGED chan
      BY <1>1, <1>3, <2>1, <2>3 DEF StartRunner, Grows, Numbered, Clean, CutOff
    <3>2. QED
      BY <1>1, <2>1, <3>1, NumberQuiet
  <2>4. QED
    BY <2>2, <2>3
<1>4. CASE SpawnCommand \/ CommandDone
  <2>1. UNCHANGED <<kept, lost, chan, hookSeq>> /\ Grows /\ (Clean' => Clean)
    BY <1>1, <1>4 DEF SpawnCommand, CommandDone, Grows, Numbered, Clean, CutOff
  <2>2. QED
    BY <1>1, <2>1, NumberQuiet
<1>5. ASSUME NEW n \in 1..2, Output(n) PROVE NumberInv'
  <2>1. /\ rpc = "prerun" /\ rpc' = "prerun" /\ pr = "running" /\ pr' = "sending"
        /\ Send(Frame("pre_run", s)) /\ UNCHANGED <<kept, lost, ackSeq, hookSeq, seq>>
    BY <1>2, <1>5 DEF Output
  <2>2. PICK f \in Frames : chan' = Append(chan, f) /\ f.seq = s
    BY <1>1, <2>1, SentIs DEF FrameTypes
  <2>3. Grows /\ ~Numbered(s) /\ Numbered(s)' /\ (Clean' => Clean)
    BY <1>1, <1>2, <2>1 DEF Grows, Numbered, Clean, CutOff
  <2>4. QED
    BY <1>1, <2>1, <2>2, <2>3, NumberAdds
<1>6. CASE Drained
  <2>1. /\ rpc = "prerun" /\ rpc' = "prerun" /\ pr \in {"sending", "marking"} /\ seq' = s + 1
        /\ UNCHANGED <<kept, lost, ackSeq, hookSeq>>
    BY <1>2, <1>6 DEF Drained
  <2>2. CASE pr = "sending" /\ emitted >= OutputLimit
    <3>1. pr' = "marking" /\ Send(Frame("truncated", s + 1)) /\ s + 1 \in Nat
      BY <1>2, <1>6, <2>2 DEF Drained
    <3>2. PICK f \in Frames : chan' = Append(chan, f) /\ f.seq = s + 1
      BY <1>1, <3>1, SentIs DEF FrameTypes
    <3>3. Grows /\ ~Numbered(s + 1) /\ Numbered(s + 1)' /\ (Clean' => Clean)
      BY <1>1, <1>2, <2>1, <3>1 DEF Grows, Numbered, Clean, CutOff
    <3>4. QED
      BY <1>1, <2>1, <3>1, <3>2, <3>3, NumberAdds
  <2>3. CASE ~(pr = "sending" /\ emitted >= OutputLimit)
    <3>1. pr' = "running" /\ UNCHANGED chan
      BY <1>6, <2>3 DEF Drained
    <3>2. Grows /\ (Clean' => Clean)
      BY <1>1, <1>2, <2>1, <3>1 DEF Grows, Numbered, Clean, CutOff
    <3>3. QED
      BY <1>1, <2>1, <3>1, <3>2, NumberQuiet
  <2>4. QED
    BY <2>2, <2>3
<1>7. CASE CommandFails
  <2>1. /\ rpc = "prerun" /\ rpc' = "prerun" /\ pr \in {"idle", "running"} /\ pr' = "reporting"
        /\ Send(Frame("error", s)) /\ UNCHANGED <<kept, lost, ackSeq, hookSeq, seq>>
    BY <1>2, <1>7 DEF CommandFails
  <2>2. PICK f \in Frames : chan' = Append(chan, f) /\ f.seq = s
    BY <1>1, <2>1, SentIs DEF FrameTypes
  <2>3. Grows /\ ~Numbered(s) /\ Numbered(s)' /\ (Clean' => Clean)
    BY <1>1, <1>2, <2>1 DEF Grows, Numbered, Clean, CutOff
  <2>4. QED
    BY <1>1, <2>1, <2>2, <2>3, NumberAdds
<1>8. CASE ErrorDrained
  <2>1. UNCHANGED <<kept, lost, chan, hookSeq>> /\ Grows /\ (Clean' => Clean)
    BY <1>1, <1>8 DEF ErrorDrained, Grows, Numbered, Clean, CutOff
  <2>2. QED
    BY <1>1, <2>1, NumberQuiet
<1>10. CASE PreRunTimeout \/ TerminateProc
  BY <1>1, <1>10 DEF PreRunTimeout, TerminateProc, NumberInv, CutOff
<1>9. QED
  BY <1>3, <1>4, <1>5, <1>6, <1>7, <1>8, <1>10 DEF PreRun

LEMMA NumberConverse ==
    ASSUME RunnerIInv, NumberInv, seq < HookBase, seq' < HookBase, Converse
    PROVE  NumberInv'
<1> USE DEF hostVars, preVars
<1>1. /\ RunTypes /\ EndInv /\ PairInv
      /\ seq \in Nat /\ hookSeq \in Nat /\ HookBase <= hookSeq /\ chan \in Seq(Frames)
      /\ HookBase \in Nat
  BY RunnerAssumption DEF RunnerIInv, RunTypes, NumberInv
<1>2. PICK s \in Nat : s = seq
  BY <1>1
<1>3. ASSUME UNCHANGED <<chan, kept, lost, ackSeq, hookSeq, pr, seq>>, rpc \in {"prerun", "loop"},
             rpc' \in {"loop", "unwind"}
      PROVE  NumberInv'
  <2>1. Grows /\ (Clean' => Clean)
    BY <1>1, <1>3 DEF Grows, Numbered, Clean, CutOff
  <2>2. QED
    BY <1>1, <1>3, <2>1, NumberQuiet
<1>4. ASSUME NEW t \in FrameTypes, Send(Frame(t, seq + 1)), seq' = seq + 1, rpc = "loop", rpc' = "loop",
             UNCHANGED <<kept, lost, ackSeq, hookSeq, pr>>
      PROVE  NumberInv'
  <2>1. Send(Frame(t, s + 1)) /\ s + 1 \in Nat
    BY <1>2, <1>4
  <2>2. PICK f \in Frames : chan' = Append(chan, f) /\ f.seq = s + 1
    BY <1>1, <2>1, SentIs
  <2>3. QED
    BY <1>1, <1>2, <1>4, <2>2, NumberLoop
<1>5. CASE Connect
  BY <1>1, <1>3, <1>5, NumberRaise DEF Connect
<1>6. CASE ApiRetry
  <2>1. CASE RetryBudget > 0 /\ retries' > RetryBudget
    BY <1>1, <1>6, <2>1, NumberRaise DEF ApiRetry
  <2>2. CASE ~(RetryBudget > 0 /\ retries' > RetryBudget)
    BY <1>4, <1>6, <2>2 DEF ApiRetry, Chunk, FrameTypes
  <2>3. QED
    BY <2>1, <2>2
<1>7. CASE Finish
  <2>1. CASE FakeCompletion
    BY <1>1, <1>7, <2>1, NumberRaise DEF Finish
  <2>2. CASE ~FakeCompletion
    <3>1. /\ Send(Frame("session.end", s + 2)) /\ seq' = s + 2 /\ s + 2 \in Nat /\ rpc = "loop" /\ rpc' = "unwind"
          /\ UNCHANGED <<kept, lost, ackSeq, hookSeq, pr>>
      BY <1>2, <1>7, <2>2 DEF Finish
    <3>2. PICK f \in Frames : chan' = Append(chan, f) /\ f.seq = s + 2
      BY <1>1, <3>1, SentIs DEF FrameTypes
    <3>3. QED
      BY <1>1, <1>2, <3>1, <3>2, NumberLoop
  <2>3. QED
    BY <2>1, <2>2
<1>8. CASE StreamBreaks
  BY <1>1, <1>3, <1>8, NumberRaise DEF StreamBreaks
<1>9. CASE SendAck
  <2>1. ackSeq' # 0 /\ hookSeq' = hookSeq
    BY <1>1, <1>9 DEF SendAck, RunTypes
  <2>2. QED
    BY <1>1, <2>1 DEF NumberInv
<1>10. CASE EmitHook
  <2>1. PICK h \in Nat : h = hookSeq
    BY <1>1
  <2>2. /\ Send(Frame("hook", h)) /\ hookSeq' = h + 1 /\ rpc = "loop" /\ rpc' = "loop"
        /\ UNCHANGED <<kept, lost, ackSeq, seq, pr>>
    BY <1>10, <2>1 DEF EmitHook
  <2>3. PICK f \in Frames : chan' = Append(chan, f) /\ f.seq = h
    BY <1>1, <2>2, SentIs DEF FrameTypes
  <2>4. Grows /\ ~Numbered(h) /\ Numbered(h)' /\ (Clean' => Clean) /\ HookBase <= hookSeq'
    BY <1>1, <2>1, <2>2 DEF Grows, Numbered, Clean, CutOff
  <2>5. QED
    BY <1>1, <2>2, <2>3, <2>4, NumberAdds
<1>11. ASSUME NEW u \in Uses, CanUseTool(u) PROVE NumberInv'
  <2>1. CASE NeedsHitl(u)
    <3> DEFINE f == [Frame("tool.request", s + 1) EXCEPT !.use = u, !.req = u]
    <3>1. s + 1 \in Nat /\ u \in Nat /\ "tool.request" \in FrameTypes
      BY DEF Uses, FrameTypes
    <3>2. f \in Frames /\ f.seq = s + 1
      BY <3>1 DEF Frame, Frames, NoReq
    <3>3. /\ Send(f) /\ seq' = s + 1 /\ rpc = "loop" /\ rpc' = "loop"
          /\ UNCHANGED <<kept, lost, ackSeq, hookSeq, pr>>
      BY <1>2, <1>11, <2>1 DEF CanUseTool, TakeSeq
    <3> HIDE DEF f
    <3>4. chan' = Append(chan, f)
      BY <1>1, <3>2, <3>3, SendAdds DEF Adds
    <3>5. QED
      BY <1>1, <1>2, <3>2, <3>3, <3>4, NumberLoop
  <2>2. CASE ~NeedsHitl(u)
    BY <1>3, <1>11, <2>2 DEF CanUseTool
  <2>3. QED
    BY <2>1, <2>2
<1>12. ASSUME NEW u \in Uses, Answered(u) PROVE NumberInv'
  BY <1>3, <1>12 DEF Answered
<1>13. ASSUME NEW u \in Uses, ToolBlock(u) PROVE NumberInv'
  BY <1>4, <1>13 DEF ToolBlock, Chunk, FrameTypes
<1>14. ASSUME NEW u \in Uses, ToolResult(u) PROVE NumberInv'
  <2> DEFINE f == [Frame("tool.result", s + 2) EXCEPT !.use = u, !.req = reqOf[u]]
  <2>1. reqOf[u] \in Nat
    BY <1>1 DEF PairInv, Uses, NoReq
  <2>2. s + 2 \in Nat /\ u \in Nat /\ "tool.result" \in FrameTypes
    BY DEF Uses, FrameTypes
  <2>3. f \in Frames /\ f.seq = s + 2
    BY <2>1, <2>2 DEF Frame, Frames, NoReq
  <2>4. /\ Send(f) /\ seq' = s + 2 /\ rpc = "loop" /\ rpc' = "loop"
        /\ UNCHANGED <<kept, lost, ackSeq, hookSeq, pr>>
    BY <1>2, <1>14 DEF ToolResult
  <2> HIDE DEF f
  <2>5. chan' = Append(chan, f)
    BY <1>1, <2>3, <2>4, SendAdds DEF Adds
  <2>6. QED
    BY <1>1, <1>2, <2>3, <2>4, <2>5, NumberLoop
<1>15. ASSUME NEW fake \in BOOLEAN, Says(fake) PROVE NumberInv'
  BY <1>4, <1>15 DEF Says, Chunk, FrameTypes
<1>16. CASE SendFails
  <2>1. UNCHANGED <<kept, lost, chan, hookSeq>> /\ Grows /\ (Clean' => Clean)
    BY <1>1, <1>16 DEF SendFails, Streaming, Grows, Numbered, Clean, CutOff
  <2>2. QED
    BY <1>1, <2>1, NumberQuiet
<1>17. QED
  BY <1>5, <1>6, <1>7, <1>8, <1>9, <1>10, <1>11, <1>12, <1>13, <1>14, <1>15, <1>16 DEF Converse

LEMMA NumberHost ==
    ASSUME RunTypes, EndInv, NumberInv, HostOrSignal
    PROVE  NumberInv'
<1>1. /\ seq \in Nat /\ hookSeq \in Nat /\ HookBase <= hookSeq /\ chan \in Seq(Frames)
      /\ HookBase \in Nat
  BY RunnerAssumption DEF RunTypes, NumberInv
<1>2. CASE Sigterm \/ Unwind
  <2>1. UNCHANGED <<chan, kept, lost, hookSeq>> /\ Grows /\ (Clean' => Clean)
    BY <1>1, <1>2 DEF Sigterm, Unwind, Grows, Numbered, Clean, CutOff, Streaming, hostVars
  <2>2. QED
    BY <1>1, <2>1, NumberQuiet
<1>3. CASE HostReads
  <2> DEFINE h == Head(chan)
             r == Tail(chan)
  <2>1. /\ chan # << >> /\ chan' = r /\ UNCHANGED <<rpc, ackSeq, hookSeq, pr, seq>>
        /\ \/ UNCHANGED <<kept, lost>>
           \/ kept' = kept \cup {h.seq} /\ lost' = IF h.seq \in kept THEN lost \cup {h.type} ELSE lost
    BY <1>3 DEF HostReads, PersistFrame, preVars
  <2>2. \A n \in Nat : Numbered(n)' <=> Numbered(n)
    BY <2>1 DEF Numbered
  <2>3. UsedBy(chan, kept) \subseteq Nat
    BY UsedNat
  <2>4. CASE Clean
    <3>1. lost = {} /\ Distinct(chan, kept) /\ \A n \in UsedBy(chan, kept) : Numbered(n)
      BY <2>4 DEF NumberInv, Clean
    <3>2. /\ h.seq \notin kept /\ Distinct(r, kept) /\ Distinct(r, kept \cup {h.seq})
          /\ UsedBy(r, kept \cup {h.seq}) \subseteq UsedBy(chan, kept)
          /\ UsedBy(r, kept) \subseteq UsedBy(chan, kept)
      BY <1>1, <2>1, <3>1, DistinctTail
    <3> HIDE DEF h, r
    <3>3. lost' = {} /\ Distinct(chan', kept') /\ UsedBy(chan', kept') \subseteq UsedBy(chan, kept)
      BY <2>1, <3>1, <3>2
    <3>4. \A n \in UsedBy(chan', kept') : Numbered(n)'
      BY <2>2, <2>3, <3>1, <3>3
    <3>5. QED
      BY <1>1, <2>1, <3>3, <3>4 DEF NumberInv
  <2>5. CASE ~Clean
    BY <1>1, <2>1, <2>5 DEF NumberInv, Clean, CutOff
  <2>6. QED
    BY <2>4, <2>5
<1>4. CASE HostSeesClose
  <2>1. UNCHANGED <<chan, kept, lost, hookSeq>> /\ Grows /\ (Clean' => Clean)
    BY <1>1, <1>4 DEF HostSeesClose, Grows, Numbered, Clean, CutOff, preVars
  <2>2. QED
    BY <1>1, <2>1, NumberQuiet
<1>5. CASE HostGivesUp \/ ExecutorStops
  <2>1. /\ chan' = << >> /\ UNCHANGED <<kept, lost, hookSeq>> /\ Grows /\ (Clean' => Clean)
    BY <1>1, <1>5 DEF HostGivesUp, ExecutorStops, Grows, Numbered, Clean, CutOff, preVars, hostVars
  <2>2. DOMAIN chan' = {}
    BY <2>1
  <2>3. Distinct(chan', kept') /\ UsedBy(chan', kept') = kept /\ kept \subseteq Nat
    BY <2>1, <2>2 DEF Distinct, UsedBy, RunTypes
  <2>4. kept \subseteq UsedBy(chan, kept)
    BY DEF UsedBy
  <2>5. QED
    BY <1>1, <2>1, <2>3, <2>4 DEF NumberInv, Clean, Grows
<1>6. CASE LinkBreaks
  <2>1. PICK n \in 0..Len(chan) : chan' = SubSeq(chan, 1, n)
    BY <1>6 DEF LinkBreaks
  <2>2. UNCHANGED <<kept, lost, hookSeq>> /\ Grows /\ (Clean' => Clean)
    BY <1>1, <1>6 DEF LinkBreaks, Grows, Numbered, Clean, CutOff, preVars, hostVars
  <2>3. CASE Clean
    <3>1. lost = {} /\ Distinct(chan, kept) /\ \A k \in UsedBy(chan, kept) : Numbered(k)
      BY <2>3 DEF NumberInv, Clean
    <3>2. Distinct(chan', kept) /\ UsedBy(chan', kept) \subseteq UsedBy(chan, kept)
      BY <1>1, <2>1, <3>1, DistinctPrefix
    <3>3. \A k \in UsedBy(chan', kept') : Numbered(k)'
      BY <2>2, <3>1, <3>2, UsedNat DEF Grows
    <3>4. QED
      BY <1>1, <2>2, <3>1, <3>2, <3>3 DEF NumberInv
  <2>4. CASE ~Clean
    BY <1>1, <2>2, <2>4 DEF NumberInv, Clean
  <2>5. QED
    BY <2>3, <2>4
<1>7. QED
  BY <1>2, <1>3, <1>4, <1>5, <1>6 DEF HostStep, HostOrSignal

LEMMA RunnerKeepsNumbers ==
    RunnerIInv /\ NumberInv /\ CountersApart /\ CountersApart' /\ [RunnerNext]_runnerVars => NumberInv'
<1> SUFFICES ASSUME RunnerIInv, NumberInv, seq < HookBase, seq' < HookBase, [RunnerNext]_runnerVars
             PROVE  NumberInv'
  BY DEF CountersApart
<1>1. RunTypes /\ EndInv
  BY DEF RunnerIInv
<1>2. CASE RunnerNext
  BY <1>1, <1>2, NumberPreRun, NumberConverse, NumberHost DEF RunnerNext, HostOrSignal
<1>3. CASE UNCHANGED runnerVars
  <2>1. UNCHANGED <<chan, kept, lost, hookSeq, ackSeq, pr, rpc, seq>>
    BY <1>3 DEF runnerVars, hostVars, preVars
  <2>2. Grows /\ (Clean' => Clean) /\ HookBase <= hookSeq'
    BY <2>1 DEF Grows, Numbered, Clean, CutOff, NumberInv
  <2>3. QED
    BY <1>1, <2>1, <2>2, NumberQuiet
<1>4. QED
  BY <1>2, <1>3

LEMMA RunnerInitNumbers == RunnerInit => NumberInv
<1> SUFFICES ASSUME RunnerInit PROVE NumberInv
  OBVIOUS
<1>1. DOMAIN << >> = {} /\ HookBase \in Nat
  BY RunnerAssumption
<1>2. chan = << >> /\ kept = {} /\ lost = {} /\ hookSeq = HookBase
  BY DEF RunnerInit
<1>3. QED
  BY <1>1, <1>2 DEF NumberInv, Distinct, UsedBy

\* As long as the runner's own counter stays below the first number of a hook
\* frame, what callbacks and stream send concurrently arrives whole and under
\* the right request: no two frames of a session that was not paused and
\* not cut off have one number, so the frames table refuses
\* none (uq_frames_session_seq, HookRelay's base).
THEOREM FramesAreKept == RunnerSpec /\ []CountersApart => []ConversationInv
<1>1. RunnerIInv /\ NumberInv => ConversationInv
  BY DEF RunnerIInv, EndInv, PairInv, NumberInv, ConversationInv, FramesKept, CutOff
<1>2. QED
  BY <1>1, RunnerInitIInv, RunnerKeepsIInv, RunnerInitNumbers, RunnerKeepsNumbers, PTL DEF RunnerSpec

=============================================================================
