------------------------------ MODULE RedisBus ------------------------------
(***************************************************************************)
(* The cluster event bus (cluster/redis_bus.py): every worker XADDs its    *)
(* events to one Redis stream, and each worker's pump tails the stream     *)
(* with XREAD and fans the entries out to its local subscribers.  One      *)
(* worker's bus is modelled; the entries come from any worker.  The Redis  *)
(* server itself is external: a stream is a sequence of entries, XREAD     *)
(* with "$" returns only entries added after the command reached it.       *)
(***************************************************************************)
EXTENDS Integers, Sequences, FiniteSets, SequencesExt, Ranking

CONSTANTS RSubs,       \* local subscriptions
          Types,       \* event classes
          RMaxSize,    \* queue bound of a subscription
          MaxLen,      \* MAXLEN of the stream
          MaxEntries,  \* bound: entries added in a behaviour
          MaxPumps     \* bound: times a pump is started

ASSUME RedisAssumption ==
    /\ RMaxSize \in Nat \ {0} /\ MaxLen \in Nat \ {0} /\ MaxEntries \in Nat
    /\ MaxPumps \in Nat

VARIABLES entries,  \* every entry ever added; the last MaxLen are retained
          rsubs,    \* subscription -> queue and what it took so far
          pump,     \* the pump task
          rclosed,  \* RedisStreamEventBus._closed
          pumps     \* pumps started

redisVars == <<entries, rsubs, pump, rclosed, pumps>>

(* An entry: its event class and its wire form.  A newer worker writes a   *)
(* version this one does not speak; a foreign writer may omit a field.     *)
Wire  == {"v1", "newer", "damaged"}
Entry == [type: Types, wire: Wire]

(* The cursor "$": the position is fixed when the command reaches Redis.   *)
Tail_ == -1

RedisInit ==
    /\ entries = <<>>
    /\ rsubs = [s \in RSubs |-> [on |-> FALSE, topic |-> "*", closed |-> FALSE,
                                 items |-> <<>>, took |-> <<>>, lost |-> {}, since |-> 0]]
    /\ pump = [pc |-> "off", last |-> Tail_, from |-> 0, base |-> 0]
    /\ rclosed = FALSE /\ pumps = 0

Retained == {i \in 1 .. Len(entries) : i > Len(entries) - MaxLen}

(* publish(): encode_event and XADD with MAXLEN.  A legacy string topic is *)
(* dropped before it reaches the stream.                                   *)
XAdd(e) ==
    /\ Len(entries) < MaxEntries
    /\ entries' = Append(entries, e)
    /\ UNCHANGED <<rsubs, pump, rclosed, pumps>>

(* subscribe(): the deque is registered; a pump is started if none runs.   *)
RSubscribe(s, t) ==
    /\ ~rsubs[s].on
    /\ rsubs' = [rsubs EXCEPT ![s].on = TRUE, ![s].topic = t,
                              ![s].since = IF pump.pc = "off" THEN Tail_ ELSE pump.last]
    /\ IF pump.pc = "off"
       THEN /\ pumps < MaxPumps /\ pumps' = pumps + 1
            /\ pump' = [pc |-> "loop", last |-> Tail_, from |-> 0, base |-> 0]
       ELSE UNCHANGED <<pump, pumps>>
    /\ UNCHANGED <<entries, rclosed>>

(* The loop condition, then an XREAD that blocks at Redis: "$" means the   *)
(* last entry of the stream at that moment.                                *)
PumpRead ==
    /\ pump.pc = "loop"
    /\ pump' = IF rclosed THEN [pump EXCEPT !.pc = "off"]
               ELSE IF pump.last = Tail_
               THEN [pump EXCEPT !.pc = "xread", !.from = Len(entries), !.base = Len(entries)]
               ELSE [pump EXCEPT !.pc = "xread", !.from = pump.last]
    /\ UNCHANGED <<entries, rsubs, rclosed, pumps>>

(* The block window passes with nothing new: last_id stays what it was.    *)
PumpEmpty ==
    /\ pump.pc = "xread" /\ Len(entries) = pump.from
    /\ pump' = [pump EXCEPT !.pc = "loop"]
    /\ UNCHANGED <<entries, rsubs, rclosed, pumps>>

Matches(s, e) == rsubs[s].topic \in {"*", e.type}

(* decode_event: an entry of another version is skipped with a warning,    *)
(* and so is one with a required field missing.                            *)
Decodes(i) == entries[i].wire = "v1"

(* offer(), for the entries of a batch in stream order: a closed deque     *)
(* refuses, a full one drops the new event.  Nothing is taken in between.  *)
Offer(r, batch) ==
    LET got  == Ascending(batch)
        room == Min({RMaxSize - Len(r.items), Len(got)})
    IN  IF r.closed THEN r
        ELSE [r EXCEPT !.items = @ \o SubSeq(got, 1, room),
                       !.lost = @ \cup {got[k] : k \in room + 1 .. Len(got)}]

(* XREAD returns the retained entries after the cursor.                    *)
Unread == {i \in Retained : i > pump.from}

(* Mutant: an entry that cannot be decoded ends the batch.                 *)
PumpFanOutStops ==
    /\ pump.pc = "xread" /\ Unread # {}
    /\ rsubs' = [s \in RSubs |->
         IF ~rsubs[s].on THEN rsubs[s]
         ELSE Offer(rsubs[s], {i \in Unread : /\ \A j \in pump.from + 1 .. i : Decodes(j)
                                              /\ Matches(s, entries[i])})]
    /\ pump' = [pump EXCEPT !.pc = "loop", !.last = Len(entries)]
    /\ UNCHANGED <<entries, rclosed, pumps>>

(* Each entry moves the cursor and is offered to every registered deque    *)
(* whose topic it matches.  Nothing of this suspends: offer() never waits. *)
PumpFanOut ==
    /\ pump.pc = "xread" /\ Unread # {}
    /\ rsubs' = [s \in RSubs |->
         IF ~rsubs[s].on THEN rsubs[s]
         ELSE Offer(rsubs[s], {i \in Unread : Decodes(i) /\ Matches(s, entries[i])})]
    /\ pump' = [pump EXCEPT !.pc = "loop", !.last = Len(entries)]
    /\ UNCHANGED <<entries, rclosed, pumps>>

(* The connection fails: the pump logs and ends; nothing restarts it until *)
(* the next subscribe(), which starts over at "$".                         *)
PumpCrash ==
    /\ pump.pc = "xread"
    /\ pump' = [pump EXCEPT !.pc = "off"]
    /\ UNCHANGED <<entries, rsubs, rclosed, pumps>>

RTake(s) ==
    /\ rsubs[s].items # <<>>
    /\ rsubs' = [rsubs EXCEPT ![s].items = Tail(@), ![s].took = Append(@, Head(rsubs[s].items))]
    /\ UNCHANGED <<entries, pump, rclosed, pumps>>

(* aclose(): the deque is marked; it stays in the list of subscribers.     *)
RClose(s) ==
    /\ rsubs[s].on /\ ~rsubs[s].closed
    /\ rsubs' = [rsubs EXCEPT ![s].closed = TRUE]
    /\ UNCHANGED <<entries, pump, rclosed, pumps>>

(* close(): every deque is marked and the pump is cancelled and awaited.   *)
CloseRedisBus ==
    /\ ~rclosed /\ rclosed' = TRUE
    /\ rsubs' = [s \in RSubs |-> IF rsubs[s].on THEN [rsubs[s] EXCEPT !.closed = TRUE]
                                 ELSE rsubs[s]]
    /\ pump' = [pump EXCEPT !.pc = "off"]
    /\ UNCHANGED <<entries, pumps>>

RedisNext ==
    \/ \E e \in Entry : XAdd(e)
    \/ \E s \in RSubs : (\E t \in Types \cup {"*"} : RSubscribe(s, t)) \/ RTake(s) \/ RClose(s)
    \/ PumpRead \/ PumpEmpty \/ PumpFanOut \/ PumpCrash \/ CloseRedisBus

RedisSpec == RedisInit /\ [][RedisNext]_redisVars

-----------------------------------------------------------------------------
(* Type correctness; no queue outgrows its bound.                          *)
RedisTypeOK ==
    /\ entries \in Seq(Entry) /\ Len(entries) <= MaxEntries
    /\ \A s \in RSubs : /\ Len(rsubs[s].items) <= RMaxSize
                        /\ ToSet(rsubs[s].items) \cup rsubs[s].lost \subseteq 1 .. Len(entries)
    /\ pump.pc \in {"off", "loop", "xread"} /\ pump.from \in 0 .. MaxEntries

(* Every subscriber sees the entries in stream order and none twice, over  *)
(* block timeouts, crashes of the pump and restarts at "$".                *)
OncePerEntryInOrder ==
    \A s \in RSubs :
      LET all == rsubs[s].took \o rsubs[s].items IN
      \A i, j \in 1 .. Len(all) : i < j => all[i] < all[j]

(* A pump that has read once loses nothing but what MAXLEN trimmed, a full *)
(* queue dropped or this worker cannot decode: up to its cursor, every     *)
(* other entry it was alive for reached each matching open subscriber.     *)
PumpHasNoGap ==
    \A s \in RSubs :
      rsubs[s].on /\ ~rsubs[s].closed /\ pump.pc # "off" /\ pump.last # Tail_
        /\ MaxEntries <= MaxLen =>
      \A i \in Max({rsubs[s].since, pump.base}) + 1 .. pump.last :
        Decodes(i) /\ Matches(s, entries[i]) =>
          i \in ToSet(rsubs[s].took \o rsubs[s].items) \cup rsubs[s].lost

(* The cluster bus: bounded queues, and every entry once, in order and     *)
(* without a gap, over crashes and restarts of the pump (_pump_loop).      *)
RedisInv == RedisTypeOK /\ OncePerEntryInOrder /\ PumpHasNoGap

(* What _LocalDeque says of a slow subscriber: backpressure "blocks the    *)
(* fan-out pump instead of silently dropping events".                      *)
BackpressureNotDrop == \A s \in RSubs : rsubs[s].lost = {}

=============================================================================
