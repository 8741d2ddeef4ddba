------------------------------ MODULE EventBus ------------------------------
(***************************************************************************)
(* The in-process event bus (core/event_bus.py), the events table its      *)
(* durable tier writes (store/durable_event.py), the per-frame pipeline    *)
(* that feeds it (session/manager.py) and the SSE streams that read it     *)
(* (api/sse.py).                                                           *)
(*                                                                         *)
(* asyncio interleaves only at awaits: one action is one stretch of a      *)
(* coroutine between two suspensions.  A publisher suspends while a row is *)
(* written and while it waits for a full durable subscriber; everything    *)
(* else of publish() runs in one go.  All events belong to the session the *)
(* streams follow, so the session filter of the streams lets them through. *)
(***************************************************************************)
EXTENDS Integers, Sequences, FiniteSets, SequencesExt, Ranking

CONSTANTS Publishers,   \* coroutines that publish (session tasks, handlers)
          Clients,      \* browsers following the session over SSE
          Consumers,    \* in-process subscribers of the event's class
          MaxSize,      \* the queue bound of a subscription
          MaxEvents,    \* bound: events published in a behaviour
          MaxOpens,     \* bound: connections a client opens
          ReplayLimit,  \* rows one replay fetches (1000 in the code)
          FrameLimit    \* frames one back-fill reads (1000 in the code)

ASSUME BusAssumption ==
    /\ MaxSize \in Nat \ {0} /\ MaxEvents \in Nat /\ MaxOpens \in Nat
    /\ ReplayLimit \in Nat /\ FrameLimit \in Nat

VARIABLES subs,      \* subscription -> its queue, flags and counters
          bucket,    \* topic -> the list of its registered subscriptions
          pub,       \* publisher -> where its publish() is
          rows,      \* the events table, in seq order
          frames,    \* frame seqs present in the frames table
          busClosed, \* EventBus._closed
          count,     \* events created so far
          client,    \* client -> its SSE stream (ghost: cut, ids a fetch left out)
          missed     \* ghost: <<subscription, event>> a publish skipped

busVars == <<subs, bucket, pub, rows, frames, busClosed, count, client, missed>>

Conns  == Clients \X (1 .. MaxOpens)
Subs   == Conns \cup Consumers
Topics == {"class", "*"}
TopicOf(s) == IF s \in Conns THEN "*" ELSE "class"

(* A connection's subscription is its own.                                 *)
ASSUME SubsAssumption == Consumers \cap Conns = {}

(* The three kinds of event that differ for delivery: a durable typed      *)
(* event, a lossy typed event made from a frame, and a frame of a type     *)
(* that has no event class and is published as a dict on "frame".          *)
Kinds  == {"durable", "typed", "legacy"}
Events == [id: 1 .. MaxEvents, kind: Kinds]
FromFrame(e) == e.kind # "durable"

Fresh == [items |-> <<>>, drained |-> FALSE, closed |-> FALSE, lost |-> {},
          dropped |-> 0, durableDropped |-> 0, iter |-> "none"]
NoId  == [kind |-> "none", n |-> 0]
Headers == {NoId, [kind |-> "durable", n |-> 0], [kind |-> "frame", n |-> 0]}
Quiet == [pc |-> "idle"]

BusInit ==
    /\ subs = [s \in Subs |-> Fresh]
    /\ bucket = [t \in Topics |-> <<>>]
    /\ pub = [p \in Publishers |-> Quiet]
    /\ rows = <<>> /\ frames = {} /\ busClosed = FALSE /\ count = 0
    /\ client = [c \in Clients |->
                   [pc |-> "idle", conn |-> 0, cursor |-> NoId, lastId |-> NoId,
                    pending |-> <<>>, seen |-> {}, cut |-> {}]]
    /\ missed = {}

-----------------------------------------------------------------------------
(* Subscriptions *)

Full(s) == Len(subs[s].items) >= MaxSize

(* subscribe(): the subscription is registered at once; on a closed bus it *)
(* is born closed.  Its iterator has not started.                          *)
Subscribed(s) ==
    /\ subs' = [subs EXCEPT ![s].iter = "fresh", ![s].closed = busClosed]
    /\ bucket' = [bucket EXCEPT ![TopicOf(s)] = Append(@, s)]

(* What the list walk of a publisher that is suspended inside bucket t     *)
(* loses when the entry at index i leaves the list: the entries behind it  *)
(* move up by one and the walk, which continues at its old index plus one, *)
(* jumps over the one that took its place.                                 *)
Jumped(t, i) ==
    {<<bucket[t][pub[p].at + 1], pub[p].ev>> :
        p \in {q \in Publishers : /\ pub[q].pc \in {"blocked", "woken"}
                                  /\ pub[q].list = t /\ i <= pub[q].at
                                  /\ pub[q].at < Len(bucket[t])}}

(* The iterator's finally: the subscription leaves its list.               *)
Unregister(s) ==
    LET t == TopicOf(s) IN
    IF \E i \in 1 .. Len(bucket[t]) : bucket[t][i] = s
    THEN LET i == CHOOSE j \in 1 .. Len(bucket[t]) : bucket[t][j] = s IN
         /\ bucket' = [bucket EXCEPT ![t] = RemoveAt(@, i)]
         /\ missed' = missed \cup Jumped(t, i)
    ELSE UNCHANGED <<bucket, missed>>

(* One pop of the iterator; leaving a full queue wakes every publisher     *)
(* that waits for this subscription.                                       *)
Popped(s) ==
    LET wakes == Full(s) /\ ~subs[s].drained IN
    /\ subs' = [subs EXCEPT ![s].items = Tail(@), ![s].iter = "running",
                            ![s].drained = @ \/ wakes]
    /\ pub' = [p \in Publishers |->
                 IF wakes /\ pub[p].pc = "blocked" /\ pub[p].sub = s
                 THEN [pub[p] EXCEPT !.pc = "woken"] ELSE pub[p]]

(* A consumer task starts: the subscriber modules subscribe to a class.    *)
ConsumerStart(s) ==
    /\ subs[s].iter = "none"
    /\ subs' = [subs EXCEPT ![s].iter = "running", ![s].closed = busClosed]
    /\ bucket' = [bucket EXCEPT ![TopicOf(s)] = Append(@, s)]
    /\ UNCHANGED <<pub, rows, frames, busClosed, count, client, missed>>

ConsumerTake(s) ==
    /\ subs[s].iter = "running" /\ subs[s].items # <<>>
    /\ Popped(s)
    /\ UNCHANGED <<bucket, rows, frames, busClosed, count, client, missed>>

(* The consumer's task is cancelled, or a closed queue is drained and the  *)
(* iterator returns; either way its finally unregisters it.                *)
ConsumerEnds(s) ==
    /\ subs[s].iter = "running"
    /\ subs' = [subs EXCEPT ![s].iter = "done"]
    /\ Unregister(s)
    /\ UNCHANGED <<pub, rows, frames, busClosed, count, client>>

-----------------------------------------------------------------------------
(* publish *)

(* The subscriptions publish() has still to visit: the rest of the list it *)
(* is in from index i, then all of "*" if it is in the class's list.       *)
Rest(t, i) == SubSeq(bucket[t], i, Len(bucket[t]))
                \o IF t = "class" THEN bucket["*"] ELSE <<>>

(* One put of an event: a full queue loses its oldest item.                *)
Put(r, e) ==
    IF Len(r.items) >= MaxSize
    THEN [r EXCEPT !.items = Append(Tail(@), e), !.dropped = @ + 1,
                   !.lost = @ \cup {Head(r.items)}]
    ELSE [r EXCEPT !.items = Append(@, e)]

(* The subscription at which a walk from list t, index i suspends: the     *)
(* first full one, for a durable event.                                    *)
StopAt(t, i, e) ==
    LET rest == Rest(t, i)
        full == {k \in 1 .. Len(rest) : e.kind = "durable" /\ Full(rest[k])}
    IN  IF full = {} THEN Len(rest) + 1
        ELSE CHOOSE k \in full : \A j \in full : k <= j

(* _dispatch of the class's list and then of "*": every subscription up to *)
(* the first full one of a durable event gets the event; there the         *)
(* publisher clears `drained' and waits.                                   *)
Dispatch(p, t, i, e, before) ==
    LET rest == Rest(t, i)
        stop == StopAt(t, i, e)
        inT  == Len(SubSeq(bucket[t], i, Len(bucket[t])))  \* those of rest in t
        reached == {rest[k] : k \in 1 .. stop - 1}
        given == [s \in Subs |-> IF s \in reached THEN Put(before[s], e)
                                 ELSE before[s]]
    IN  IF stop = Len(rest) + 1
        THEN /\ subs' = given
             /\ pub' = [pub EXCEPT ![p] = Quiet]
        ELSE /\ subs' = [given EXCEPT ![rest[stop]].drained = FALSE]
             /\ pub' = [pub EXCEPT ![p] =
                   [pc |-> "blocked", ev |-> e, sub |-> rest[stop],
                    list |-> IF stop <= inT THEN t ELSE "*",
                    at |-> IF stop <= inT THEN i + stop - 1 ELSE stop - inT]]

(* A frame of a session arrives (_persist_frame) or a component publishes  *)
(* a durable event; on a closed bus publish() returns at once.             *)
Publish(p, k) ==
    /\ pub[p].pc = "idle" /\ count < MaxEvents
    /\ count' = count + 1
    /\ pub' = [pub EXCEPT ![p] =
          IF k = "durable" /\ busClosed THEN Quiet
          ELSE [pc |-> IF k = "durable" THEN "persist" ELSE "frame",
                ev |-> [id |-> count + 1, kind |-> k]]]
    /\ UNCHANGED <<subs, bucket, rows, frames, busClosed, client, missed>>

(* _persist_frame: append_frame's row is committed, or the write fails and *)
(* the frame is only published.                                            *)
AppendFrame(p) ==
    /\ pub[p].pc = "frame"
    /\ \/ frames' = frames \cup {pub[p].ev.id}
       \/ UNCHANGED frames
    /\ pub' = [pub EXCEPT ![p].pc = "walk"]
    /\ UNCHANGED <<subs, bucket, rows, busClosed, count, client, missed>>

(* durable_store.persist: the row gets MAX(seq) + 1 under the store's lock.*)
Persist(p) ==
    /\ pub[p].pc = "persist"
    /\ rows' = Append(rows, pub[p].ev)
    /\ pub' = [pub EXCEPT ![p].pc = "walk"]
    /\ UNCHANGED <<subs, bucket, frames, busClosed, count, client, missed>>

(* Mutant: the failed write is swallowed and the event fanned out.         *)
PersistFailsQuietly(p) ==
    /\ pub[p].pc = "persist"
    /\ pub' = [pub EXCEPT ![p].pc = "walk"]
    /\ UNCHANGED <<subs, bucket, rows, frames, busClosed, count, client, missed>>

(* The write fails: DurableEventDropError, nothing is dispatched.          *)
PersistFails(p) ==
    /\ pub[p].pc = "persist"
    /\ pub' = [pub EXCEPT ![p] = Quiet]
    /\ UNCHANGED <<subs, bucket, rows, frames, busClosed, count, client, missed>>

(* The publisher goes on to fan out.  A frame calls publish() only now:    *)
(* on a closed bus that is a no-op.                                        *)
FanOut(p) ==
    /\ pub[p].pc = "walk"
    /\ IF FromFrame(pub[p].ev) /\ busClosed
       THEN pub' = [pub EXCEPT ![p] = Quiet] /\ UNCHANGED subs
       ELSE Dispatch(p, IF pub[p].ev.kind = "legacy" THEN "*" ELSE "class", 1, pub[p].ev, subs)
    /\ UNCHANGED <<bucket, rows, frames, busClosed, count, client, missed>>

(* Mutant: no timeout on the wait.                                         *)
UnblockDrained(p) ==
    /\ pub[p].pc = "woken"
    /\ Dispatch(p, pub[p].list, pub[p].at + 1, pub[p].ev,
                [subs EXCEPT ![pub[p].sub] = Put(@, pub[p].ev)])
    /\ UNCHANGED <<bucket, rows, frames, busClosed, count, client, missed>>

(* The wait for a full subscription ends, drained or timed out; the queue  *)
(* is looked at again, the event is put and the walk goes on at the next   *)
(* index of the list as it is now.                                         *)
Unblock(p) ==
    /\ pub[p].pc \in {"blocked", "woken"}
    /\ LET s == pub[p].sub
           timedOut == pub[p].pc = "blocked"
           r == [subs[s] EXCEPT !.durableDropped = @ + IF timedOut THEN 1 ELSE 0]
       IN  Dispatch(p, pub[p].list, pub[p].at + 1, pub[p].ev,
                    [subs EXCEPT ![s] = Put(r, pub[p].ev)])
    /\ UNCHANGED <<bucket, rows, frames, busClosed, count, client, missed>>

(* close(): every subscription is told; iterators drain and end.           *)
CloseBus ==
    /\ ~busClosed
    /\ busClosed' = TRUE
    /\ subs' = [s \in Subs |->
                  IF \E t \in Topics : Contains(bucket[t], s)
                  THEN [subs[s] EXCEPT !.closed = TRUE] ELSE subs[s]]
    /\ UNCHANGED <<bucket, pub, rows, frames, count, client, missed>>

-----------------------------------------------------------------------------
(* SSE streams *)

Conn(c) == <<c, client[c].conn>>

(* A client connects, with a cursor of its own or none, or reconnects with *)
(* the id of the last event it was sent (Last-Event-ID).  The stream       *)
(* subscribes to "*" before it reads anything.  Only the id of a           *)
(* replayed row ("<seq>:<uuid>") asks for a replay, and only the id of a   *)
(* frame ("seq:<n>") for a back-fill; the bare uuid of a live event parses *)
(* as neither.                                                             *)
StreamOpen(c, id) ==
    /\ client[c].pc \in {"idle", "closed"} /\ client[c].conn < MaxOpens
    /\ client[c].lastId.kind # "none" => id = client[c].lastId
    /\ LET k == client[c].conn + 1
       IN  /\ client' = [client EXCEPT ![c].conn = k, ![c].cursor = id, ![c].cut = {},
                 ![c].pc = CASE id.kind = "durable" -> "replay"
                             [] id.kind = "frame" -> "backfill"
                             [] OTHER -> "live"]
           /\ Subscribed(<<c, k>>)
    /\ UNCHANGED <<pub, rows, frames, busClosed, count, missed>>

(* replay_after: the rows after the cursor, in order, up to the limit.     *)
FetchReplay(c) ==
    /\ client[c].pc = "replay"
    /\ LET n    == client[c].cursor.n
           upto == Min({ReplayLimit, Len(rows) - n})
       IN client' = [client EXCEPT ![c].pc = "sending",
          ![c].pending = [k \in 1 .. upto |->
                            [id |-> rows[n + k].id, cursor |-> [kind |-> "durable", n |-> n + k]]],
          ![c].cut = {rows[m].id : m \in n + upto + 1 .. Len(rows)}]
    /\ UNCHANGED <<subs, bucket, pub, rows, frames, busClosed, count, missed>>

(* list_frames reads the first FrameLimit frames of the session; those     *)
(* after the cursor are sent.                                              *)
FetchFrames(c) ==
    /\ client[c].pc = "backfill"
    /\ LET first == {f \in frames : Cardinality({g \in frames : g <= f}) <= FrameLimit}
           after == Ascending({f \in first : f > client[c].cursor.n})
       IN client' = [client EXCEPT ![c].pc = "sending",
            ![c].pending = [k \in 1 .. Len(after) |->
                              [id |-> after[k], cursor |-> [kind |-> "frame", n |-> after[k]]]],
            ![c].cut = frames \ first]
    /\ UNCHANGED <<subs, bucket, pub, rows, frames, busClosed, count, missed>>

(* Mutant: the stream subscribes only once its rows are sent.              *)
SendFetchedFirst(c) ==
    /\ client[c].pc = "sending"
    /\ client' = IF client[c].pending = <<>> THEN [client EXCEPT ![c].pc = "live"]
                 ELSE [client EXCEPT ![c].pending = Tail(@),
                          ![c].seen = @ \cup {Head(client[c].pending).id},
                          ![c].lastId = Head(client[c].pending).cursor]
    /\ subs' = [subs EXCEPT ![Conn(c)].items = <<>>]
    /\ UNCHANGED <<bucket, pub, rows, frames, busClosed, count, missed>>

(* One fetched row goes out; after the last one the stream follows its     *)
(* subscription.                                                           *)
SendFetched(c) ==
    /\ client[c].pc = "sending"
    /\ client' = IF client[c].pending = <<>> THEN [client EXCEPT ![c].pc = "live"]
                 ELSE [client EXCEPT ![c].pending = Tail(@),
                          ![c].seen = @ \cup {Head(client[c].pending).id},
                          ![c].lastId = Head(client[c].pending).cursor]
    /\ UNCHANGED <<subs, bucket, pub, rows, frames, busClosed, count, missed>>

(* One live event goes out, with the id that is on the wire.               *)
SendLive(c) ==
    /\ client[c].pc = "live" /\ subs[Conn(c)].items # <<>>
    /\ LET e == Head(subs[Conn(c)].items) IN
       client' = [client EXCEPT ![c].seen = @ \cup {e.id},
          ![c].lastId = IF e.kind = "legacy" THEN [kind |-> "frame", n |-> e.id]
                        ELSE [kind |-> "uuid", n |-> 0]]
    /\ Popped(Conn(c))
    /\ UNCHANGED <<bucket, rows, frames, busClosed, count, missed>>

(* The client disconnects, or the closed bus lets the live loop end; the   *)
(* stream closes its iterator.  An iterator that has not been advanced yet *)
(* never entered its try block: closing it does not run the finally, and   *)
(* the subscription stays registered.                                      *)
StreamClose(c) ==
    /\ client[c].pc \notin {"idle", "closed"}
    /\ client' = [client EXCEPT ![c].pc = "closed", ![c].pending = <<>>]
    /\ IF client[c].pc = "live"
       THEN subs' = [subs EXCEPT ![Conn(c)].iter = "done"] /\ Unregister(Conn(c))
       ELSE UNCHANGED <<subs, bucket, missed>>
    /\ UNCHANGED <<pub, rows, frames, busClosed, count>>

-----------------------------------------------------------------------------
BusNext ==
    \/ \E s \in Consumers : ConsumerStart(s) \/ ConsumerTake(s) \/ ConsumerEnds(s)
    \/ \E p \in Publishers : \/ \E k \in Kinds : Publish(p, k)
                             \/ AppendFrame(p) \/ Persist(p) \/ PersistFails(p)
                             \/ FanOut(p) \/ Unblock(p)
    \/ CloseBus
    \/ \E c \in Clients : \/ \E id \in Headers \cup {client[c].lastId} : StreamOpen(c, id)
                          \/ FetchReplay(c) \/ FetchFrames(c)
                          \/ SendFetched(c) \/ SendLive(c) \/ StreamClose(c)

(* asyncio runs every ready coroutine, database calls end and wait_for     *)
(* times out: a publisher that can go on does.                             *)
PublisherStep(p) == AppendFrame(p) \/ Persist(p) \/ PersistFails(p) \/ FanOut(p) \/ Unblock(p)
BusFairness == \A p \in Publishers : WF_busVars(PublisherStep(p))

BusSpec == BusInit /\ [][BusNext]_busVars /\ BusFairness

-----------------------------------------------------------------------------
(* Properties *)

(* Type correctness; no queue outgrows its bound.                          *)
BusTypeOK ==
    /\ \A s \in Subs : /\ subs[s].items \in Seq(Events) /\ Len(subs[s].items) <= MaxSize
                        /\ subs[s].lost \subseteq Events
                        /\ subs[s].dropped \in Nat /\ subs[s].durableDropped \in Nat
                        /\ subs[s].iter \in {"none", "fresh", "running", "done"}
    /\ \A t \in Topics : bucket[t] \in Seq(Subs)
    /\ \A p \in Publishers :
          pub[p].pc \in {"idle", "frame", "persist", "walk", "blocked", "woken"}
    /\ rows \in Seq(Events) /\ frames \subseteq 1 .. MaxEvents /\ count \in 0 .. MaxEvents
    /\ \A c \in Clients :
          client[c].pc \in {"idle", "replay", "backfill", "sending", "live", "closed"}

Queued(s) == ToSet(subs[s].items)

(* Persist before fan-out (event_bus.py, publish): a durable event that    *)
(* reached any queue or any browser is in the events table, so whoever     *)
(* loses it later can still be replayed it.                                *)
StoredBeforeSeen ==
    LET stored == {e.id : e \in ToSet(rows)} IN
    /\ \A s \in Subs : \A e \in Queued(s) \cup subs[s].lost :
          e.kind = "durable" => e.id \in stored
    /\ \A p \in Publishers : pub[p].pc \in {"walk", "blocked", "woken"} =>
          (pub[p].ev.kind = "durable" => pub[p].ev.id \in stored)

(* The bus and its table: queues keep their bound, and nothing durable is  *)
(* seen before it is stored.                                               *)
BusInv == BusTypeOK /\ StoredBeforeSeen

(* An event publisher p still has to offer to subscription s.              *)
Ahead(p, s, i) ==
    /\ pub[p].pc # "idle" /\ pub[p].ev.id = i
    /\ pub[p].pc \in {"blocked", "woken"} =>
          s = pub[p].sub \/ Contains(Rest(pub[p].list, pub[p].at + 1), s)

Accounted(c, i) ==
    LET s == Conn(c) IN
    \/ i \in client[c].seen
    \/ \E e \in Queued(s) \cup subs[s].lost : e.id = i
    \/ \E p \in Publishers : Ahead(p, s, i)
    \/ \E e \in Events : e.id = i /\ <<s, e>> \in missed
    \/ i \in client[c].cut

(* No gap between replay and live tail (sse.py, _stream: "Subscribe FIRST  *)
(* so events arriving during back-fill aren't lost"): once a stream that   *)
(* resumed from a cursor follows its subscription, every later row of its  *)
(* table was sent, waits in its queue, is still on its way there, or was   *)
(* lost by a full queue, by a fan-out that jumped over the stream or by a  *)
(* fetch at its limit.                                                     *)
ResumeHasNoGap ==
    \A c \in Clients : client[c].pc = "live" =>
      LET cur == client[c].cursor IN
      /\ cur.kind = "durable" =>
            \A n \in cur.n + 1 .. Len(rows) : Accounted(c, rows[n].id)
      /\ cur.kind = "frame" =>
            \A f \in frames : f > cur.n /\ ~busClosed => Accounted(c, f)

(* A full durable subscriber holds a publisher up, but not for ever: the   *)
(* wait is bounded by durable_block_timeout_s, whatever the subscribers do.*)
PublishReturns == \A p \in Publishers : (pub[p].pc # "idle") ~> (pub[p].pc = "idle")

(* What sse.py's finally promises ("Drop the subscription so its deque     *)
(* stops accumulating events"): a closed stream is no longer registered.   *)
ClosedStreamIsUnsubscribed ==
    \A c \in Clients : client[c].pc = "closed" => ~Contains(bucket["*"], Conn(c))

(* What publish() promises ("Fan out an event to every current             *)
(* subscriber"): no registered subscription is jumped over.                *)
EverySubscriberIsServed == missed = {}

(* What the durable tier is for (event_bus.py: "the SSE Last-Event-ID      *)
(* cursor replays from the store after a disconnect"): a client that       *)
(* follows the session again is not missing a durable event that was       *)
(* stored since the first event it saw.                                    *)
ReconnectReplaysMissed ==
    \A c \in Clients : client[c].pc = "live" /\ client[c].seen # {} =>
      \A n \in 1 .. Len(rows) :
        rows[n].id > Min(client[c].seen) => Accounted(c, rows[n].id)

=============================================================================
