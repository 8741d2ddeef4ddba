------------------------------- MODULE Alerts -------------------------------
(***************************************************************************)
(* From session events to chat messages: subscribers/failure_subscriber.py *)
(* and subscribers/alert_router.py (rules, cooldown, send) and             *)
(* im/subscriber.py (one consumer task per event class).  Sending a card   *)
(* is one HTTP call that may succeed, fail or hang; Feishu is external.    *)
(***************************************************************************)
EXTENDS Integers, Sequences, FiniteSets, SequencesExt

CONSTANTS Owners,      \* session owners known to the store
          Changes,     \* the state changes published: records of Alert
          Cooldown,    \* cooldown_s
          LruCap,      \* LRU_CAP
          MaxTime,     \* bound: the clock
          MaxAlerts,   \* bound: events published
          Backend      \* "memory" or "redis": the event bus in use

ASSUME AlertAssumption ==
    /\ Cooldown \in Nat /\ LruCap \in Nat \ {0} /\ MaxTime \in Nat /\ MaxAlerts \in Nat
    /\ Backend \in {"memory", "redis"}

(* A SessionStateChanged as the rules see it.                              *)
Reasons == {"error", "timeout", "user_request"}
Alert   == [to: {"running", "failed", "cancelled", "completed"}, reason: Reasons,
            owner: Owners \cup {"anon"}, notify: BOOLEAN]

ASSUME ChangesAssumption == Changes \subseteq Alert

VARIABLES now,         \* time.monotonic()
          box,         \* the failure subscriber's queue
          job,         \* the event its task is handling
          lastAlert,   \* _last_alert, oldest entry first
          attempts,    \* ghost: sends tried, with their time
          suppressed,  \* ghost: events held back by the cooldown
          ignored,     \* ghost: events the subscriber passed over
          imBox,       \* IM class -> events waiting in its queue
          imTask,      \* IM class -> its consumer task
          published    \* events so far

alertVars == <<now, box, job, lastAlert, attempts, suppressed, ignored, imBox, imTask, published>>
imVars    == <<imBox, imTask>>

IMClasses == {"hitl", "state"}
NoJob == [pc |-> "idle"]

AlertInit ==
    /\ now = 0 /\ box = <<>> /\ job = NoJob /\ lastAlert = <<>>
    /\ attempts = {} /\ suppressed = {} /\ ignored = {} /\ published = 0
    /\ imBox = [c \in IMClasses |-> 0] /\ imTask = [c \in IMClasses |-> "idle"]

AlertTick == /\ now < MaxTime /\ now' = now + 1
             /\ UNCHANGED <<box, job, lastAlert, attempts, suppressed, ignored, imVars, published>>

PublishChange(e) ==
    /\ published < MaxAlerts /\ published' = published + 1
    /\ box' = Append(box, e)
    /\ imBox' = [imBox EXCEPT !["state"] = @ + 1]
    /\ UNCHANGED <<now, job, lastAlert, attempts, suppressed, ignored, imTask>>

PublishHitl ==
    /\ published < MaxAlerts /\ published' = published + 1
    /\ imBox' = [imBox EXCEPT !["hitl"] = @ + 1]
    /\ UNCHANGED <<now, box, job, lastAlert, attempts, suppressed, ignored, imTask>>

-----------------------------------------------------------------------------
(* Events read from the Redis stream are ReplayedEvents, whatever class    *)
(* they had: the class checks of the subscribers let none of them pass.    *)
IsTyped == Backend = "memory"

(* _run and handle(): non-terminal transitions and cancellations by a user *)
(* are passed over; the rest waits for the store's owner and tags.         *)
Handle ==
    /\ job.pc = "idle" /\ box # <<>>
    /\ box' = Tail(box)
    /\ LET e == Head(box) IN
       IF \/ ~IsTyped
          \/ e.to = "running"
          \/ e.to = "cancelled" /\ e.reason = "user_request"
       THEN ignored' = ignored \cup {e} /\ UNCHANGED job
       ELSE job' = [pc |-> "meta", ev |-> e] /\ UNCHANGED ignored
    /\ UNCHANGED <<now, lastAlert, attempts, suppressed, imVars, published>>

(* _resolve_meta: the row's owner and tags, or anonymous and untagged when *)
(* the store fails or has no row.                                          *)
ResolveMeta ==
    /\ job.pc = "meta"
    /\ \/ job' = [job EXCEPT !.pc = "route"]
       \/ job' = [job EXCEPT !.pc = "route", !.ev.owner = "anon", !.ev.notify = FALSE]
    /\ UNCHANGED <<now, box, lastAlert, attempts, suppressed, ignored, imVars, published>>

(* _matches with DEFAULT_RULES: failures always, cancellations by timeout, *)
(* completions tagged notify.                                              *)
RuleMatches(e) == \/ e.to = "failed"
                  \/ e.to = "cancelled" /\ e.reason = "timeout"
                  \/ e.to = "completed" /\ e.notify

AlertKey(e) == <<e.to, e.owner, e.reason>>

Cooling(k) == \E i \in 1 .. Len(lastAlert) :
                lastAlert[i].key = k /\ now - lastAlert[i].t < Cooldown

(* Mutant: an expired entry keeps its first time stamp.                    *)
RecordAlertOnce(k) ==
    IF \E i \in 1 .. Len(lastAlert) : lastAlert[i].key = k THEN lastAlert
    ELSE Append(IF Len(lastAlert) >= LruCap THEN Tail(lastAlert) ELSE lastAlert,
                [key |-> k, t |-> now])

(* _cooldown_check's record: a new key evicts the oldest entry of a full   *)
(* table; the key moves to the end with the current time.                  *)
RecordAlert(k) ==
    LET places == {i \in 1 .. Len(lastAlert) : lastAlert[i].key = k}
        room   == IF places # {} THEN RemoveAt(lastAlert, CHOOSE i \in places : TRUE)
                  ELSE IF Len(lastAlert) >= LruCap THEN Tail(lastAlert) ELSE lastAlert
    IN  Append(room, [key |-> k, t |-> now])

(* dispatch() up to the send: rule, cooldown (checked and recorded in one  *)
(* stretch under the lock), card.                                          *)
Route ==
    /\ job.pc = "route"
    /\ LET e == job.ev
           k == AlertKey(e)
       IN  IF ~RuleMatches(e)
           THEN job' = NoJob /\ UNCHANGED <<lastAlert, attempts, suppressed>>
           ELSE IF Cooling(k)
           THEN /\ suppressed' = suppressed \cup {[ev |-> e, t |-> now]}
                /\ job' = NoJob /\ UNCHANGED <<lastAlert, attempts>>
           ELSE /\ lastAlert' = RecordAlert(k)
                /\ attempts' = attempts \cup {[ev |-> e, t |-> now, n |-> Cardinality(attempts)]}
                /\ job' = [job EXCEPT !.pc = "send"] /\ UNCHANGED suppressed
    /\ UNCHANGED <<now, box, ignored, imVars, published>>

(* send_card returns or raises; either way the task goes on with the next  *)
(* event.                                                                  *)
AlertSent ==
    /\ job.pc = "send" /\ job' = NoJob
    /\ UNCHANGED <<now, box, lastAlert, attempts, suppressed, ignored, imVars, published>>

-----------------------------------------------------------------------------
(* IMSubscriber *)

(* Mutant: the classes share one task.                                     *)
IMConsumeShared(c) ==
    /\ \A d \in IMClasses : imTask[d] = "idle"
    /\ imBox[c] > 0
    /\ imBox' = [imBox EXCEPT ![c] = @ - 1]
    /\ imTask' = [imTask EXCEPT ![c] = IF IsTyped THEN "sending" ELSE "idle"]
    /\ UNCHANGED <<now, box, job, lastAlert, attempts, suppressed, ignored, published>>

(* _consume_loop: the next event of the class becomes a card, which goes   *)
(* out; no card is built for an event of another Python class.             *)
IMConsume(c) ==
    /\ imTask[c] = "idle" /\ imBox[c] > 0
    /\ imBox' = [imBox EXCEPT ![c] = @ - 1]
    /\ imTask' = [imTask EXCEPT ![c] = IF IsTyped THEN "sending" ELSE "idle"]
    /\ UNCHANGED <<now, box, job, lastAlert, attempts, suppressed, ignored, published>>

(* _dispatch: the HTTP call ends, with a message or with a logged failure. *)
IMSent(c) ==
    /\ imTask[c] = "sending"
    /\ imTask' = [imTask EXCEPT ![c] = "idle"]
    /\ UNCHANGED <<now, box, job, lastAlert, attempts, suppressed, ignored, imBox, published>>

AlertNext ==
    \/ AlertTick \/ (\E e \in Changes : PublishChange(e)) \/ PublishHitl
    \/ Handle \/ ResolveMeta \/ Route \/ AlertSent
    \/ \E c \in IMClasses : IMConsume(c) \/ IMSent(c)

AlertSpec == AlertInit /\ [][AlertNext]_alertVars

(* The tasks run; only HITL cards' calls are assumed to end, a call for a  *)
(* state card may hang.                                                    *)
AlertFairness == WF_alertVars(IMConsume("hitl")) /\ WF_alertVars(IMSent("hitl"))

-----------------------------------------------------------------------------
(* Type correctness; the cooldown table never outgrows its cap and holds   *)
(* no key twice.                                                           *)
AlertTypeOK ==
    /\ now \in 0 .. MaxTime /\ box \in Seq(Alert)
    /\ job.pc \in {"idle", "meta", "route", "send"}
    /\ Len(lastAlert) <= LruCap
    /\ \A i, j \in 1 .. Len(lastAlert) : lastAlert[i].key = lastAlert[j].key => i = j
    /\ imBox \in [IMClasses -> Nat] /\ imTask \in [IMClasses -> {"idle", "sending"}]

Same(e, f) == e.to = f.to /\ e.owner = f.owner /\ e.reason = f.reason

(* The cooldown holds (alert_router.py: "alerts once"): two attempts for   *)
(* the same owner, outcome and reason are at least cooldown_s apart unless *)
(* LruCap other kinds of alert came between them.                          *)
CooldownHolds ==
    \A a, b \in attempts :
      a.n < b.n /\ Same(a.ev, b.ev) /\ b.t - a.t < Cooldown =>
        Cardinality({<<c.ev.to, c.ev.owner, c.ev.reason>> :
                        c \in {d \in attempts : a.n < d.n /\ d.n < b.n}}) >= LruCap

(* Nothing is held back for another alert's sake ("a different end_reason  *)
(* ... alerts again because the tuple differs"): an event is suppressed    *)
(* only when an alert of its own kind was attempted within the window.     *)
SuppressedAfterOwnAlert ==
    \A s \in suppressed : \E a \in attempts :
      Same(a.ev, s.ev) /\ a.t <= s.t /\ s.t - a.t < Cooldown

(* The cooldown (_cooldown_check) suppresses what it should and nothing    *)
(* else, within its bounded table.                                         *)
AlertInv == AlertTypeOK /\ CooldownHolds /\ SuppressedAfterOwnAlert

(* im/subscriber.py: "a slow Feishu HTTP call never blocks a HITL card":   *)
(* waiting HITL events get their cards out although a state card's call    *)
(* hangs.                                                                  *)
HitlCardsGoOut == (imBox["hitl"] > 0) ~> (imBox["hitl"] = 0)

(* What cluster/wire.py says of events from the stream ("IM subscribers    *)
(* ... see Redis-fed events the same as durable replays") and the failure  *)
(* subscriber of its filter: only non-terminal transitions and a user's    *)
(* own cancellations are passed over.                                      *)
FailuresReachTheRouter == \A e \in ignored : e.to # "failed"

=============================================================================
