------------------------------ MODULE AlertOutbox ------------------------------
(***************************************************************************)
(* How the bridge's alerts reach the owner and the ops topic.  Events of   *)
(* the egress controller wait in its own file, go through the outbox and   *)
(* leave receipts; other alerts are sent at once and queued where that     *)
(* fails.  The controller, every alert and a poller all flush the outbox,  *)
(* one at a time, while the others may add to it.                          *)
(***************************************************************************)
EXTENDS Integers, Sequences, FiniteSets

CONSTANTS Order,      \* the targets: owner_dm, ops_topic
          Audience,   \* the targets of each event of the egress controller
          Alerts,     \* alerts sent directly, to all targets
          Limit,      \* messages a flush looks at
          MaxSeconds, \* of the clock that numbers queued alerts
          MaxOutages, \* of Telegram, for a target
          MaxMishaps  \* crashes, timeouts and answers that are lost

ASSUME OutboxAssumption ==
  /\ Limit \in Nat \ {0}
  /\ Order \in Seq({Order[k] : k \in DOMAIN Order}) \ {<<>>}
  /\ \A j, k \in DOMAIN Order : Order[j] = Order[k] => j = k
  /\ Audience \in Seq(Seq({Order[k] : k \in DOMAIN Order}) \ {<<>>})
  /\ {MaxSeconds, MaxOutages, MaxMishaps} \subseteq Nat
  /\ Alerts \cap {"controller", "poller", "nobody"} = {}
  /\ Alerts \cap DOMAIN Audience = {}

VARIABLES
  raised,   \* events so far
  pending,  \* pending_events in the controller's file
  outbox,   \* alert_outbox.jsonl
  receipts, \* <<event, target>> that were acknowledged
  up,       \* Telegram takes messages for the target
  second,   \* of the wall clock, when last read
  outages,
  pc,       \* where each sender is
  left,     \* targets it has still to serve, in order
  failed,   \* those it could not send to
  holder,   \* of the flush lock
  batch,    \* what is left of the messages it has loaded
  blocked,  \* targets that failed in this flush
  unacked,  \* the head of the batch was sent
  shown,    \* how often each text was seen at each target
  queuedAs, \* the id each failed alert was queued under
  mishaps

flushing == <<holder, batch, blocked, unacked>>
vars == <<raised, pending, outbox, receipts, up, outages, second, pc, left, failed,
          flushing, shown, queuedAs, mishaps>>

Events == DOMAIN Audience
Targets == {Order[k] : k \in DOMAIN Order}
Senders == Alerts \cup {"controller", "poller"}
Nobody == "nobody"
None == <<"none", 0>>

EventId(n) == <<"event", n>>
AlertId(now) == <<"second", now>>
Item(id, target, text) == [id |-> id, target |-> target, text |-> text]
SameMessage(i, j) == i.id = j.id /\ i.target = j.target

Init ==
  /\ raised = 0 /\ pending = <<>>
  /\ outbox = <<>> /\ receipts = {}
  /\ up = [t \in Targets |-> TRUE] /\ outages = 0
  /\ second = 0
  /\ pc = [s \in Senders |-> "idle"]
  /\ left = [s \in Senders |-> <<>>]
  /\ failed = [s \in Senders |-> {}]
  /\ holder = Nobody /\ batch = <<>> /\ blocked = {} /\ unacked = FALSE
  /\ shown = [m \in (Events \cup Alerts) \X Targets |-> 0]
  /\ queuedAs = [m \in Alerts \X Targets |-> None]
  /\ mishaps = 0

Mishap == mishaps < MaxMishaps /\ mishaps' = mishaps + 1

Go(s, there) == pc' = [pc EXCEPT ![s] = there]

Show(text, t) == shown' = [shown EXCEPT ![<<text, t>>] = @ + 1]

(* Telegram takes a message and says so, or does neither; or it takes it   *)
(* and the answers of all tries are lost.                                  *)
Sent(text, t) == up[t] /\ Show(text, t) /\ UNCHANGED mishaps
NotSent(text, t) ==
  \/ ~up[t] /\ UNCHANGED <<shown, mishaps>>
  \/ Mishap /\ Show(text, t)

-----------------------------------------------------------------------------
(* AlertOutboxStore.                                                       *)

Queued(id, t) == \E k \in DOMAIN outbox : SameMessage(outbox[k], Item(id, t, 0))

(* A message whose id is there already is not added.                       *)
Queue(id, t, text) ==
  outbox' = IF Queued(id, t) THEN outbox ELSE Append(outbox, Item(id, t, text))

WasDelivered(id, t) == <<id, t>> \in receipts

(* What is kept of the items when all those of a message are dropped.      *)
Without(items, item) ==
  LET kept[k \in 0..Len(items)] ==
        IF k = 0 THEN <<>>
        ELSE IF SameMessage(items[k], item) THEN kept[k - 1]
             ELSE Append(kept[k - 1], items[k])
  IN kept[Len(items)]

AcknowledgeRewrites(item) ==
  /\ receipts' = receipts \cup {<<item.id, item.target>>}
  /\ outbox' = Tail(batch)
AcknowledgeEvents(item) ==
  /\ receipts' = IF item.id[1] = "event"
                 THEN receipts \cup {<<item.id, item.target>>} ELSE receipts
  /\ outbox' = IF item.id[1] = "event"
               THEN Without(outbox, item) ELSE outbox

(* Only events leave a receipt.                                            *)
Acknowledge(item) ==
  /\ receipts' = IF item.id[1] = "event"
                 THEN receipts \cup {<<item.id, item.target>>} ELSE receipts
  /\ outbox' = Without(outbox, item)

-----------------------------------------------------------------------------
(* A flush.  Who wants one waits for the lock; the poller may at any time. *)

Wants(s) == s = "poller" \/ pc[s] \in {"flush", "reflush"}

(* Where each goes after its flush.                                        *)
Onward(s) ==
  CASE s = "poller" -> "idle"
    [] s = "controller" -> IF pc[s] = "flush" THEN "queue" ELSE "accepted"
    [] OTHER -> "send"

Lock(s) ==
  /\ holder = Nobody /\ Wants(s)
  /\ holder' = s
  /\ batch' = SubSeq(outbox, 1, IF Len(outbox) < Limit THEN Len(outbox) ELSE Limit)
  /\ blocked' = {} /\ unacked' = FALSE
  /\ UNCHANGED <<raised, pending, outbox, receipts, up, outages, second, pc, left,
                 failed, shown, queuedAs, mishaps>>

NeverBlocked(item) == FALSE

(* A target that failed once waits for the next flush.                     *)
Blocked(item) == item.target \in blocked

PassOver ==
  /\ holder # Nobody /\ batch # <<>> /\ ~unacked
  /\ batch' = Tail(batch)
  /\ IF Blocked(Head(batch)) THEN UNCHANGED <<outbox, receipts>>
     ELSE WasDelivered(Head(batch).id, Head(batch).target) /\ Acknowledge(Head(batch))
  /\ UNCHANGED <<raised, pending, up, outages, second, pc, left, failed, holder, blocked,
                 unacked, shown, queuedAs, mishaps>>

Sendable ==
  /\ holder # Nobody /\ batch # <<>> /\ ~unacked
  /\ ~Blocked(Head(batch))
  /\ ~WasDelivered(Head(batch).id, Head(batch).target)

FlushSends ==
  /\ Sendable
  /\ Sent(Head(batch).text, Head(batch).target)
  /\ unacked' = TRUE
  /\ UNCHANGED <<raised, pending, outbox, receipts, up, outages, second, pc, left, failed,
                 holder, batch, blocked, queuedAs>>

FlushAcknowledges ==
  /\ unacked
  /\ Acknowledge(Head(batch))
  /\ unacked' = FALSE /\ batch' = Tail(batch)
  /\ UNCHANGED <<raised, pending, up, outages, second, pc, left, failed, holder, blocked,
                 shown, queuedAs, mishaps>>

FlushFails ==
  /\ Sendable
  /\ NotSent(Head(batch).text, Head(batch).target)
  /\ blocked' = blocked \cup {Head(batch).target}
  /\ batch' = Tail(batch)
  /\ UNCHANGED <<raised, pending, outbox, receipts, up, outages, second, pc, left, failed,
                 holder, unacked, queuedAs>>

Unlock ==
  /\ holder # Nobody /\ batch = <<>>
  /\ Go(holder, Onward(holder))
  /\ left' = [left EXCEPT ![holder] =
                 CASE Onward(holder) = "send" -> Order
                   [] Onward(holder) = "queue" -> Audience[Head(pending)]
                   [] OTHER -> <<>>]
  /\ holder' = Nobody
  /\ UNCHANGED <<raised, pending, outbox, receipts, up, outages, second, batch, blocked,
                 unacked, failed, shown, queuedAs, mishaps>>

-----------------------------------------------------------------------------
(* The controller's events.                                                *)

Raise ==
  /\ raised < Len(Audience) /\ pc["controller"] = "idle"
  /\ raised' = raised + 1
  /\ pending' = Append(pending, raised + 1)
  /\ Go("controller", "flush")
  /\ UNCHANGED <<outbox, receipts, up, outages, second, left, failed, flushing, shown,
                 queuedAs, mishaps>>

TakeUpMany ==
  /\ Len(pending) > 1 /\ pc["controller"] = "idle"
  /\ Go("controller", "flush")
  /\ UNCHANGED <<raised, pending, outbox, receipts, up, outages, second, left,
                 failed, flushing, shown, queuedAs, mishaps>>

(* The next tick takes up what an earlier one left.                        *)
TakeUp ==
  /\ pending # <<>> /\ pc["controller"] = "idle"
  /\ Go("controller", "flush")
  /\ UNCHANGED <<raised, pending, outbox, receipts, up, outages, second, left, failed,
                 flushing, shown, queuedAs, mishaps>>

QueueEvent ==
  /\ pc["controller"] = "queue"
  /\ LET event == Head(pending)
         target == Head(left["controller"])
     IN IF WasDelivered(EventId(event), target) THEN UNCHANGED outbox
        ELSE Queue(EventId(event), target, event)
  /\ left' = [left EXCEPT !["controller"] = Tail(@)]
  /\ IF Len(left["controller"]) = 1 THEN Go("controller", "reflush") ELSE UNCHANGED pc
  /\ UNCHANGED <<raised, pending, receipts, up, outages, second, failed, flushing, shown,
                 queuedAs, mishaps>>

Accepted ==
  /\ pc["controller"] = "accepted" /\ Go("controller", "idle")
  /\ pending' = Tail(pending)
  /\ UNCHANGED <<raised, outbox, receipts, up, outages, second, left, failed, flushing,
                 shown, queuedAs, mishaps>>

(* asyncio.timeout(10) cancels the notification wherever it is.            *)
TimeOut ==
  /\ pc["controller"] \in {"flush", "queue", "reflush"}
  /\ Mishap
  /\ Go("controller", "idle")
  /\ IF holder = "controller"
     THEN holder' = Nobody /\ batch' = <<>> /\ blocked' = {} /\ unacked' = FALSE
     ELSE UNCHANGED flushing
  /\ UNCHANGED <<raised, pending, outbox, receipts, up, outages, second, left, failed,
                 shown, queuedAs>>

-----------------------------------------------------------------------------
(* Other alerts.                                                           *)

Alert(a) ==
  /\ pc[a] = "idle" /\ Go(a, "flush")
  /\ UNCHANGED <<raised, pending, outbox, receipts, up, outages, second, left, failed,
                 flushing, shown, queuedAs, mishaps>>

SendAlert(a) ==
  /\ pc[a] = "send"
  /\ LET target == Head(left[a])
     IN \/ Sent(a, target) /\ UNCHANGED failed
        \/ NotSent(a, target) /\ failed' = [failed EXCEPT ![a] = @ \cup {target}]
  /\ left' = [left EXCEPT ![a] = Tail(@)]
  /\ IF Len(left[a]) = 1 THEN Go(a, "queue") ELSE UNCHANGED pc
  /\ UNCHANGED <<raised, pending, outbox, receipts, up, outages, second, flushing, queuedAs>>

(* An alert's id is the second in which it is queued.                      *)
QueueAlert(a) ==
  /\ pc[a] = "queue"
  /\ IF failed[a] = {}
     THEN Go(a, "done") /\ UNCHANGED <<outbox, failed, second, queuedAs>>
     ELSE \E t \in failed[a], now \in second..MaxSeconds :
            /\ second' = now
            /\ Queue(AlertId(now), t, a)
            /\ queuedAs' = [queuedAs EXCEPT ![<<a, t>>] = AlertId(now)]
            /\ failed' = [failed EXCEPT ![a] = @ \ {t}]
            /\ UNCHANGED pc
  /\ UNCHANGED <<raised, pending, receipts, up, outages, left, flushing, shown, mishaps>>

-----------------------------------------------------------------------------
Telegram(t) ==
  /\ up' = [up EXCEPT ![t] = ~@]
  /\ outages' = IF up[t] THEN outages + 1 ELSE outages
  /\ outages' <= MaxOutages
  /\ UNCHANGED <<raised, pending, outbox, receipts, second, pc, left, failed,
                 flushing, shown, queuedAs, mishaps>>

(* The files stay.                                                         *)
Crash ==
  /\ Mishap
  /\ pc' = [s \in Senders |-> IF pc[s] = "idle" \/ s \notin Alerts
                              THEN "idle" ELSE "done"]
  /\ failed' = [s \in Senders |-> {}]
  /\ holder' = Nobody /\ batch' = <<>> /\ blocked' = {} /\ unacked' = FALSE
  /\ UNCHANGED <<raised, pending, outbox, receipts, up, outages, second, left, shown, queuedAs>>

Flushing == PassOver \/ FlushSends \/ FlushAcknowledges \/ FlushFails \/ Unlock
Controller == TakeUp \/ Accepted \/ QueueEvent
Alerting(a) == SendAlert(a) \/ QueueAlert(a)

Next ==
  \/ Flushing \/ Raise \/ Controller \/ TimeOut
  \/ Crash
  \/ \E s \in Senders : Lock(s)
  \/ \E a \in Alerts : Alert(a) \/ Alerting(a)
  \/ \E t \in Targets : Telegram(t)

Spec == Init /\ [][Next]_vars

(* The lock of asyncio is first come, first served.                        *)
FairSpec ==
  /\ Spec
  /\ WF_vars(Flushing) /\ WF_vars(Controller)
  /\ \A s \in Senders : SF_vars(Lock(s))
  /\ \A a \in Alerts : WF_vars(Alerting(a))

-----------------------------------------------------------------------------
(* Properties.                                                             *)

For(n) == {Audience[n][k] : k \in DOMAIN Audience[n]}

(* At each target the events are first seen in the order they were raised, *)
(* whoever flushes, fails or starts again in between.                      *)
EventsInOrder ==
  \A m, n \in Events : \A t \in For(m) \cap For(n) :
    m < n /\ shown[<<n, t>>] > 0 => shown[<<m, t>>] > 0

(* What was put into the outbox stays there until Telegram has it: an      *)
(* alert may only give way to another queued for the target in its second. *)
QueuedIsKept ==
  /\ \A a \in Alerts, t \in Targets :
       queuedAs[<<a, t>>] # None /\ shown[<<a, t>>] = 0 =>
         \/ \E k \in DOMAIN outbox : outbox[k].text = a /\ outbox[k].target = t
         \/ \E b \in Alerts \ {a} : queuedAs[<<b, t>>] = queuedAs[<<a, t>>]
  /\ \A n \in 1..raised : \A t \in For(n) :
       \/ shown[<<n, t>>] > 0 \/ Queued(EventId(n), t)
       \/ \E k \in DOMAIN pending : pending[k] = n

(* Nothing is seen twice but for a crash, a timeout or an answer lost.     *)
CopiesAreMishaps ==
  \A m \in DOMAIN shown : shown[m] <= 1 + mishaps

(* docs/runbooks/operations.md:525: what could not be sent at once is kept.*)
AlertsAreNotLost ==
  \A a \in Alerts, t \in Targets :
    queuedAs[<<a, t>>] # None /\ shown[<<a, t>>] = 0 =>
      \E k \in DOMAIN outbox : outbox[k].text = a /\ outbox[k].target = t

(* What waits for a target that is away still counts towards the limit.    *)
AwayFor(t) == {k \in DOMAIN outbox : outbox[k].target # t /\ ~up[outbox[k].target]}
RoomFor(t) == Cardinality(AwayFor(t)) < Limit

(* A target that comes back gets every event, although another stays away, *)
(* as long as the messages for that one leave room in a flush.             *)
EventsArrive ==
  \A n \in Events : \A t \in For(n) :
    <>[](up[t] /\ RoomFor(t)) => [](raised >= n => <>(shown[<<n, t>>] > 0))

(* Whatever waits for the other target: not so.                            *)
EventsArriveAnyway ==
  \A n \in Events : \A t \in For(n) :
    <>[]up[t] => [](raised >= n => <>(shown[<<n, t>>] > 0))
=============================================================================
