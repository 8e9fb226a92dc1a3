----------------------------- MODULE Alerts_proofs -----------------------------
(* What the owner is told: by the bridge itself, through its outbox, and   *)
(* by the watchdog on the other host.                                      *)
EXTENDS AlertOutbox, ExternalWatchdog, SequenceTheorems, NaturalsInduction,
        WellFoundedInduction, TLAPS

-----------------------------------------------------------------------------
(* That events keep their order, that what is queued is kept, and that     *)
(* copies are mishaps only, for any events, alerts and targets.            *)

(* Induction over sets of numbers: the library's theorem takes an operator,*)
(* so it is done here with the least number that is not in the set.        *)
LEMMA LeastNumber ==
  ASSUME NEW T, T \subseteq Nat, T # {}
  PROVE  \E m \in T : \A k \in T : m <= k
<1>1. PICK m \in T : \A k \in T : <<k, m>> \notin OpToRel(<, Nat)
  BY WFMin, NatLessThanWellFounded, Zenon
<1>2. \A k \in T : ~(k < m)
  BY <1>1, Zenon DEF OpToRel
<1>3. QED BY <1>2

LEMMA AllNumbers ==
  ASSUME NEW T, 0 \in T, \A n \in Nat : n \in T => n + 1 \in T
  PROVE  Nat \subseteq T
<1> SUFFICES ASSUME Nat \ T # {} PROVE FALSE
  OBVIOUS
<1>1. PICK m \in Nat \ T : \A k \in Nat \ T : m <= k
  BY LeastNumber
<1>2. m # 0 /\ m - 1 \in Nat /\ m - 1 \notin Nat \ T
  BY <1>1
<1>3. QED BY <1>1, <1>2

-----------------------------------------------------------------------------
(* What Without keeps.  Its recursion has a solution:                      *)
Kept(items, item, f, k) ==
  IF k = 0 THEN <<>>
  ELSE IF SameMessage(items[k], item) THEN f[k - 1]
       ELSE Append(f[k - 1], items[k])

LEMMA KeptExists ==
  ASSUME NEW S, NEW items \in Seq(S), NEW item
  PROVE  \E f : /\ DOMAIN f = 0..Len(items)
                /\ \A k \in 0..Len(items) : f[k] = Kept(items, item, f, k)
                /\ Without(items, item) = f[Len(items)]
<1> DEFINE Solved == {n \in Nat : \E f : /\ DOMAIN f = 0..n
                                        /\ f = [k \in 0..n |-> Kept(items, item, f, k)]}
<1>1. 0 \in Solved
  <2> DEFINE f == [k \in 0..0 |-> <<>>]
  <2>1. DOMAIN f = 0..0 /\ f = [k \in 0..0 |-> Kept(items, item, f, k)]
    BY DEF Kept
  <2>2. QED BY <2>1
<1>2. ASSUME NEW n \in Nat, n \in Solved PROVE n + 1 \in Solved
  <2>1. PICK f : DOMAIN f = 0..n /\ f = [k \in 0..n |-> Kept(items, item, f, k)]
    BY <1>2
  <2> DEFINE g == [k \in 0..(n + 1) |->
                     IF k <= n THEN f[k] ELSE Kept(items, item, f, k)]
  <2>2. \A k \in 0..(n + 1) : k # 0 => k - 1 \in 0..n /\ g[k - 1] = f[k - 1]
    OBVIOUS
  <2>3. \A k \in 0..(n + 1) : Kept(items, item, g, k) = Kept(items, item, f, k)
    BY <2>2 DEF Kept
  <2>4. \A k \in 0..(n + 1) : g[k] = Kept(items, item, f, k)
    BY <2>1
  <2>5. g = [k \in 0..(n + 1) |-> Kept(items, item, g, k)]
    BY <2>3, <2>4
  <2> HIDE DEF g
  <2>6. DOMAIN g = 0..(n + 1)
    BY DEF g
  <2>7. QED BY <2>5, <2>6
<1> HIDE DEF Solved
<1>3. Len(items) \in Solved
  BY <1>1, <1>2, AllNumbers, LenProperties
<1>4. PICK f : /\ DOMAIN f = 0..Len(items)
               /\ f = [k \in 0..Len(items) |-> Kept(items, item, f, k)]
  BY <1>3 DEF Solved
<1> DEFINE kept == CHOOSE g : g = [k \in 0..Len(items) |->
                     IF k = 0 THEN <<>>
                     ELSE IF SameMessage(items[k], item) THEN g[k - 1]
                          ELSE Append(g[k - 1], items[k])]
<1>5. f = [k \in 0..Len(items) |->
             IF k = 0 THEN <<>>
             ELSE IF SameMessage(items[k], item) THEN f[k - 1]
                  ELSE Append(f[k - 1], items[k])]
  BY <1>4 DEF Kept
<1>6. kept = [k \in 0..Len(items) |->
                IF k = 0 THEN <<>>
                ELSE IF SameMessage(items[k], item) THEN kept[k - 1]
                     ELSE Append(kept[k - 1], items[k])]
  BY <1>5
<1>7. Without(items, item) = kept[Len(items)]
  BY DEF Without
<1> HIDE DEF kept
<1>8. DOMAIN kept = 0..Len(items)
      /\ \A k \in 0..Len(items) : kept[k] = Kept(items, item, kept, k)
  BY <1>6 DEF Kept
<1>9. QED BY <1>7, <1>8

(* It keeps exactly the other items, in their order.                       *)
Embeds(h, t, items, item, n) ==
  /\ h \in [1..Len(t) -> 1..n]
  /\ \A i \in 1..Len(t) : t[i] = items[h[i]] /\ ~SameMessage(t[i], item)
  /\ \A i, j \in 1..Len(t) : i < j => h[i] < h[j]
  /\ \A k \in 1..n : ~SameMessage(items[k], item) => \E i \in 1..Len(t) : h[i] = k

(* One more item kept.                                                     *)
Lengthens(g, h, m, n) ==
  /\ g \in [1..(m + 1) -> 1..(n + 1)] /\ g[m + 1] = n + 1
  /\ \A i \in 1..m : g[i] = h[i] /\ g[i] \in 1..n

LEMMA OneMore ==
  ASSUME NEW m \in Nat, NEW n \in Nat, NEW h \in [1..m -> 1..n]
  PROVE  \E g : Lengthens(g, h, m, n)
<1> DEFINE g == [i \in 1..(m + 1) |-> IF i = m + 1 THEN n + 1 ELSE h[i]]
<1>1. \A i \in 1..m : i \in 1..(m + 1) /\ i # m + 1 /\ h[i] \in 1..n
  OBVIOUS
<1>2. m + 1 \in 1..(m + 1) /\ n + 1 \in 1..(n + 1)
  OBVIOUS
<1>3. \A i \in 1..(m + 1) : i = m + 1 \/ i \in 1..m
  OBVIOUS
<1>4. \A k \in 1..n : k \in 1..(n + 1)
  OBVIOUS
<1>5. g[m + 1] = n + 1 /\ \A i \in 1..m : g[i] = h[i] /\ g[i] \in 1..n
  BY <1>1, <1>2
<1>6. g \in [1..(m + 1) -> 1..(n + 1)]
  <2>1. \A i \in 1..(m + 1) :
          (IF i = m + 1 THEN n + 1 ELSE h[i]) \in 1..(n + 1)
    BY <1>1, <1>2, <1>3, <1>4
  <2>2. QED BY <2>1
<1>7. Lengthens(g, h, m, n)
  BY <1>5, <1>6 DEF Lengthens
<1>8. QED BY <1>7

LEMMA WithoutKeeps ==
  ASSUME NEW S, NEW items \in Seq(S), NEW item
  PROVE  /\ Without(items, item) \in Seq(S)
         /\ \E h : Embeds(h, Without(items, item), items, item, Len(items))
<1>1. PICK f : /\ \A k \in 0..Len(items) : f[k] = Kept(items, item, f, k)
               /\ Without(items, item) = f[Len(items)]
  BY KeptExists
<1> DEFINE Good == {n \in Nat : n <= Len(items) =>
                      f[n] \in Seq(S) /\ \E h : Embeds(h, f[n], items, item, n)}
<1>2. 0 \in Good
  <2>1. f[0] = <<>>
    BY <1>1, LenProperties DEF Kept
  <2>2. ASSUME NEW t, NEW h, Len(t) = 0, h \in [{} -> {}]
        PROVE  Embeds(h, t, items, item, 0)
    <3>1. 1..Len(t) = {} /\ 1..0 = {}
      BY <2>2
    <3>2. h \in [1..Len(t) -> 1..0]
      BY <2>2, <3>1
    <3>3. QED BY <3>1, <3>2, Zenon DEF Embeds
  <2>3. Len(f[0]) = 0 /\ f[0] \in Seq(S) /\ \E h : h \in [{} -> {}]
    <3>1. [i \in {} |-> 0] \in [{} -> {}]
      OBVIOUS
    <3>2. QED BY <2>1, <3>1, EmptySeq
  <2>4. QED BY <2>2, <2>3
<1>3. ASSUME NEW n \in Nat, n \in Good PROVE n + 1 \in Good
  <2> SUFFICES ASSUME n + 1 <= Len(items)
               PROVE  /\ f[n + 1] \in Seq(S)
                      /\ \E h : Embeds(h, f[n + 1], items, item, n + 1)
    OBVIOUS
  <2>1. f[n] \in Seq(S) /\ n + 1 \in 1..Len(items) /\ items[n + 1] \in S
    BY <1>3, LenProperties, ElementOfSeq
  <2>2. PICK h : Embeds(h, f[n], items, item, n)
    BY <1>3, <2>1
  <2>3. f[n + 1] = IF SameMessage(items[n + 1], item) THEN f[n]
                   ELSE Append(f[n], items[n + 1])
    <3>1. n + 1 \in 0..Len(items) /\ n + 1 # 0 /\ (n + 1) - 1 = n
      BY <2>1
    <3>2. QED BY <1>1, <3>1 DEF Kept
  <2> DEFINE m == Len(f[n])
  <2>4. m \in Nat
    BY <2>1, LenProperties
  <2>5. CASE SameMessage(items[n + 1], item)
    <3>1. Embeds(h, f[n], items, item, n + 1)
      BY <2>2, <2>4, <2>5 DEF Embeds
    <3>2. QED BY <2>1, <2>3, <2>5, <3>1
  <2>6. CASE ~SameMessage(items[n + 1], item)
    <3> DEFINE t == Append(f[n], items[n + 1])
    <3>1. /\ t \in Seq(S) /\ Len(t) = m + 1
          /\ \A i \in 1..m : t[i] = f[n][i]
          /\ t[m + 1] = items[n + 1]
      BY <2>1, AppendProperties
    <3>2. h \in [1..m -> 1..n]
      BY <2>2 DEF Embeds
    <3> HIDE DEF t, m
    <3>g. PICK g : Lengthens(g, h, m, n)
      BY <2>4, <3>2, OneMore, Zenon
    <3>3. /\ g \in [1..(m + 1) -> 1..(n + 1)] /\ g[m + 1] = n + 1
          /\ \A i \in 1..m : g[i] = h[i] /\ g[i] \in 1..n
      BY <3>g DEF Lengthens
    <3>4. \A i \in 1..(m + 1) : t[i] = items[g[i]] /\ ~SameMessage(t[i], item)
      <4> SUFFICES ASSUME NEW i \in 1..(m + 1)
                   PROVE  t[i] = items[g[i]] /\ ~SameMessage(t[i], item)
        OBVIOUS
      <4>1. CASE i = m + 1
        BY <2>6, <3>1, <3>3, <4>1
      <4>2. CASE i \in 1..m
        BY <2>2, <3>1, <3>3, <4>2 DEF Embeds, m
      <4>3. QED BY <2>4, <4>1, <4>2
    <3>5. \A i, j \in 1..(m + 1) : i < j => g[i] < g[j]
      <4> SUFFICES ASSUME NEW i \in 1..(m + 1), NEW j \in 1..(m + 1), i < j
                   PROVE  g[i] < g[j]
        OBVIOUS
      <4>1. i \in 1..m
        BY <2>4
      <4>2. CASE j = m + 1
        BY <2>4, <3>3, <4>1, <4>2
      <4>3. CASE j \in 1..m
        BY <2>2, <3>3, <4>1, <4>3 DEF Embeds, m
      <4>4. QED BY <2>4, <4>2, <4>3
    <3>6. \A k \in 1..(n + 1) : ~SameMessage(items[k], item) =>
            \E i \in 1..(m + 1) : g[i] = k
      <4> SUFFICES ASSUME NEW k \in 1..(n + 1), ~SameMessage(items[k], item)
                   PROVE  \E i \in 1..(m + 1) : g[i] = k
        OBVIOUS
      <4>1. CASE k = n + 1
        BY <2>4, <3>3, <4>1
      <4>2. CASE k \in 1..n
        <5>1. PICK i \in 1..m : h[i] = k
          BY <2>2, <4>2 DEF Embeds, m
        <5>2. QED BY <2>4, <3>3, <5>1
      <4>3. QED BY <4>1, <4>2
    <3>7. Embeds(g, t, items, item, n + 1)
      BY <3>1, <3>3, <3>4, <3>5, <3>6 DEF Embeds
    <3>8. f[n + 1] = t
      BY <2>3, <2>6 DEF t
    <3>9. QED BY <3>1, <3>7, <3>8
  <2>7. QED BY <2>5, <2>6
<1> HIDE DEF Good
<1>4. Len(items) \in Good /\ Len(items) \in Nat
  BY <1>2, <1>3, AllNumbers, LenProperties
<1>5. QED BY <1>1, <1>4 DEF Good

-----------------------------------------------------------------------------
(* The inductive invariant.                                                *)

Texts == Events \cup Alerts
Ids == {EventId(n) : n \in Events} \cup {AlertId(now) : now \in Nat}
Message == [id : Ids, target : Targets, text : Texts]

Typed ==
  /\ raised \in 0..Len(Audience)
  /\ pending \in Seq(Nat)
  /\ outbox \in Seq(Message) /\ batch \in Seq(Message)
  /\ second \in Nat /\ mishaps \in Nat
  /\ pc \in [Senders -> {"idle", "flush", "queue", "reflush", "accepted",
                         "send", "done"}]
  /\ left \in [Senders -> Seq(Targets)]
  /\ failed \in [Senders -> SUBSET Targets]
  /\ holder \in Senders \cup {Nobody}
  /\ unacked \in BOOLEAN
  /\ shown \in [Texts \X Targets -> Nat]
  /\ queuedAs \in [Alerts \X Targets -> Ids \cup {None}]

(* The events that were accepted, and are no longer pending.               *)
Done == raised - Len(pending)
Backlog ==
  /\ Len(pending) <= raised
  /\ \A k \in 1..Len(pending) : pending[k] = Done + k

(* Who has the lock is where it flushes; nobody's flush is empty.          *)
Places ==
  /\ pc["poller"] = "idle"
  /\ pc["controller"] \in {"idle", "flush", "queue", "reflush", "accepted"}
  /\ pc["controller"] # "idle" => pending # <<>>
  /\ \A a \in Alerts : pc[a] \in {"idle", "flush", "send", "queue", "done"}
  /\ holder = "controller" => pc["controller"] \in {"flush", "reflush"}
  /\ holder \in Alerts => pc[holder] = "flush"
  /\ holder = Nobody => batch = <<>> /\ ~unacked
  /\ unacked => batch # <<>>

Seen(n, t) == shown[<<n, t>>] > 0
Served(n, t) == Seen(n, t) \/ Queued(EventId(n), t)

(* Accepted events are seen or queued; so is the one being accepted, as    *)
(* far as the controller has come.                                         *)
AcceptedAreServed ==
  \A n \in 1..Done : \A t \in For(n) : Served(n, t)
BeingServed ==
  /\ pc["controller"] = "queue" =>
       /\ left["controller"] # <<>>
       /\ \A t \in For(Done + 1) :
            \/ Served(Done + 1, t)
            \/ \E k \in 1..Len(left["controller"]) : left["controller"][k] = t
  /\ pc["controller"] \in {"reflush", "accepted"} =>
       \A t \in For(Done + 1) : Served(Done + 1, t)

(* An item is of an event that was taken up, or of an alert.               *)
OfEvent(i, n) == i.id = EventId(n) /\ i.text = n
OfAlert(i) ==
  /\ i.text \in Alerts /\ i.id = queuedAs[<<i.text, i.target>>]
  /\ \E now \in Nat : i.id = AlertId(now)
Proper(i) == OfAlert(i) \/ \E n \in 1..raised : n <= Done + 1 /\ OfEvent(i, n)
ItemsAreProper ==
  /\ \A k \in 1..Len(outbox) : Proper(outbox[k])
  /\ \A k \in 1..Len(batch) : Proper(batch[k])

(* No message is in the outbox twice, and what a flush has still to serve  *)
(* is in it.                                                               *)
Distinct(s) ==
  \A j, k \in 1..Len(s) : SameMessage(s[j], s[k]) => j = k
BatchIsQueued ==
  /\ Distinct(outbox) /\ Distinct(batch)
  /\ \A k \in 1..Len(batch) : \E j \in 1..Len(outbox) : outbox[j] = batch[k]

(* An event's predecessors at the target were seen or stand before it.     *)
Before(s, k, m, t) ==
  \E j \in 1..(k - 1) : s[j].id = EventId(m) /\ s[j].target = t
OutboxInOrder ==
  \A k \in 1..Len(outbox) : \A n \in Events : \A m \in 1..(n - 1) :
    LET t == outbox[k].target
    IN outbox[k].id = EventId(n) /\ t \in For(m) =>
         Seen(m, t) \/ Before(outbox, k, m, t)
BatchInOrder ==
  \A k \in 1..Len(batch) : \A n \in Events : \A m \in 1..(n - 1) :
    LET t == batch[k].target
    IN batch[k].id = EventId(n) /\ t \in For(m) =>
         Seen(m, t) \/ t \in blocked \/ Before(batch, k, m, t)

(* Receipts and sent heads were seen.                                      *)
ReceiptsAreSeen ==
  \A r \in receipts : \E n \in Events, t \in Targets :
    r = <<EventId(n), t>> /\ Seen(n, t)
Unanswered(x, t) == unacked /\ batch[1].text = x /\ batch[1].target = t
HeadIsSeen ==
  unacked => Seen(batch[1].text, batch[1].target)

(* Each event was seen once for each mishap, and once if Telegram's answer *)
(* came and the item is gone or going.                                     *)
EventCopies ==
  \A n \in Events, t \in Targets :
    /\ shown[<<n, t>>] <= 1 + mishaps
    /\ ~WasDelivered(EventId(n), t) /\ ~Unanswered(n, t) =>
         shown[<<n, t>>] <= mishaps

(* Each alert in turn is to be sent, failed, queued once, or over.         *)
ToSend(a, t) ==
  \/ pc[a] \in {"idle", "flush"}
  \/ pc[a] = "send" /\ \E k \in 1..Len(left[a]) : left[a][k] = t
HasItem(a, t) ==
  \E k \in 1..Len(outbox) : outbox[k].text = a /\ outbox[k].target = t
AlertStages ==
  \A a \in Alerts :
    /\ pc[a] = "send" =>
         /\ left[a] # <<>>
         /\ \A j, k \in 1..Len(left[a]) : left[a][j] = left[a][k] => j = k
    /\ failed[a] # {} => pc[a] \in {"send", "queue"}
    /\ \A t \in Targets :
         /\ ToSend(a, t) => shown[<<a, t>>] = 0 /\ t \notin failed[a]
                            /\ queuedAs[<<a, t>>] = None
         /\ t \in failed[a] => queuedAs[<<a, t>>] = None
AlertCopies ==
  \A a \in Alerts, t \in Targets :
    /\ shown[<<a, t>>] <= 1 + mishaps
    /\ t \in failed[a] => shown[<<a, t>>] <= mishaps
    /\ HasItem(a, t) /\ ~Unanswered(a, t) => shown[<<a, t>>] <= mishaps

(* What was queued for an alert is there, seen, or shares its id.          *)
AlertsAreKept ==
  \A a \in Alerts, t \in Targets :
    queuedAs[<<a, t>>] # None /\ shown[<<a, t>>] = 0 =>
      \/ HasItem(a, t)
      \/ \E b \in Alerts \ {a} : queuedAs[<<b, t>>] = queuedAs[<<a, t>>]

IInv ==
  /\ Typed /\ Backlog /\ Places
  /\ AcceptedAreServed /\ BeingServed
  /\ ItemsAreProper /\ BatchIsQueued
  /\ OutboxInOrder /\ BatchInOrder /\ EventsInOrder
  /\ ReceiptsAreSeen /\ HeadIsSeen
  /\ EventCopies /\ AlertStages /\ AlertCopies /\ AlertsAreKept

-----------------------------------------------------------------------------
(* What the constants are.                                                 *)
LEMMA Constants ==
  /\ Len(Audience) \in Nat /\ Events = 1..Len(Audience)
  /\ Order \in Seq(Targets) /\ Len(Order) \in Nat /\ Order # <<>>
  /\ \A j, k \in 1..Len(Order) : Order[j] = Order[k] => j = k
  /\ \A n \in Events : /\ Audience[n] \in Seq(Targets)
                       /\ Len(Audience[n]) \in Nat /\ Audience[n] # <<>>
                       /\ For(n) = {Audience[n][k] : k \in 1..Len(Audience[n])}
                       /\ For(n) \subseteq Targets
  /\ Alerts \cap Events = {}
  /\ Alerts \cap {"controller", "poller", "nobody"} = {}
<1>1. /\ Audience \in Seq(Seq(Targets) \ {<<>>}) /\ Order \in Seq(Targets) \ {<<>>}
      /\ Alerts \cap {"controller", "poller", "nobody"} = {}
      /\ Alerts \cap DOMAIN Audience = {}
  BY OutboxAssumption DEF Targets
<1>2. Len(Audience) \in Nat /\ Events = 1..Len(Audience)
  BY <1>1, LenProperties DEF Events
<1>3. Len(Order) \in Nat /\ DOMAIN Order = 1..Len(Order)
  BY <1>1, LenProperties
<1>4. ASSUME NEW n \in Events
      PROVE  /\ Audience[n] \in Seq(Targets) /\ Len(Audience[n]) \in Nat
             /\ Audience[n] # <<>>
             /\ For(n) = {Audience[n][k] : k \in 1..Len(Audience[n])}
             /\ For(n) \subseteq Targets
  <2>1. Audience[n] \in Seq(Targets) \ {<<>>}
    BY <1>1, <1>2, ElementOfSeq
  <2>2. Len(Audience[n]) \in Nat /\ DOMAIN Audience[n] = 1..Len(Audience[n])
    BY <2>1, LenProperties
  <2>3. \A k \in 1..Len(Audience[n]) : Audience[n][k] \in Targets
    BY <2>1, ElementOfSeq
  <2>4. QED BY <2>1, <2>2, <2>3 DEF For
<1>5. \A j, k \in 1..Len(Order) : Order[j] = Order[k] => j = k
  BY <1>3, OutboxAssumption
<1>6. QED BY <1>1, <1>2, <1>3, <1>4, <1>5 DEF Events

LEMMA Numbers ==
  /\ \A m, n \in Nat : EventId(m) = EventId(n) => m = n
  /\ \A n, now \in Nat : EventId(n) # AlertId(now)
  /\ \A n \in Nat : EventId(n)[1] = "event" /\ EventId(n) # None
  /\ \A now \in Nat : AlertId(now)[1] # "event" /\ AlertId(now) # None
BY DEF EventId, AlertId, None

(* A sequence without its head, and with an item more.                     *)
LEMMA HeadAndTail ==
  ASSUME NEW S, NEW s \in Seq(S), s # <<>>
  PROVE  /\ Head(s) = s[1] /\ s[1] \in S
         /\ Len(s) \in Nat \ {0}
         /\ Tail(s) \in Seq(S) /\ Len(Tail(s)) = Len(s) - 1
         /\ \A k \in 1..Len(Tail(s)) : k + 1 \in 1..Len(s) /\ Tail(s)[k] = s[k + 1]
         /\ Tail(s) = <<>> <=> Len(s) = 1
<1>1. Len(s) \in Nat \ {0}
  BY EmptySeq, LenProperties
<1>2. Head(s) = s[1] /\ s[1] \in S /\ Tail(s) \in Seq(S) /\ Len(Tail(s)) = Len(s) - 1
      /\ \A k \in 1..Len(Tail(s)) : Tail(s)[k] = s[k + 1]
  BY <1>1, HeadTailProperties, ElementOfSeq, LenProperties
<1>3. Tail(s) = <<>> <=> Len(Tail(s)) = 0
  BY <1>2, EmptySeq
<1>4. QED BY <1>1, <1>2, <1>3

(* What Telegram shows is counted once.                                    *)
LEMMA ShowCounts ==
  ASSUME Typed, NEW x \in Texts, NEW t \in Targets, Show(x, t)
  PROVE  /\ shown' \in [Texts \X Targets -> Nat]
         /\ shown'[<<x, t>>] = shown[<<x, t>>] + 1
         /\ shown[<<x, t>>] \in Nat
         /\ \A y \in Texts, u \in Targets :
              <<y, u>> # <<x, t>> => shown'[<<y, u>>] = shown[<<y, u>>]
         /\ \A y \in Texts, u \in Targets : shown'[<<y, u>>] >= shown[<<y, u>>]
         /\ \A y \in Texts, u \in Targets : shown[<<y, u>>] \in Nat
<1> DEFINE count == shown
<1>1. count \in [Texts \X Targets -> Nat]
  BY DEF Typed
<1>2. shown' = [count EXCEPT ![<<x, t>>] = @ + 1]
  BY DEF Show
<1> HIDE DEF count
<1>3. count[<<x, t>>] \in Nat
  BY <1>1
<1>4. shown' \in [Texts \X Targets -> Nat]
  BY <1>1, <1>2, <1>3
<1>5. shown'[<<x, t>>] = count[<<x, t>>] + 1
  BY <1>1, <1>2
<1>6. ASSUME NEW y \in Texts, NEW u \in Targets
      PROVE  /\ <<y, u>> # <<x, t>> => shown'[<<y, u>>] = count[<<y, u>>]
             /\ shown'[<<y, u>>] >= count[<<y, u>>]
             /\ count[<<y, u>>] \in Nat
  <2>1. <<y, u>> # <<x, t>> => shown'[<<y, u>>] = count[<<y, u>>]
    BY <1>1, <1>2
  <2>2. count[<<y, u>>] \in Nat
    BY <1>1
  <2>3. CASE <<y, u>> = <<x, t>>
    BY <1>5, <2>2, <2>3
  <2>4. CASE <<y, u>> # <<x, t>>
    BY <2>1, <2>2, <2>4
  <2>5. QED BY <2>1, <2>2, <2>3, <2>4
<1>7. QED BY <1>4, <1>5, <1>6 DEF count

THEOREM InitIInv == Init => IInv
<1> SUFFICES ASSUME Init PROVE IInv
  OBVIOUS
<1>0. outbox = <<>> /\ batch = <<>> /\ pending = <<>> /\ raised = 0 /\ receipts = {}
      /\ Len(outbox) = 0 /\ Len(batch) = 0 /\ Len(pending) = 0
  BY EmptySeq DEF Init
<1>1. Typed
  <2>1. /\ raised \in 0..Len(Audience) /\ pending \in Seq(Nat) /\ outbox \in Seq(Message)
        /\ batch \in Seq(Message) /\ second \in Nat /\ mishaps \in Nat
    BY <1>0, EmptySeq, Constants DEF Init
  <2>2. pc \in [Senders -> {"idle", "flush", "queue", "reflush", "accepted",
                            "send", "done"}]
        /\ failed \in [Senders -> SUBSET Targets]
        /\ holder \in Senders \cup {Nobody} /\ unacked \in BOOLEAN
    BY DEF Init
  <2>3. left \in [Senders -> Seq(Targets)]
    BY EmptySeq DEF Init
  <2>4. shown \in [Texts \X Targets -> Nat]
    BY DEF Init, Texts
  <2>5. queuedAs \in [Alerts \X Targets -> Ids \cup {None}]
    BY DEF Init
  <2>6. QED BY <2>1, <2>2, <2>3, <2>4, <2>5 DEF Typed
<1>2. Backlog
  BY <1>0 DEF Backlog, Done
<1>3. Places
  <2>1. pc["poller"] = "idle" /\ pc["controller"] = "idle" /\ \A a \in Alerts : pc[a] = "idle"
    BY DEF Init, Senders
  <2>2. holder = Nobody /\ ~unacked /\ holder # "controller" /\ holder \notin Alerts
    BY Constants DEF Init, Nobody
  <2>3. QED BY <1>0, <2>1, <2>2 DEF Places
<1>4. AcceptedAreServed /\ BeingServed
  <2>1. pc["controller"] = "idle"
    BY DEF Init, Senders
  <2>2. QED BY <1>0, <2>1 DEF AcceptedAreServed, BeingServed, Done
<1>5. ItemsAreProper /\ BatchIsQueued /\ OutboxInOrder /\ BatchInOrder /\ ReceiptsAreSeen
  BY <1>0 DEF ItemsAreProper, BatchIsQueued, Distinct, OutboxInOrder, BatchInOrder,
              ReceiptsAreSeen
<1>6. \A x \in Texts, t \in Targets : shown[<<x, t>>] = 0
  BY DEF Init, Texts
<1>7. EventsInOrder /\ EventCopies
  <2>1. \A n \in Events : n \in Texts /\ For(n) \subseteq Targets
    BY Constants DEF Texts
  <2>2. mishaps = 0
    BY DEF Init
  <2>3. QED BY <1>6, <2>1, <2>2 DEF EventsInOrder, EventCopies
<1>8. HeadIsSeen
  BY DEF Init, HeadIsSeen
<1>9. \A a \in Alerts : pc[a] = "idle" /\ failed[a] = {} /\ a \in Texts
  BY DEF Init, Senders, Texts
<1>10. \A a \in Alerts, t \in Targets : queuedAs[<<a, t>>] = None
  BY DEF Init
<1>11. AlertStages /\ AlertsAreKept
  BY <1>6, <1>9, <1>10 DEF AlertStages, AlertsAreKept, ToSend
<1>12. AlertCopies
  <2>1. 0 <= 1 + mishaps /\ 0 <= mishaps
    BY DEF Init
  <2>2. \A a \in Alerts, t \in Targets : shown[<<a, t>>] = 0
    BY <1>6, <1>9
  <2>3. \A a \in Alerts, t \in Targets :
          shown[<<a, t>>] <= 1 + mishaps /\ shown[<<a, t>>] <= mishaps
    BY <2>1, <2>2, Zenon
  <2>4. QED BY <2>3, Zenon DEF AlertCopies
<1>13. QED
  BY <1>1, <1>2, <1>3, <1>4, <1>5, <1>7, <1>8, <1>11, <1>12 DEF IInv

-----------------------------------------------------------------------------
(* A message with all its items gone: what is left, and in which order.    *)
LEMMA Dropping ==
  ASSUME Typed, Distinct(outbox), NEW item \in Message,
         outbox' = Without(outbox, item)
  PROVE  /\ outbox' \in Seq(Message) /\ Distinct(outbox)'
         /\ \A k \in 1..Len(outbox') : \E j \in 1..Len(outbox) :
              /\ outbox'[k] = outbox[j] /\ ~SameMessage(outbox[j], item)
              /\ \A i \in 1..(j - 1) :
                   \/ SameMessage(outbox[i], item)
                   \/ \E l \in 1..(k - 1) : outbox'[l] = outbox[i]
         /\ \A j \in 1..Len(outbox) :
              \/ SameMessage(outbox[j], item)
              \/ \E k \in 1..Len(outbox') : outbox'[k] = outbox[j]
<1>1. outbox \in Seq(Message) /\ Len(outbox) \in Nat
  BY LenProperties DEF Typed
<1>2. outbox' \in Seq(Message) /\ Len(outbox') \in Nat
  BY <1>1, WithoutKeeps, LenProperties
<1>3. PICK h : Embeds(h, outbox', outbox, item, Len(outbox))
  BY <1>1, WithoutKeeps
<1>4. \A k \in 1..Len(outbox') :
        h[k] \in 1..Len(outbox) /\ outbox'[k] = outbox[h[k]]
        /\ ~SameMessage(outbox[h[k]], item)
  BY <1>3 DEF Embeds
<1>5. \A j \in 1..Len(outbox) :
        SameMessage(outbox[j], item) \/ \E k \in 1..Len(outbox') : h[k] = j
  BY <1>3 DEF Embeds
<1>6. \A k, l \in 1..Len(outbox') : k < l => h[k] < h[l]
  BY <1>3 DEF Embeds
<1>7. ASSUME NEW k \in 1..Len(outbox'), NEW l \in 1..Len(outbox'),
             SameMessage(outbox'[k], outbox'[l])
      PROVE  k = l
  <2>1. h[k] = h[l]
    BY <1>4, <1>7 DEF Distinct
  <2>2. h[k] \in Nat /\ k \in Nat /\ l \in Nat
    BY <1>1, <1>2, <1>4
  <2>3. ~(k < l) /\ ~(l < k)
    BY <1>6, <2>1, <2>2
  <2>4. QED BY <2>2, <2>3
<1>8. ASSUME NEW k \in 1..Len(outbox'), NEW i \in 1..(h[k] - 1)
      PROVE  \/ SameMessage(outbox[i], item)
             \/ \E l \in 1..(k - 1) : outbox'[l] = outbox[i]
  <2>1. i \in 1..Len(outbox) /\ h[k] \in Nat /\ i < h[k]
    BY <1>1, <1>4
  <2> SUFFICES ASSUME ~SameMessage(outbox[i], item)
               PROVE  \E l \in 1..(k - 1) : outbox'[l] = outbox[i]
    OBVIOUS
  <2>2. PICK l \in 1..Len(outbox') : h[l] = i
    BY <1>5, <2>1
  <2>3. ~(k < l) /\ k # l
    BY <1>6, <2>1, <2>2
  <2>4. l \in 1..(k - 1)
    BY <1>2, <2>3
  <2>5. QED BY <1>4, <2>2, <2>4
<1>9. Distinct(outbox)'
  BY <1>7 DEF Distinct
<1>10. QED
  <2>1. \A j \in 1..Len(outbox) :
          \/ SameMessage(outbox[j], item)
          \/ \E k \in 1..Len(outbox') : outbox'[k] = outbox[j]
    BY <1>4, <1>5
  <2>2. QED BY <1>2, <1>4, <1>8, <1>9, <2>1

(* An item more at the end, if its message is not there.                   *)
LEMMA Adding ==
  ASSUME Typed, Distinct(outbox), NEW id \in Ids, NEW t \in Targets, NEW x \in Texts,
         ~Queued(id, t), outbox' = Append(outbox, Item(id, t, x))
  PROVE  /\ outbox' \in Seq(Message) /\ Distinct(outbox)'
         /\ Len(outbox) \in Nat /\ Len(outbox') = Len(outbox) + 1
         /\ \A k \in 1..Len(outbox) : outbox'[k] = outbox[k]
         /\ outbox'[Len(outbox) + 1] = Item(id, t, x)
<1>1. outbox \in Seq(Message) /\ Item(id, t, x) \in Message
  BY DEF Typed, Item, Message
<1>2. Len(outbox) \in Nat /\ DOMAIN outbox = 1..Len(outbox)
  BY <1>1, LenProperties
<1>3. /\ outbox' \in Seq(Message) /\ Len(outbox') = Len(outbox) + 1
      /\ \A k \in 1..Len(outbox) : outbox'[k] = outbox[k]
      /\ outbox'[Len(outbox) + 1] = Item(id, t, x)
  BY <1>1, <1>2, AppendProperties
<1>4. \A k \in 1..Len(outbox) : ~SameMessage(outbox[k], Item(id, t, x))
                               /\ ~SameMessage(Item(id, t, x), outbox[k])
  BY <1>2 DEF Queued, SameMessage, Item
<1>5. ASSUME NEW j \in 1..Len(outbox'), NEW k \in 1..Len(outbox'),
             SameMessage(outbox'[j], outbox'[k])
      PROVE  j = k
  <2>1. /\ j \in 1..Len(outbox) \/ j = Len(outbox) + 1
        /\ k \in 1..Len(outbox) \/ k = Len(outbox) + 1
    BY <1>2, <1>3
  <2>2. CASE j \in 1..Len(outbox) /\ k \in 1..Len(outbox)
    BY <1>3, <1>5, <2>2 DEF Distinct
  <2>3. CASE j = Len(outbox) + 1 /\ k = Len(outbox) + 1
    BY <2>3
  <2>4. CASE j = Len(outbox) + 1 /\ k \in 1..Len(outbox)
    BY <1>3, <1>4, <1>5, <2>4
  <2>5. CASE j \in 1..Len(outbox) /\ k = Len(outbox) + 1
    BY <1>3, <1>4, <1>5, <2>5
  <2>6. QED BY <2>1, <2>2, <2>3, <2>4, <2>5
<1>6. QED BY <1>2, <1>3, <1>5 DEF Distinct

(* A message is queued where an item of its id and target stands.          *)
LEMMA QueuedIs ==
  ASSUME Typed, NEW id, NEW t
  PROVE  Queued(id, t) <=> \E k \in 1..Len(outbox) : outbox[k].id = id
                                                     /\ outbox[k].target = t
<1>1. DOMAIN outbox = 1..Len(outbox)
  BY LenProperties DEF Typed
<1>2. QED BY <1>1 DEF Queued, SameMessage, Item

LEMMA QueuedIsNext ==
  ASSUME outbox' \in Seq(Message), NEW id, NEW t
  PROVE  Queued(id, t)' <=> \E k \in 1..Len(outbox') : outbox'[k].id = id
                                                      /\ outbox'[k].target = t
<1>1. DOMAIN outbox' = 1..Len(outbox')
  BY LenProperties
<1>2. QED BY <1>1 DEF Queued, SameMessage, Item

(* The head of a flush's batch.                                            *)
LEMMA HeadOfBatch ==
  ASSUME Typed, batch # <<>>
  PROVE  /\ Head(batch) = batch[1] /\ batch[1] \in Message
         /\ batch[1].text \in Texts /\ batch[1].target \in Targets
         /\ batch[1].id \in Ids
         /\ Len(batch) \in Nat \ {0} /\ 1 \in 1..Len(batch)
         /\ Tail(batch) \in Seq(Message) /\ Len(Tail(batch)) = Len(batch) - 1
         /\ \A k \in 1..Len(Tail(batch)) :
              k + 1 \in 1..Len(batch) /\ Tail(batch)[k] = batch[k + 1]
<1>1. batch \in Seq(Message)
  BY DEF Typed
<1>2. /\ Head(batch) = batch[1] /\ batch[1] \in Message
      /\ Len(batch) \in Nat \ {0}
      /\ Tail(batch) \in Seq(Message) /\ Len(Tail(batch)) = Len(batch) - 1
      /\ \A k \in 1..Len(Tail(batch)) :
           k + 1 \in 1..Len(batch) /\ Tail(batch)[k] = batch[k + 1]
  BY <1>1, HeadAndTail
<1>3. 1 \in 1..Len(batch)
  BY <1>2
<1>4. batch[1].text \in Texts /\ batch[1].target \in Targets /\ batch[1].id \in Ids
  BY <1>2 DEF Message
<1>5. QED BY <1>2, <1>3, <1>4

-----------------------------------------------------------------------------
(* What each part of the invariant looks at: it holds still where a step   *)
(* leaves that alone, or shows more.                                       *)
ShowsMore ==
  \A x \in Texts, t \in Targets :
    /\ shown[<<x, t>>] > 0 => shown'[<<x, t>>] > 0
    /\ shown'[<<x, t>>] = 0 => shown[<<x, t>>] = 0

LEMMA EventsAreTexts ==
  /\ \A n \in Events : n \in Nat /\ n \in Texts /\ n \notin Alerts
  /\ \A n \in Events : \A t \in For(n) : t \in Targets
  /\ \A a \in Alerts : a \in Texts /\ a \notin Events
BY Constants DEF Texts

LEMMA MoreIsShown ==
  ASSUME Typed, NEW x \in Texts, NEW t \in Targets, Show(x, t)
  PROVE  ShowsMore
<1>1. \A y \in Texts, u \in Targets :
        shown'[<<y, u>>] >= shown[<<y, u>>] /\ shown[<<y, u>>] \in Nat
        /\ shown'[<<y, u>>] \in Nat
  <2>1. shown' \in [Texts \X Targets -> Nat]
    BY ShowCounts
  <2>2. QED BY <2>1, ShowCounts
<1>2. SUFFICES ASSUME NEW y \in Texts, NEW u \in Targets
               PROVE  /\ shown[<<y, u>>] > 0 => shown'[<<y, u>>] > 0
                      /\ shown'[<<y, u>>] = 0 => shown[<<y, u>>] = 0
  BY DEF ShowsMore
<1>3. PICK before \in Nat : before = shown[<<y, u>>]
  BY <1>1
<1>4. PICK after \in Nat : after = shown'[<<y, u>>]
  BY <1>1
<1>5. after >= before
  BY <1>1, <1>3, <1>4
<1>6. (before > 0 => after > 0) /\ (after = 0 => before = 0)
  BY <1>5
<1>7. QED BY <1>3, <1>4, <1>6

LEMMA ShownStays == UNCHANGED shown => ShowsMore
BY DEF ShowsMore

LEMMA DoneIsTyped ==
  ASSUME Typed, Backlog
  PROVE  /\ Done \in Nat /\ raised \in Nat /\ Done <= raised
         /\ \A n \in 1..raised : n \in Events
         /\ \A n \in 1..Done : n \in Events
         /\ pending # <<>> => Done + 1 \in 1..raised /\ Done + 1 \in Events
                              /\ Head(pending) = Done + 1
<1>1. raised \in 0..Len(Audience) /\ Len(Audience) \in Nat /\ Len(pending) \in Nat
      /\ Len(pending) <= raised
  BY Constants, LenProperties DEF Typed, Backlog
<1>2. Done \in Nat /\ raised \in Nat /\ Done <= raised /\ raised <= Len(Audience)
  BY <1>1 DEF Done
<1>3. ASSUME pending # <<>>
      PROVE  Done + 1 \in 1..raised /\ Head(pending) = Done + 1
  <2>1. Len(pending) \in Nat \ {0} /\ Head(pending) = pending[1]
    BY <1>3, HeadAndTail DEF Typed
  <2>2. Head(pending) = Done + 1
    BY <2>1 DEF Backlog
  <2>3. QED BY <1>1, <2>1, <2>2 DEF Done
<1>4. QED BY <1>2, <1>3, Constants

LEMMA OutboxStays ==
  ASSUME IInv, ShowsMore, UNCHANGED outbox
  PROVE  OutboxInOrder'
<1> SUFFICES ASSUME NEW k \in 1..Len(outbox), NEW n \in Events, NEW m \in 1..(n - 1),
                    outbox[k].id = EventId(n), outbox[k].target \in For(m)
             PROVE  Seen(m, outbox[k].target)' \/ Before(outbox, k, m, outbox[k].target)
  BY DEF OutboxInOrder
<1>1. m \in Events
  BY Constants
<1>2. Seen(m, outbox[k].target) \/ Before(outbox, k, m, outbox[k].target)
  BY DEF IInv, OutboxInOrder
<1>3. m \in Texts /\ outbox[k].target \in Targets
  BY <1>1, EventsAreTexts
<1>4. QED BY <1>2, <1>3 DEF ShowsMore, Seen

LEMMA BatchStays ==
  ASSUME IInv, ShowsMore, UNCHANGED <<batch, blocked>>
  PROVE  BatchInOrder'
<1> SUFFICES ASSUME NEW k \in 1..Len(batch), NEW n \in Events, NEW m \in 1..(n - 1),
                    batch[k].id = EventId(n), batch[k].target \in For(m)
             PROVE  \/ Seen(m, batch[k].target)' \/ batch[k].target \in blocked
                    \/ Before(batch, k, m, batch[k].target)
  BY DEF BatchInOrder
<1>1. m \in Events
  BY Constants
<1>2. \/ Seen(m, batch[k].target) \/ batch[k].target \in blocked
      \/ Before(batch, k, m, batch[k].target)
  BY DEF IInv, BatchInOrder
<1>3. m \in Texts /\ batch[k].target \in Targets
  BY <1>1, EventsAreTexts
<1>4. QED BY <1>2, <1>3 DEF ShowsMore, Seen

LEMMA ReceiptsStay ==
  ASSUME IInv, ShowsMore, UNCHANGED receipts
  PROVE  ReceiptsAreSeen'
<1> SUFFICES ASSUME NEW r \in receipts
             PROVE  \E n \in Events, t \in Targets : r = <<EventId(n), t>> /\ Seen(n, t)'
  BY DEF ReceiptsAreSeen
<1>1. PICK n \in Events, t \in Targets : r = <<EventId(n), t>> /\ Seen(n, t)
  BY DEF IInv, ReceiptsAreSeen
<1>2. Seen(n, t)'
  BY <1>1, EventsAreTexts DEF ShowsMore, Seen
<1>3. QED BY <1>1, <1>2

LEMMA ServedStays ==
  ASSUME ShowsMore, NEW n \in Events, NEW t \in For(n), Served(n, t), UNCHANGED outbox
  PROVE  Served(n, t)'
<1>1. Seen(n, t) => Seen(n, t)'
  BY EventsAreTexts DEF ShowsMore, Seen
<1>2. QED BY <1>1 DEF Served, Queued

LEMMA AcceptedStay ==
  ASSUME IInv, ShowsMore, UNCHANGED <<raised, pending, outbox>>
  PROVE  AcceptedAreServed'
<1>1. ASSUME NEW n \in 1..Done, NEW t \in For(n) PROVE Served(n, t)'
  <2>1. n \in Events
    BY DoneIsTyped DEF IInv
  <2>2. Served(n, t)
    BY DEF IInv, AcceptedAreServed
  <2>3. QED BY <2>1, <2>2, ServedStays
<1>2. Done' = Done
  BY DEF Done
<1>3. QED BY <1>1, <1>2 DEF AcceptedAreServed

LEMMA BeingServedStays ==
  ASSUME IInv, ShowsMore, UNCHANGED <<raised, pending, outbox>>,
         pc'["controller"] = pc["controller"], left'["controller"] = left["controller"]
  PROVE  BeingServed'
<1>1. Done \in Nat /\ Done' = Done
  BY DoneIsTyped DEF IInv, Done
<1>2. PICK n \in Nat : n = Done + 1
  BY <1>1
<1>3. n = Done' + 1
  BY <1>1, <1>2
<1>4. pc["controller"] # "idle" => n \in Events
  BY <1>2, DoneIsTyped DEF IInv, Places
<1>5. ASSUME pc["controller"] # "idle", NEW t \in For(n), Served(n, t)
      PROVE  Served(n, t)'
  BY <1>4, <1>5, ServedStays
<1>6. /\ pc["controller"] = "queue" =>
           /\ left["controller"] # <<>>
           /\ \A t \in For(n) :
                \/ Served(n, t)
                \/ \E k \in 1..Len(left["controller"]) : left["controller"][k] = t
      /\ pc["controller"] \in {"reflush", "accepted"} =>
           \A t \in For(n) : Served(n, t)
  BY <1>2 DEF IInv, BeingServed
<1>7. /\ pc'["controller"] = "queue" =>
           /\ left'["controller"] # <<>>
           /\ \A t \in For(n) :
                \/ Served(n, t)'
                \/ \E k \in 1..Len(left'["controller"]) : left'["controller"][k] = t
      /\ pc'["controller"] \in {"reflush", "accepted"} =>
           \A t \in For(n) : Served(n, t)'
  BY <1>5, <1>6
<1>8. QED BY <1>3, <1>7 DEF BeingServed

LEMMA ProperStays ==
  ASSUME Typed, Backlog, NEW i, Proper(i), UNCHANGED queuedAs,
         NEW top \in Nat, raised' = top, top >= raised,
         NEW done \in Nat, Done' = done, done >= Done
  PROVE  Proper(i)'
<1>1. CASE OfAlert(i)
  BY <1>1 DEF OfAlert, Proper
<1>2. CASE \E n \in 1..raised : n <= Done + 1 /\ OfEvent(i, n)
  <2>1. PICK n \in 1..raised : n <= Done + 1 /\ OfEvent(i, n)
    BY <1>2
  <2>2. raised \in Nat /\ Done \in Nat
    BY DoneIsTyped
  <2>3. n \in 1..top /\ n <= done + 1
    BY <2>1, <2>2
  <2>4. OfEvent(i, n)'
    BY <2>1 DEF OfEvent
  <2>5. \E m \in 1..raised' : m <= Done' + 1 /\ OfEvent(i, m)'
    BY <2>3, <2>4
  <2>6. QED BY <2>5 DEF Proper
<1>3. QED BY <1>1, <1>2 DEF Proper

LEMMA ItemsStay ==
  ASSUME IInv, UNCHANGED <<raised, pending, queuedAs, outbox, batch>>
  PROVE  ItemsAreProper' /\ BatchIsQueued'
<1>1. raised \in Nat /\ Done \in Nat /\ Done' = Done
  BY DoneIsTyped DEF IInv, Done
<1>2. PICK top \in Nat : top = raised
  BY <1>1
<1>3. PICK done \in Nat : done = Done
  BY <1>1
<1>4. Typed /\ Backlog
  BY DEF IInv
<1>5. raised' = top /\ top >= raised /\ Done' = done /\ done >= Done
  BY <1>1, <1>2, <1>3
<1>6. ASSUME NEW i, Proper(i) PROVE Proper(i)'
  BY <1>4, <1>5, <1>6, ProperStays
<1>7. ItemsAreProper'
  BY <1>6 DEF IInv, ItemsAreProper
<1>8. BatchIsQueued'
  BY DEF IInv, BatchIsQueued, Distinct
<1>9. QED BY <1>7, <1>8

LEMMA HeadStays ==
  ASSUME IInv, UNCHANGED <<unacked, batch, shown>>
  PROVE  HeadIsSeen'
BY DEF IInv, HeadIsSeen, Seen

LEMMA EventsStayInOrder ==
  ASSUME IInv, UNCHANGED shown
  PROVE  EventsInOrder'
BY DEF IInv, EventsInOrder

LEMMA EventCopiesStay ==
  ASSUME IInv, UNCHANGED <<shown, mishaps, receipts, unacked, batch>>
  PROVE  EventCopies'
BY DEF IInv, EventCopies, Unanswered, WasDelivered

LEMMA AlertCopiesStay ==
  ASSUME IInv, UNCHANGED <<shown, mishaps, outbox, unacked, batch, failed>>
  PROVE  AlertCopies'
BY DEF IInv, AlertCopies, Unanswered, HasItem

LEMMA StagesStay ==
  ASSUME IInv, UNCHANGED <<shown, queuedAs, failed>>,
         \A a \in Alerts :
           left'[a] = left[a]
           /\ (pc'[a] = pc[a] \/ (pc[a] = "idle" /\ pc'[a] = "flush"))
  PROVE  AlertStages'
<1> SUFFICES ASSUME NEW a \in Alerts
             PROVE  /\ pc'[a] = "send" =>
                         /\ left'[a] # <<>>
                         /\ \A j, k \in 1..Len(left'[a]) :
                              left'[a][j] = left'[a][k] => j = k
                    /\ failed[a] # {} => pc'[a] \in {"send", "queue"}
                    /\ \A t \in Targets :
                         /\ ToSend(a, t)' => shown[<<a, t>>] = 0 /\ t \notin failed[a]
                                             /\ queuedAs[<<a, t>>] = None
                         /\ t \in failed[a] => queuedAs[<<a, t>>] = None
  BY DEF AlertStages
<1>1. /\ pc[a] = "send" =>
           /\ left[a] # <<>>
           /\ \A j, k \in 1..Len(left[a]) : left[a][j] = left[a][k] => j = k
      /\ failed[a] # {} => pc[a] \in {"send", "queue"}
      /\ \A t \in Targets :
           /\ ToSend(a, t) => shown[<<a, t>>] = 0 /\ t \notin failed[a]
                              /\ queuedAs[<<a, t>>] = None
           /\ t \in failed[a] => queuedAs[<<a, t>>] = None
  BY DEF IInv, AlertStages
<1>2. \A t \in Targets : ToSend(a, t)' => ToSend(a, t)
  BY DEF ToSend
<1>3. left'[a] = left[a]
      /\ (pc'[a] = pc[a] \/ (pc[a] = "idle" /\ pc'[a] = "flush"))
  OBVIOUS
<1>4. QED BY <1>1, <1>2, <1>3

LEMMA AlertsStayKept ==
  ASSUME IInv, ShowsMore, UNCHANGED <<outbox, queuedAs>>
  PROVE  AlertsAreKept'
<1> SUFFICES ASSUME NEW a \in Alerts, NEW t \in Targets,
                    queuedAs[<<a, t>>] # None, shown'[<<a, t>>] = 0
             PROVE  \/ HasItem(a, t)
                    \/ \E b \in Alerts \ {a} : queuedAs[<<b, t>>] = queuedAs[<<a, t>>]
  BY DEF AlertsAreKept, HasItem
<1>1. shown[<<a, t>>] = 0
  BY EventsAreTexts DEF ShowsMore
<1>2. QED BY <1>1 DEF IInv, AlertsAreKept

(* One mishap more, and nothing shown.                                     *)
LEMMA Excused ==
  ASSUME IInv, UNCHANGED shown, mishaps' = mishaps + 1
  PROVE  EventCopies' /\ AlertCopies'
<1>1. PICK few \in Nat : few = mishaps
  BY DEF IInv, Typed
<1>2. mishaps' = few + 1
  BY <1>1
<1>3. \A x \in Texts, t \in Targets : shown[<<x, t>>] \in Nat
  BY DEF IInv, Typed
<1>4. ASSUME NEW x \in Texts, NEW t \in Targets, shown[<<x, t>>] <= 1 + mishaps
      PROVE  shown[<<x, t>>] <= few + 1 /\ shown[<<x, t>>] <= 1 + (few + 1)
  <2>1. PICK seen \in Nat : seen = shown[<<x, t>>]
    BY <1>3
  <2>2. seen <= 1 + few
    BY <1>1, <1>4, <2>1
  <2>3. seen <= few + 1 /\ seen <= 1 + (few + 1)
    BY <2>2
  <2>4. QED BY <2>1, <2>3
<1>5. EventCopies'
  <2>1. \A n \in Events, t \in Targets :
          shown[<<n, t>>] <= few + 1 /\ shown[<<n, t>>] <= 1 + (few + 1)
    BY <1>4, EventsAreTexts DEF IInv, EventCopies
  <2>2. QED BY <1>2, <2>1, Zenon DEF EventCopies
<1>6. AlertCopies'
  <2>1. \A a \in Alerts, t \in Targets :
          shown[<<a, t>>] <= few + 1 /\ shown[<<a, t>>] <= 1 + (few + 1)
    BY <1>4, EventsAreTexts DEF IInv, AlertCopies
  <2>2. QED BY <1>2, <2>1, Zenon DEF AlertCopies
<1>7. QED BY <1>5, <1>6

-----------------------------------------------------------------------------
(* One lemma per action.                                                   *)
Stages == {"idle", "flush", "queue", "reflush", "accepted", "send", "done"}

LEMMA SendersAre ==
  /\ "controller" \in Senders /\ "poller" \in Senders
  /\ \A a \in Alerts : /\ a \in Senders /\ a # "controller" /\ a # "poller"
                       /\ a # Nobody
  /\ \A s \in Senders : s \notin Alerts => s = "controller" \/ s = "poller"
  /\ Nobody # "controller" /\ Nobody # "poller" /\ Nobody \notin Senders
BY Constants DEF Senders, Nobody

LEMMA Goes ==
  ASSUME Typed, NEW s \in Senders, NEW there \in Stages, Go(s, there)
  PROVE  /\ pc' \in [Senders -> Stages] /\ pc'[s] = there
         /\ \A r \in Senders : r # s => pc'[r] = pc[r]
<1>1. pc \in [Senders -> Stages]
  BY DEF Typed, Stages
<1>2. QED BY <1>1 DEF Go

LEMMA TelegramStep ==
  ASSUME IInv, NEW t \in Targets, Telegram(t)
  PROVE  IInv'
<1>1. UNCHANGED <<raised, pending, outbox, receipts, second, pc, left, failed,
                  flushing, shown, queuedAs, mishaps>>
  BY DEF Telegram
<1>2. Typed' /\ Backlog' /\ Places' /\ AcceptedAreServed' /\ BeingServed'
  BY <1>1 DEF IInv, Typed, Backlog, Done, Places, AcceptedAreServed, BeingServed,
              Served, Seen, Queued, flushing
<1>3. ShowsMore /\ UNCHANGED <<holder, batch, blocked, unacked>>
  BY <1>1, ShownStays DEF flushing
<1>4. ItemsAreProper' /\ BatchIsQueued' /\ OutboxInOrder' /\ BatchInOrder'
      /\ EventsInOrder' /\ ReceiptsAreSeen' /\ HeadIsSeen'
  BY <1>1, <1>3, ItemsStay, OutboxStays, BatchStays, EventsStayInOrder, ReceiptsStay,
     HeadStays
<1>5. EventCopies' /\ AlertStages' /\ AlertCopies' /\ AlertsAreKept'
  BY <1>1, <1>3, EventCopiesStay, StagesStay, AlertCopiesStay, AlertsStayKept
<1>6. QED BY <1>2, <1>4, <1>5 DEF IInv

LEMMA AlertStep ==
  ASSUME IInv, NEW a \in Alerts, Alert(a)
  PROVE  IInv'
<1>1. /\ pc[a] = "idle" /\ Go(a, "flush")
      /\ UNCHANGED <<raised, pending, outbox, receipts, up, outages, second, left,
                     failed, shown, queuedAs, mishaps, holder, batch, blocked, unacked>>
  BY DEF Alert, flushing
<1>2. Typed /\ ShowsMore /\ a \in Senders /\ "flush" \in Stages
  BY <1>1, ShownStays, SendersAre DEF IInv, Stages
<1>3. /\ pc' \in [Senders -> Stages] /\ pc'[a] = "flush"
      /\ \A r \in Senders : r # a => pc'[r] = pc[r]
  BY <1>1, <1>2, Goes
<1>4. pc'["controller"] = pc["controller"] /\ pc'["poller"] = pc["poller"]
      /\ \A b \in Alerts : pc'[b] = pc[b] \/ (pc[b] = "idle" /\ pc'[b] = "flush")
  BY <1>1, <1>3, SendersAre
<1>5. Typed'
  BY <1>1, <1>2, <1>3 DEF Typed, Stages
<1>6. Places'
  <2>1. holder' \in Alerts => pc'[holder'] = "flush"
    BY <1>1, <1>4 DEF IInv, Places
  <2>2. \A b \in Alerts : pc'[b] \in {"idle", "flush", "send", "queue", "done"}
    BY <1>4 DEF IInv, Places
  <2>3. QED BY <1>1, <1>4, <2>1, <2>2 DEF IInv, Places
<1>7. Backlog' /\ AcceptedAreServed' /\ BeingServed'
  BY <1>1, <1>2, <1>4, AcceptedStay, BeingServedStays DEF IInv, Backlog, Done
<1>8. ItemsAreProper' /\ BatchIsQueued' /\ OutboxInOrder' /\ BatchInOrder'
      /\ EventsInOrder' /\ ReceiptsAreSeen' /\ HeadIsSeen'
  BY <1>1, <1>2, ItemsStay, OutboxStays, BatchStays, EventsStayInOrder, ReceiptsStay,
     HeadStays
<1>9. EventCopies' /\ AlertStages' /\ AlertCopies' /\ AlertsAreKept'
  BY <1>1, <1>2, <1>4, EventCopiesStay, StagesStay, AlertCopiesStay, AlertsStayKept
<1>10. QED BY <1>5, <1>6, <1>7, <1>8, <1>9 DEF IInv

(* The controller starts with an event: a new one, or one left pending.    *)
LEMMA TakeUpStep ==
  ASSUME IInv, TakeUp
  PROVE  IInv'
<1>1. /\ pending # <<>> /\ pc["controller"] = "idle" /\ Go("controller", "flush")
      /\ UNCHANGED <<raised, pending, outbox, receipts, up, outages, second, left,
                     failed, shown, queuedAs, mishaps, holder, batch, blocked, unacked>>
  BY DEF TakeUp, flushing
<1>2. Typed /\ ShowsMore /\ "flush" \in Stages
  BY <1>1, ShownStays DEF IInv, Stages
<1>3. /\ pc' \in [Senders -> Stages] /\ pc'["controller"] = "flush"
      /\ \A r \in Senders : r # "controller" => pc'[r] = pc[r]
  BY <1>1, <1>2, Goes, SendersAre
<1>4. pc'["poller"] = pc["poller"] /\ \A b \in Alerts : pc'[b] = pc[b]
  BY <1>3, SendersAre
<1>5. Typed'
  BY <1>1, <1>2, <1>3 DEF Typed, Stages
<1>6. Places'
  BY <1>1, <1>3, <1>4 DEF IInv, Places
<1>7. Backlog' /\ AcceptedAreServed'
  BY <1>1, <1>2, AcceptedStay DEF IInv, Backlog, Done
<1>8. BeingServed'
  BY <1>3 DEF BeingServed
<1>9. ItemsAreProper' /\ BatchIsQueued' /\ OutboxInOrder' /\ BatchInOrder'
      /\ EventsInOrder' /\ ReceiptsAreSeen' /\ HeadIsSeen'
  BY <1>1, <1>2, ItemsStay, OutboxStays, BatchStays, EventsStayInOrder, ReceiptsStay,
     HeadStays
<1>10. EventCopies' /\ AlertStages' /\ AlertCopies' /\ AlertsAreKept'
  BY <1>1, <1>2, <1>4, EventCopiesStay, StagesStay, AlertCopiesStay, AlertsStayKept
<1>11. QED BY <1>5, <1>6, <1>7, <1>8, <1>9, <1>10 DEF IInv

LEMMA RaiseStep ==
  ASSUME IInv, Raise
  PROVE  IInv'
<1>1. /\ raised < Len(Audience) /\ pc["controller"] = "idle" /\ Go("controller", "flush")
      /\ raised' = raised + 1 /\ pending' = Append(pending, raised + 1)
      /\ UNCHANGED <<outbox, receipts, up, outages, second, left,
                     failed, shown, queuedAs, mishaps, holder, batch, blocked, unacked>>
  BY DEF Raise, flushing
<1>2. Typed /\ Backlog /\ ShowsMore /\ "flush" \in Stages
  BY <1>1, ShownStays DEF IInv, Stages
<1>3. /\ pc' \in [Senders -> Stages] /\ pc'["controller"] = "flush"
      /\ \A r \in Senders : r # "controller" => pc'[r] = pc[r]
  BY <1>1, <1>2, Goes, SendersAre
<1>4. pc'["poller"] = pc["poller"] /\ \A b \in Alerts : pc'[b] = pc[b]
  BY <1>3, SendersAre
<1>5. /\ raised \in Nat /\ pending \in Seq(Nat) /\ Len(pending) \in Nat
      /\ Len(pending) <= raised /\ Len(Audience) \in Nat
  BY <1>2, Constants, LenProperties DEF Typed, Backlog
<1>6. PICK top \in Nat : top = raised
  BY <1>5
<1>7. PICK long \in Nat : long = Len(pending)
  BY <1>5
<1>8. /\ raised' = top + 1 /\ top + 1 \in 0..Len(Audience)
      /\ pending' \in Seq(Nat) /\ Len(pending') = long + 1
      /\ \A k \in 1..long : pending'[k] = pending[k]
      /\ pending'[long + 1] = top + 1
  BY <1>1, <1>5, <1>6, <1>7, AppendProperties
<1>9. Done = top - long /\ Done' = top - long /\ top - long \in Nat
  BY <1>5, <1>6, <1>7, <1>8 DEF Done
<1>10. Typed'
  BY <1>1, <1>2, <1>3, <1>8 DEF Typed, Stages
<1>11. Backlog'
  <2>1. ASSUME NEW k \in 1..(long + 1) PROVE pending'[k] = (top - long) + k
    <3>1. CASE k = long + 1
      BY <1>8, <1>9, <3>1
    <3>2. CASE k \in 1..long
      BY <1>2, <1>7, <1>8, <1>9, <3>2 DEF Backlog
    <3>3. QED BY <3>1, <3>2
  <2>2. long + 1 <= top + 1
    BY <1>5, <1>6, <1>7
  <2>3. QED BY <1>8, <1>9, <2>1, <2>2 DEF Backlog
<1>12. Places'
  <2>1. pending' # <<>>
    BY <1>8, EmptySeq
  <2>2. QED BY <1>1, <1>3, <1>4, <2>1 DEF IInv, Places
<1>13. AcceptedAreServed'
  BY <1>1, <1>9 DEF IInv, AcceptedAreServed, Served, Seen, Queued
<1>14. BeingServed'
  BY <1>3 DEF BeingServed
<1>15. ItemsAreProper' /\ BatchIsQueued'
  <2>1. ASSUME NEW i, Proper(i) PROVE Proper(i)'
    <3>1. top + 1 \in Nat /\ top + 1 >= raised /\ top - long >= Done
      BY <1>6, <1>9
    <3>2. QED BY <1>1, <1>2, <1>8, <1>9, <2>1, <3>1, ProperStays
  <2>2. ItemsAreProper'
    BY <1>1, <2>1 DEF IInv, ItemsAreProper
  <2>3. QED BY <1>1, <2>2 DEF IInv, BatchIsQueued, Distinct
<1>16. OutboxInOrder' /\ BatchInOrder' /\ EventsInOrder' /\ ReceiptsAreSeen' /\ HeadIsSeen'
  BY <1>1, <1>2, OutboxStays, BatchStays, EventsStayInOrder, ReceiptsStay, HeadStays
<1>17. EventCopies' /\ AlertStages' /\ AlertCopies' /\ AlertsAreKept'
  BY <1>1, <1>2, <1>4, EventCopiesStay, StagesStay, AlertCopiesStay, AlertsStayKept
<1>18. QED BY <1>10, <1>11, <1>12, <1>13, <1>14, <1>15, <1>16, <1>17 DEF IInv

LEMMA AcceptedStep ==
  ASSUME IInv, Accepted
  PROVE  IInv'
<1>1. /\ pc["controller"] = "accepted" /\ Go("controller", "idle")
      /\ pending' = Tail(pending)
      /\ UNCHANGED <<raised, outbox, receipts, up, outages, second, left,
                     failed, shown, queuedAs, mishaps, holder, batch, blocked, unacked>>
  BY DEF Accepted, flushing
<1>2. Typed /\ Backlog /\ ShowsMore /\ "idle" \in Stages
  BY <1>1, ShownStays DEF IInv, Stages
<1>3. /\ pc' \in [Senders -> Stages] /\ pc'["controller"] = "idle"
      /\ \A r \in Senders : r # "controller" => pc'[r] = pc[r]
  BY <1>1, <1>2, Goes, SendersAre
<1>4. pc'["poller"] = pc["poller"] /\ \A b \in Alerts : pc'[b] = pc[b]
  BY <1>3, SendersAre
<1>5. pending # <<>>
  BY <1>1 DEF IInv, Places
<1>6. PICK top \in Nat : top = raised
  BY <1>2, DoneIsTyped
<1>7. PICK long \in Nat \ {0} : long = Len(pending)
  BY <1>2, <1>5, HeadAndTail DEF Typed
<1>8. /\ pending' \in Seq(Nat) /\ Len(pending') = long - 1
      /\ \A k \in 1..(long - 1) : pending'[k] = pending[k + 1]
  BY <1>1, <1>2, <1>5, <1>7, HeadAndTail DEF Typed
<1>9. /\ long <= top /\ Done = top - long /\ top - long \in Nat
      /\ Done' = (top - long) + 1
  BY <1>1, <1>2, <1>6, <1>7, <1>8 DEF Backlog, Done
<1>10. Typed'
  BY <1>1, <1>2, <1>3, <1>8 DEF Typed, Stages
<1>11. Backlog'
  <2>1. ASSUME NEW k \in 1..(long - 1) PROVE pending'[k] = ((top - long) + 1) + k
    <3>1. k + 1 \in 1..long /\ pending'[k] = pending[k + 1]
      BY <1>8
    <3>2. pending[k + 1] = (top - long) + (k + 1)
      BY <1>2, <1>7, <1>9, <3>1 DEF Backlog
    <3>3. QED BY <3>1, <3>2
  <2>2. long - 1 <= top
    BY <1>9
  <2>3. QED BY <1>1, <1>6, <1>8, <1>9, <2>1, <2>2 DEF Backlog
<1>12. Places'
  <2>1. holder # "controller"
    BY <1>1 DEF IInv, Places
  <2>2. QED BY <1>1, <1>3, <1>4, <2>1 DEF IInv, Places
<1>13. AcceptedAreServed'
  <2>1. ASSUME NEW n \in 1..((top - long) + 1), NEW t \in For(n) PROVE Served(n, t)
    <3>1. CASE n = (top - long) + 1
      <4>1. n = Done + 1
        BY <1>9, <3>1
      <4>2. QED BY <1>1, <4>1 DEF IInv, BeingServed
    <3>2. CASE n \in 1..(top - long)
      BY <1>9, <3>2 DEF IInv, AcceptedAreServed
    <3>3. QED BY <1>9, <3>1, <3>2
  <2>2. QED BY <1>1, <1>9, <2>1 DEF AcceptedAreServed, Served, Seen, Queued
<1>14. BeingServed'
  BY <1>3 DEF BeingServed
<1>15. ItemsAreProper' /\ BatchIsQueued'
  <2>1. ASSUME NEW i, Proper(i) PROVE Proper(i)'
    <3>1. (top - long) + 1 \in Nat /\ top >= raised /\ (top - long) + 1 >= Done
          /\ raised' = top
      BY <1>1, <1>6, <1>9
    <3>2. QED BY <1>1, <1>2, <1>9, <2>1, <3>1, ProperStays
  <2>2. ItemsAreProper'
    BY <1>1, <2>1 DEF IInv, ItemsAreProper
  <2>3. QED BY <1>1, <2>2 DEF IInv, BatchIsQueued, Distinct
<1>16. OutboxInOrder' /\ BatchInOrder' /\ EventsInOrder' /\ ReceiptsAreSeen' /\ HeadIsSeen'
  BY <1>1, <1>2, OutboxStays, BatchStays, EventsStayInOrder, ReceiptsStay, HeadStays
<1>17. EventCopies' /\ AlertStages' /\ AlertCopies' /\ AlertsAreKept'
  BY <1>1, <1>2, <1>4, EventCopiesStay, StagesStay, AlertCopiesStay, AlertsStayKept
<1>18. QED BY <1>10, <1>11, <1>12, <1>13, <1>14, <1>15, <1>16, <1>17 DEF IInv

(* Who is cut off while it flushes lets go of its batch.                   *)
LEMMA BatchLetGo ==
  ASSUME IInv, UNCHANGED <<raised, pending, queuedAs, outbox>>,
         batch' = <<>>, unacked' = FALSE
  PROVE  /\ batch' \in Seq(Message) /\ ItemsAreProper' /\ BatchIsQueued'
         /\ BatchInOrder' /\ HeadIsSeen'
<1>1. batch' \in Seq(Message) /\ Len(batch') = 0
  BY EmptySeq
<1>2. BatchInOrder'
  BY <1>1 DEF BatchInOrder
<1>3. HeadIsSeen'
  BY DEF HeadIsSeen
<1>4. BatchIsQueued'
  BY <1>1 DEF IInv, BatchIsQueued, Distinct
<1>5. ItemsAreProper'
  <2>1. raised \in Nat /\ Done \in Nat /\ Done' = Done
    BY DoneIsTyped DEF IInv, Done
  <2>2. PICK top \in Nat : top = raised
    BY <2>1
  <2>3. PICK done \in Nat : done = Done
    BY <2>1
  <2>4. Typed /\ Backlog /\ raised' = top /\ top >= raised /\ Done' = done /\ done >= Done
    BY <2>1, <2>2, <2>3 DEF IInv
  <2>5. ASSUME NEW i, Proper(i) PROVE Proper(i)'
    BY <2>4, <2>5, ProperStays
  <2>6. QED BY <1>1, <2>5 DEF IInv, ItemsAreProper
<1>6. QED BY <1>1, <1>2, <1>3, <1>4, <1>5

LEMMA TimeOutStep ==
  ASSUME IInv, TimeOut
  PROVE  IInv'
<1>1. /\ pc["controller"] \in {"flush", "queue", "reflush"} /\ Go("controller", "idle")
      /\ mishaps' = mishaps + 1
      /\ UNCHANGED <<raised, pending, outbox, receipts, up, outages, second, left,
                     failed, shown, queuedAs>>
  BY DEF TimeOut, Mishap
<1>2. \/ holder = "controller" /\ holder' = Nobody /\ batch' = <<>> /\ unacked' = FALSE
      \/ holder # "controller" /\ UNCHANGED <<holder, batch, blocked, unacked>>
  BY DEF TimeOut, flushing
<1>3. Typed /\ ShowsMore /\ "idle" \in Stages
  BY <1>1, ShownStays DEF IInv, Stages
<1>4. /\ pc' \in [Senders -> Stages] /\ pc'["controller"] = "idle"
      /\ \A r \in Senders : r # "controller" => pc'[r] = pc[r]
  BY <1>1, <1>3, Goes, SendersAre
<1>5. pc'["poller"] = pc["poller"] /\ \A b \in Alerts : pc'[b] = pc[b]
  BY <1>4, SendersAre
<1>6. /\ batch' \in Seq(Message) /\ ItemsAreProper' /\ BatchIsQueued'
      /\ BatchInOrder' /\ HeadIsSeen' /\ holder' \in Senders \cup {Nobody}
      /\ unacked' \in BOOLEAN
  <2>1. CASE holder = "controller"
    BY <1>1, <1>2, <2>1, BatchLetGo
  <2>2. CASE holder # "controller"
    BY <1>1, <1>2, <1>3, <2>2, ItemsStay, BatchStays, HeadStays DEF Typed
  <2>3. QED BY <2>1, <2>2
<1>7. Typed'
  <2>1. mishaps' \in Nat
    BY <1>1, <1>3 DEF Typed
  <2>2. QED BY <1>1, <1>3, <1>4, <1>6, <2>1 DEF Typed, Stages
<1>8. Places'
  <2>1. /\ holder' # "controller"
        /\ holder' \in Alerts => pc'[holder'] = "flush"
        /\ holder' = Nobody => batch' = <<>> /\ ~unacked'
        /\ unacked' => batch' # <<>>
    <3>1. CASE holder = "controller"
      BY <1>2, <3>1, SendersAre
    <3>2. CASE holder # "controller"
      BY <1>2, <1>5, <3>2 DEF IInv, Places
    <3>3. QED BY <3>1, <3>2
  <2>2. QED BY <1>1, <1>4, <1>5, <2>1 DEF IInv, Places
<1>9. Backlog' /\ AcceptedAreServed'
  BY <1>1, <1>3, AcceptedStay DEF IInv, Backlog, Done
<1>10. BeingServed'
  BY <1>4 DEF BeingServed
<1>11. OutboxInOrder' /\ EventsInOrder' /\ ReceiptsAreSeen'
  BY <1>1, <1>3, OutboxStays, EventsStayInOrder, ReceiptsStay
<1>12. EventCopies' /\ AlertStages' /\ AlertCopies' /\ AlertsAreKept'
  BY <1>1, <1>3, <1>5, Excused, StagesStay, AlertsStayKept
<1>13. QED BY <1>6, <1>7, <1>8, <1>9, <1>10, <1>11, <1>12 DEF IInv

(* The process is gone; the files are there.                               *)
LEMMA CrashStep ==
  ASSUME IInv, Crash
  PROVE  IInv'
<1>1. /\ mishaps' = mishaps + 1
      /\ pc' = [s \in Senders |-> IF pc[s] = "idle" \/ s \notin Alerts
                                  THEN "idle" ELSE "done"]
      /\ failed' = [s \in Senders |-> {}]
      /\ holder' = Nobody /\ batch' = <<>> /\ unacked' = FALSE
      /\ UNCHANGED <<raised, pending, outbox, receipts, up, outages, second, left,
                     shown, queuedAs>>
  BY DEF Crash, Mishap
<1>2. Typed /\ ShowsMore
  BY <1>1, ShownStays DEF IInv
<1>3. /\ pc'["controller"] = "idle" /\ pc'["poller"] = "idle"
      /\ \A a \in Alerts : /\ failed'[a] = {}
                           /\ (pc[a] = "idle" /\ pc'[a] = "idle") \/ pc'[a] = "done"
  BY <1>1, SendersAre
<1>4. /\ batch' \in Seq(Message) /\ ItemsAreProper' /\ BatchIsQueued'
      /\ BatchInOrder' /\ HeadIsSeen'
  BY <1>1, BatchLetGo
<1>5. Typed'
  <2>1. mishaps' \in Nat
    BY <1>1, <1>2 DEF Typed
  <2>2. pc' \in [Senders -> Stages] /\ failed' \in [Senders -> SUBSET Targets]
    BY <1>1 DEF Stages
  <2>3. QED BY <1>1, <1>2, <1>4, <2>1, <2>2 DEF Typed, Stages
<1>6. Places'
  <2>1. holder' # "controller" /\ holder' \notin Alerts
    BY <1>1, SendersAre
  <2>2. QED BY <1>1, <1>3, <2>1 DEF Places
<1>7. Backlog' /\ AcceptedAreServed'
  BY <1>1, <1>2, AcceptedStay DEF IInv, Backlog, Done
<1>8. BeingServed'
  BY <1>3 DEF BeingServed
<1>9. OutboxInOrder' /\ EventsInOrder' /\ ReceiptsAreSeen'
  BY <1>1, <1>2, OutboxStays, EventsStayInOrder, ReceiptsStay
<1>10. AlertStages'
  <2>1. ASSUME NEW a \in Alerts, NEW t \in Targets, ToSend(a, t)'
        PROVE  shown[<<a, t>>] = 0 /\ queuedAs[<<a, t>>] = None
    <3>1. pc[a] = "idle"
      BY <1>3, <2>1 DEF ToSend
    <3>2. QED BY <3>1 DEF IInv, AlertStages, ToSend
  <2>2. QED BY <1>1, <1>3, <2>1 DEF AlertStages
<1>11. EventCopies' /\ AlertCopies' /\ AlertsAreKept'
  BY <1>1, <1>2, Excused, AlertsStayKept
<1>12. QED BY <1>4, <1>5, <1>6, <1>7, <1>8, <1>9, <1>10, <1>11 DEF IInv

LEMMA LockStep ==
  ASSUME IInv, NEW s \in Senders, Lock(s)
  PROVE  IInv'
<1>1. /\ holder = Nobody /\ Wants(s) /\ holder' = s
      /\ batch' = SubSeq(outbox, 1, IF Len(outbox) < Limit THEN Len(outbox) ELSE Limit)
      /\ unacked' = FALSE
      /\ UNCHANGED <<raised, pending, outbox, receipts, up, outages, second, pc, left,
                     failed, shown, queuedAs, mishaps>>
  BY DEF Lock
<1>2. Typed /\ Backlog /\ ShowsMore /\ ~unacked
  BY <1>1, ShownStays DEF IInv, Places
<1>3. PICK n \in Nat : /\ n = IF Len(outbox) < Limit THEN Len(outbox) ELSE Limit
                       /\ n <= Len(outbox)
  <2>1. Limit \in Nat /\ Len(outbox) \in Nat
    BY <1>2, OutboxAssumption, LenProperties DEF Typed
  <2>2. QED BY <2>1
<1>4. /\ batch' \in Seq(Message) /\ Len(batch') = n
      /\ \A k \in 1..n : k \in 1..Len(outbox) /\ batch'[k] = outbox[k]
  <2>1. Len(outbox) \in Nat
    BY <1>2, LenProperties DEF Typed
  <2>2. \A k \in 1..n : k \in 1..Len(outbox) /\ outbox[k] \in Message
    BY <1>2, <1>3, <2>1, ElementOfSeq DEF Typed
  <2>3. batch' = SubSeq(outbox, 1, n)
    BY <1>1, <1>3
  <2>4. /\ batch' \in Seq(Message)
        /\ Len(batch') = IF 1 <= n THEN n - 1 + 1 ELSE 0
        /\ \A k \in 1..(n - 1 + 1) : batch'[k] = outbox[1 + k - 1]
    BY <2>2, <2>3, SubSeqProperties
  <2>5. \A k \in 1..n : k \in 1..(n - 1 + 1) /\ 1 + k - 1 = k
    OBVIOUS
  <2>6. QED BY <2>2, <2>4, <2>5
<1>5. Typed'
  BY <1>1, <1>2, <1>4 DEF Typed
<1>6. Places'
  <2>1. s # Nobody
    BY SendersAre
  <2>2. s = "controller" => pc[s] \in {"flush", "reflush"}
    BY <1>1 DEF Wants
  <2>3. s \in Alerts => pc[s] = "flush"
    <3>1. s \in Alerts => pc[s] \in {"flush", "reflush"}
      BY <1>1, SendersAre DEF Wants
    <3>2. s \in Alerts => pc[s] # "reflush"
      BY DEF IInv, Places
    <3>3. QED BY <3>1, <3>2
  <2>4. QED BY <1>1, <2>1, <2>2, <2>3 DEF IInv, Places
<1>7. Backlog' /\ AcceptedAreServed' /\ BeingServed'
  BY <1>1, <1>2, AcceptedStay, BeingServedStays DEF IInv, Backlog, Done
<1>8. BatchIsQueued'
  <2>1. Distinct(batch)'
    BY <1>4 DEF IInv, BatchIsQueued, Distinct
  <2>2. Distinct(outbox)'
    BY <1>1 DEF IInv, BatchIsQueued, Distinct
  <2>3. QED BY <1>1, <1>4, <2>1, <2>2 DEF BatchIsQueued
<1>9. ItemsAreProper'
  <2>1. raised \in Nat /\ Done \in Nat /\ Done' = Done
    BY <1>1, <1>2, DoneIsTyped DEF Done
  <2>2. PICK top \in Nat : top = raised
    BY <2>1
  <2>3. PICK done \in Nat : done = Done
    BY <2>1
  <2>4. raised' = top /\ top >= raised /\ Done' = done /\ done >= Done
    BY <1>1, <2>1, <2>2, <2>3
  <2>5. ASSUME NEW i, Proper(i) PROVE Proper(i)'
    BY <1>1, <1>2, <2>4, <2>5, ProperStays
  <2>6. \A k \in 1..Len(batch') : Proper(batch'[k])
    BY <1>4 DEF IInv, ItemsAreProper
  <2>7. \A k \in 1..Len(outbox') : Proper(outbox'[k])
    BY <1>1 DEF IInv, ItemsAreProper
  <2>8. QED BY <2>5, <2>6, <2>7 DEF ItemsAreProper
<1>10. BatchInOrder'
  <2> SUFFICES ASSUME NEW k \in 1..n, NEW e \in Events, NEW m \in 1..(e - 1),
                      batch'[k].id = EventId(e), batch'[k].target \in For(m)
               PROVE  \/ Seen(m, batch'[k].target)
                      \/ Before(batch, k, m, batch[k].target)'
    BY <1>1, <1>4 DEF BatchInOrder, Seen
  <2>1. k \in 1..Len(outbox) /\ batch'[k] = outbox[k]
    BY <1>4
  <2>2. \/ Seen(m, outbox[k].target) \/ Before(outbox, k, m, outbox[k].target)
    BY <2>1 DEF IInv, OutboxInOrder
  <2>3. ASSUME NEW j \in 1..(k - 1), outbox[j].id = EventId(m),
               outbox[j].target = outbox[k].target
        PROVE  batch'[j].id = EventId(m) /\ batch'[j].target = batch'[k].target
    <3>1. j \in 1..n
      OBVIOUS
    <3>2. QED BY <1>4, <2>1, <2>3, <3>1
  <2>4. QED BY <2>1, <2>2, <2>3 DEF Before
<1>11. OutboxInOrder' /\ EventsInOrder' /\ ReceiptsAreSeen' /\ AlertStages'
       /\ AlertsAreKept'
  BY <1>1, <1>2, OutboxStays, EventsStayInOrder, ReceiptsStay, StagesStay, AlertsStayKept
<1>12. HeadIsSeen'
  BY <1>1 DEF HeadIsSeen
<1>13. EventCopies'
  BY <1>1, <1>2 DEF IInv, EventCopies, Unanswered, WasDelivered
<1>14. AlertCopies'
  BY <1>1, <1>2 DEF IInv, AlertCopies, Unanswered, HasItem
<1>15. QED
  BY <1>5, <1>6, <1>7, <1>8, <1>9, <1>10, <1>11, <1>12, <1>13, <1>14 DEF IInv

(* Who has flushed goes on: the controller to queue its event, or to have  *)
(* it accepted; an alert to be sent to everyone.                           *)
LEMMA UnlockStep ==
  ASSUME IInv, Unlock
  PROVE  IInv'
<1>1. /\ holder # Nobody /\ batch = <<>> /\ Go(holder, Onward(holder))
      /\ left' = [left EXCEPT ![holder] =
                    CASE Onward(holder) = "send" -> Order
                      [] Onward(holder) = "queue" -> Audience[Head(pending)]
                      [] OTHER -> <<>>]
      /\ holder' = Nobody
      /\ UNCHANGED <<raised, pending, outbox, receipts, up, outages, second, batch,
                     blocked, unacked, failed, shown, queuedAs, mishaps>>
  BY DEF Unlock
<1>2. Typed /\ Backlog /\ Places /\ ShowsMore /\ ~unacked /\ holder \in Senders
  BY <1>1, ShownStays DEF IInv, Places, Typed
<1>3. /\ holder \in Alerts => Onward(holder) = "send" /\ pc[holder] = "flush"
      /\ holder = "poller" => Onward(holder) = "idle"
      /\ holder = "controller" =>
           /\ pc[holder] = "flush" => Onward(holder) = "queue"
           /\ pc[holder] = "reflush" => Onward(holder) = "accepted"
           /\ pc[holder] \in {"flush", "reflush"}
  BY <1>2, SendersAre DEF Onward, Places
<1>4. Onward(holder) \in Stages
  BY <1>2, <1>3, SendersAre DEF Stages
<1>5. /\ pc' \in [Senders -> Stages] /\ pc'[holder] = Onward(holder)
      /\ \A r \in Senders : r # holder => pc'[r] = pc[r]
  BY <1>1, <1>2, <1>4, Goes
<1>6. /\ \A r \in Senders : r # holder => left'[r] = left[r]
      /\ Onward(holder) = "send" => left'[holder] = Order
      /\ Onward(holder) = "queue" => left'[holder] = Audience[Head(pending)]
  BY <1>1, <1>2 DEF Typed
<1>7. holder = "controller" => Head(pending) = Done + 1 /\ Done + 1 \in Events
  <2>1. holder = "controller" => pending # <<>>
    BY <1>2, <1>3 DEF Places
  <2>2. QED BY <1>2, <2>1, DoneIsTyped
<1>8. left' \in [Senders -> Seq(Targets)]
  <2>1. Onward(holder) = "queue" => holder = "controller"
    BY <1>2, <1>3, SendersAre
  <2>2. (CASE Onward(holder) = "send" -> Order
           [] Onward(holder) = "queue" -> Audience[Head(pending)]
           [] OTHER -> <<>>) \in Seq(Targets)
    BY <1>7, <2>1, Constants, EmptySeq
  <2>3. QED BY <1>1, <1>2, <2>2 DEF Typed
<1>9. Typed'
  BY <1>1, <1>2, <1>5, <1>8 DEF Typed, Stages
<1>10. Places'
  <2>1. pc'["poller"] = "idle"
    BY <1>2, <1>3, <1>5, SendersAre DEF Places
  <2>2. /\ pc'["controller"] \in {"idle", "flush", "queue", "reflush", "accepted"}
        /\ pc'["controller"] # "idle" => pc["controller"] # "idle"
    BY <1>2, <1>3, <1>5, SendersAre DEF Places
  <2>3. \A a \in Alerts : pc'[a] \in {"idle", "flush", "send", "queue", "done"}
    BY <1>2, <1>3, <1>5, SendersAre DEF Places
  <2>4. holder' # "controller" /\ holder' \notin Alerts
    BY <1>1, SendersAre
  <2>5. QED BY <1>1, <1>2, <2>1, <2>2, <2>3, <2>4 DEF Places
<1>11. Backlog' /\ AcceptedAreServed'
  BY <1>1, <1>2, AcceptedStay DEF Backlog, Done
<1>12. BeingServed'
  <2>1. CASE holder # "controller"
    <3>1. pc'["controller"] = pc["controller"] /\ left'["controller"] = left["controller"]
      BY <1>5, <1>6, <2>1, SendersAre
    <3>2. QED BY <1>1, <1>2, <3>1, BeingServedStays
  <2>2. CASE holder = "controller"
    <3>1. PICK n \in Events : n = Done + 1
      BY <1>7, <2>2
    <3>2. Done' + 1 = n
      BY <1>1, <3>1 DEF Done
    <3>3. CASE pc["controller"] = "flush"
      <4>1. pc'["controller"] = "queue" /\ left'["controller"] = Audience[n]
        BY <1>3, <1>5, <1>6, <1>7, <2>2, <3>1, <3>3
      <4>2. /\ Audience[n] # <<>>
            /\ \A t \in For(n) : \E k \in 1..Len(Audience[n]) : Audience[n][k] = t
        BY Constants
      <4>3. QED BY <3>2, <4>1, <4>2 DEF BeingServed
    <3>4. CASE pc["controller"] = "reflush"
      <4>1. pc'["controller"] = "accepted"
        BY <1>3, <1>5, <2>2, <3>4
      <4>2. \A t \in For(n) : Served(n, t)
        BY <3>1, <3>4 DEF IInv, BeingServed
      <4>3. \A t \in For(n) : Served(n, t)'
        BY <1>1, <4>2 DEF Served, Seen, Queued
      <4>4. QED BY <3>2, <4>1, <4>3 DEF BeingServed
    <3>5. QED BY <1>3, <2>2, <3>3, <3>4
  <2>3. QED BY <2>1, <2>2
<1>13. ItemsAreProper' /\ BatchIsQueued' /\ OutboxInOrder' /\ BatchInOrder'
       /\ EventsInOrder' /\ ReceiptsAreSeen' /\ HeadIsSeen'
  BY <1>1, <1>2, ItemsStay, OutboxStays, BatchStays, EventsStayInOrder, ReceiptsStay,
     HeadStays
<1>14. EventCopies' /\ AlertCopies' /\ AlertsAreKept'
  BY <1>1, <1>2, EventCopiesStay, AlertCopiesStay, AlertsStayKept
<1>15. AlertStages'
  <2>1. CASE holder \notin Alerts
    BY <1>1, <1>5, <1>6, <2>1, StagesStay, SendersAre
  <2>2. CASE holder \in Alerts
    <3> SUFFICES ASSUME NEW a \in Alerts
                 PROVE  /\ pc'[a] = "send" =>
                             /\ left'[a] # <<>>
                             /\ \A j, k \in 1..Len(left'[a]) :
                                  left'[a][j] = left'[a][k] => j = k
                        /\ failed[a] # {} => pc'[a] \in {"send", "queue"}
                        /\ \A t \in Targets :
                             /\ ToSend(a, t)' => shown[<<a, t>>] = 0 /\ t \notin failed[a]
                                                 /\ queuedAs[<<a, t>>] = None
                             /\ t \in failed[a] => queuedAs[<<a, t>>] = None
      BY <1>1 DEF AlertStages
    <3>1. CASE a # holder
      <4>1. pc'[a] = pc[a] /\ left'[a] = left[a]
        BY <1>5, <1>6, <3>1, SendersAre
      <4>2. \A t \in Targets : ToSend(a, t)' <=> ToSend(a, t)
        BY <4>1 DEF ToSend
      <4>3. QED BY <4>1, <4>2 DEF IInv, AlertStages
    <3>2. CASE a = holder
      <4>1. pc'[a] = "send" /\ left'[a] = Order /\ pc[a] = "flush"
        BY <1>3, <1>5, <1>6, <2>2, <3>2
      <4>2. \A t \in Targets : ToSend(a, t)
        BY <4>1 DEF ToSend
      <4>3. \A t \in Targets : shown[<<a, t>>] = 0 /\ t \notin failed[a]
                               /\ queuedAs[<<a, t>>] = None
        BY <4>2 DEF IInv, AlertStages
      <4>4. failed[a] = {}
        BY <4>1 DEF IInv, AlertStages
      <4>5. QED BY <4>1, <4>3, <4>4, Constants
    <3>3. QED BY <3>1, <3>2
  <2>3. QED BY <2>1, <2>2
<1>16. QED
  BY <1>9, <1>10, <1>11, <1>12, <1>13, <1>14, <1>15 DEF IInv

(* What queueing does: the items stay, and one may be added at the end.    *)
Extends(item) ==
  /\ outbox' \in Seq(Message) /\ Distinct(outbox)'
  /\ Len(outbox) \in Nat /\ Len(outbox') \in Nat
  /\ \A k \in 1..Len(outbox) : k \in 1..Len(outbox') /\ outbox'[k] = outbox[k]
  /\ \A k \in 1..Len(outbox') :
       k \notin 1..Len(outbox) =>
         /\ k = Len(outbox) + 1 /\ outbox'[k] = item
         /\ ~Queued(item.id, item.target)

LEMMA QueueExtends ==
  ASSUME IInv, NEW id \in Ids, NEW t \in Targets, NEW x \in Texts, Queue(id, t, x)
  PROVE  Extends(Item(id, t, x)) /\ Queued(id, t)'
<1>1. Typed /\ Distinct(outbox) /\ Len(outbox) \in Nat
  BY LenProperties DEF IInv, BatchIsQueued, Typed
<1>2. CASE Queued(id, t)
  <2>1. UNCHANGED outbox
    BY <1>2 DEF Queue
  <2>2. outbox \in Seq(Message)
    BY <1>1 DEF Typed
  <2>3. QED BY <1>1, <1>2, <2>1, <2>2 DEF Extends, Distinct, Queued
<1>3. CASE ~Queued(id, t)
  <2>1. outbox' = Append(outbox, Item(id, t, x))
    BY <1>3 DEF Queue
  <2>2. /\ outbox' \in Seq(Message) /\ Distinct(outbox)'
        /\ Len(outbox') = Len(outbox) + 1
        /\ \A k \in 1..Len(outbox) : outbox'[k] = outbox[k]
        /\ outbox'[Len(outbox) + 1] = Item(id, t, x)
    BY <1>1, <1>3, <2>1, Adding
  <2>3. Item(id, t, x).id = id /\ Item(id, t, x).target = t
    BY DEF Item
  <2>4. Len(outbox') \in Nat /\ Len(outbox) + 1 \in 1..Len(outbox')
    BY <1>1, <2>2
  <2>5. Queued(id, t)'
    BY <2>2, <2>3, <2>4, QueuedIsNext
  <2>6. \A k \in 1..Len(outbox') : k \notin 1..Len(outbox) => k = Len(outbox) + 1
    BY <1>1, <2>2
  <2>7. \A k \in 1..Len(outbox) : k \in 1..Len(outbox')
    BY <1>1, <2>2
  <2>8. QED BY <1>1, <1>3, <2>2, <2>3, <2>4, <2>5, <2>6, <2>7 DEF Extends
<1>4. QED BY <1>2, <1>3

LEMMA ExtendedKeeps ==
  ASSUME Typed, NEW item, Extends(item)
  PROVE  /\ \A id, t : Queued(id, t) => Queued(id, t)'
         /\ \A a, t : HasItem(a, t) => HasItem(a, t)'
         /\ \A a, t : HasItem(a, t)' =>
              HasItem(a, t) \/ (item.text = a /\ item.target = t)
<1>1. ASSUME NEW id, NEW t, Queued(id, t) PROVE Queued(id, t)'
  <2>1. PICK k \in 1..Len(outbox) : outbox[k].id = id /\ outbox[k].target = t
    BY <1>1, QueuedIs
  <2>2. k \in 1..Len(outbox') /\ outbox'[k].id = id /\ outbox'[k].target = t
    BY <2>1 DEF Extends
  <2>3. outbox' \in Seq(Message)
    BY DEF Extends
  <2>4. QED BY <2>2, <2>3, QueuedIsNext
<1>2. ASSUME NEW a, NEW t, HasItem(a, t) PROVE HasItem(a, t)'
  BY <1>2 DEF HasItem, Extends
<1>3. ASSUME NEW a, NEW t, HasItem(a, t)'
      PROVE  HasItem(a, t) \/ (item.text = a /\ item.target = t)
  BY <1>3 DEF HasItem, Extends
<1>4. QED BY <1>1, <1>2, <1>3

LEMMA ExtendedBatch ==
  ASSUME IInv, NEW item, Extends(item), UNCHANGED batch
  PROVE  BatchIsQueued'
<1>1. Distinct(outbox)' /\ Distinct(batch)'
  BY DEF IInv, BatchIsQueued, Extends, Distinct
<1>2. ASSUME NEW k \in 1..Len(batch) PROVE \E j \in 1..Len(outbox') : outbox'[j] = batch[k]
  <2>1. PICK j \in 1..Len(outbox) : outbox[j] = batch[k]
    BY DEF IInv, BatchIsQueued
  <2>2. QED BY <2>1 DEF Extends
<1>3. QED BY <1>1, <1>2 DEF BatchIsQueued

LEMMA QueueEventStep ==
  ASSUME IInv, QueueEvent
  PROVE  IInv'
<1>1. /\ pc["controller"] = "queue"
      /\ IF WasDelivered(EventId(Head(pending)), Head(left["controller"]))
         THEN UNCHANGED outbox
         ELSE Queue(EventId(Head(pending)), Head(left["controller"]), Head(pending))
      /\ left' = [left EXCEPT !["controller"] = Tail(@)]
      /\ IF Len(left["controller"]) = 1 THEN Go("controller", "reflush") ELSE UNCHANGED pc
      /\ UNCHANGED <<raised, pending, receipts, up, outages, second, failed, shown,
                     queuedAs, mishaps, holder, batch, blocked, unacked>>
  BY DEF QueueEvent, flushing
<1>2. Typed /\ Backlog /\ Places /\ ShowsMore
  BY <1>1, ShownStays DEF IInv
<1>3. pending # <<>> /\ Done + 1 \in 1..raised /\ Done + 1 \in Events
      /\ Head(pending) = Done + 1 /\ Done \in Nat /\ raised \in Nat
  <2>1. pending # <<>>
    BY <1>1, <1>2 DEF Places
  <2>2. QED BY <1>2, <2>1, DoneIsTyped
<1>4. PICK n \in Events : n = Done + 1 /\ n = Head(pending) /\ n \in 1..raised
  BY <1>3
<1>5. Done' + 1 = n
  BY <1>1, <1>4 DEF Done
<1>6. left["controller"] \in Seq(Targets) /\ left["controller"] # <<>>
  BY <1>1, <1>2, SendersAre DEF IInv, BeingServed, Typed
<1>7. PICK rest : rest = left["controller"]
  OBVIOUS
<1>8. PICK t \in Targets : t = Head(rest) /\ t = rest[1]
  BY <1>6, <1>7, HeadAndTail
<1>9. /\ rest \in Seq(Targets) /\ rest # <<>> /\ Len(rest) \in Nat \ {0}
      /\ Tail(rest) \in Seq(Targets) /\ Len(Tail(rest)) = Len(rest) - 1
      /\ \A k \in 1..Len(Tail(rest)) : k + 1 \in 1..Len(rest) /\ Tail(rest)[k] = rest[k + 1]
      /\ Tail(rest) = <<>> <=> Len(rest) = 1
  BY <1>6, <1>7, HeadAndTail
<1>10. n \in Nat /\ n \in Texts /\ n \notin Alerts /\ EventId(n) \in Ids
  BY <1>4, EventsAreTexts DEF Ids
<1>11. IF WasDelivered(EventId(n), t) THEN UNCHANGED outbox ELSE Queue(EventId(n), t, n)
  BY <1>1, <1>4, <1>7, <1>8
<1>12. Extends(Item(EventId(n), t, n)) /\ (Seen(n, t) \/ Queued(EventId(n), t)')
  <2>1. CASE WasDelivered(EventId(n), t)
    <3>1. Seen(n, t)
      <4>1. PICK e \in Events, u \in Targets : <<EventId(n), t>> = <<EventId(e), u>> /\ Seen(e, u)
        BY <2>1 DEF IInv, ReceiptsAreSeen, WasDelivered
      <4>2. EventId(n) = EventId(e) /\ t = u /\ e \in Nat
        BY <4>1, EventsAreTexts
      <4>3. QED BY <1>10, <4>1, <4>2, Numbers
    <3>2. UNCHANGED outbox
      BY <1>11, <2>1
    <3>3. outbox \in Seq(Message) /\ Len(outbox) \in Nat
      BY <1>2, LenProperties DEF Typed
    <3>4. QED BY <3>1, <3>2, <3>3 DEF IInv, BatchIsQueued, Extends, Distinct
  <2>2. CASE ~WasDelivered(EventId(n), t)
    <3>1. Queue(EventId(n), t, n)
      BY <1>11, <2>2
    <3>2. QED BY <1>10, <3>1, QueueExtends
  <2>3. QED BY <2>1, <2>2
<1>13. /\ outbox' \in Seq(Message) /\ Len(outbox) \in Nat /\ Len(outbox') \in Nat
       /\ \A k \in 1..Len(outbox) : k \in 1..Len(outbox') /\ outbox'[k] = outbox[k]
       /\ \A k \in 1..Len(outbox') :
            k \notin 1..Len(outbox) =>
              k = Len(outbox) + 1 /\ outbox'[k] = Item(EventId(n), t, n)
  BY <1>12 DEF Extends
<1>14. /\ \A id, u : Queued(id, u) => Queued(id, u)'
       /\ \A a, u : HasItem(a, u) => HasItem(a, u)'
       /\ \A a, u : HasItem(a, u)' => HasItem(a, u) \/ n = a
  <2>1. Item(EventId(n), t, n).text = n
    BY DEF Item
  <2>2. QED BY <1>2, <1>12, <2>1, ExtendedKeeps
<1>15. /\ left' \in [Senders -> Seq(Targets)] /\ left'["controller"] = Tail(rest)
       /\ \A a \in Alerts : left'[a] = left[a]
  BY <1>1, <1>2, <1>7, <1>9, SendersAre DEF Typed
<1>16. /\ pc' \in [Senders -> Stages]
       /\ \A r \in Senders : r # "controller" => pc'[r] = pc[r]
       /\ \/ pc'["controller"] = "reflush" /\ Tail(rest) = <<>>
          \/ pc'["controller"] = "queue" /\ Tail(rest) # <<>>
  <2>1. CASE Len(rest) = 1
    <3>1. Go("controller", "reflush") /\ "reflush" \in Stages
      BY <1>1, <1>7, <2>1 DEF Stages
    <3>2. QED BY <1>2, <1>9, <2>1, <3>1, Goes, SendersAre
  <2>2. CASE Len(rest) # 1
    <3>1. UNCHANGED pc
      BY <1>1, <1>7, <2>2
    <3>2. QED BY <1>1, <1>2, <1>9, <2>2, <3>1 DEF Typed, Stages
  <2>3. QED BY <2>1, <2>2
<1>17. pc'["poller"] = pc["poller"] /\ \A a \in Alerts : pc'[a] = pc[a]
  BY <1>16, SendersAre
<1>18. Typed'
  BY <1>1, <1>2, <1>13, <1>15, <1>16 DEF Typed, Stages
<1>19. Places'
  <2>1. holder # "controller"
    BY <1>1, <1>2 DEF Places
  <2>2. pc'["controller"] \in {"queue", "reflush"}
    BY <1>16
  <2>3. QED BY <1>1, <1>2, <1>3, <1>17, <2>1, <2>2 DEF Places
<1>20. Backlog'
  BY <1>1, <1>2 DEF Backlog, Done
<1>21. \A e, u : Served(e, u) => Served(e, u)'
  BY <1>1, <1>14 DEF Served, Seen
<1>22. AcceptedAreServed'
  BY <1>1, <1>21 DEF IInv, AcceptedAreServed, Done
<1>23. BeingServed'
  <2>1. \A u \in For(n) : Served(n, u) \/ \E k \in 1..Len(rest) : rest[k] = u
    BY <1>1, <1>4, <1>7 DEF IInv, BeingServed
  <2>2. Served(n, t)'
    BY <1>1, <1>12 DEF Served, Seen
  <2>3. ASSUME NEW u \in For(n), NEW k \in 1..Len(rest), rest[k] = u
        PROVE  Served(n, u)' \/ \E j \in 1..Len(Tail(rest)) : Tail(rest)[j] = u
    <3>1. CASE k = 1
      BY <1>8, <2>2, <2>3, <3>1
    <3>2. CASE k # 1
      <4>1. k - 1 \in 1..Len(Tail(rest)) /\ (k - 1) + 1 = k
        BY <1>9, <3>2
      <4>2. Tail(rest)[k - 1] = rest[k]
        BY <1>9, <4>1
      <4>3. QED BY <2>3, <4>1, <4>2
    <3>3. QED BY <3>1, <3>2
  <2>4. \A u \in For(n) : Served(n, u)' \/ \E j \in 1..Len(Tail(rest)) : Tail(rest)[j] = u
    BY <1>21, <2>1, <2>3
  <2>5. Tail(rest) = <<>> => \A u \in For(n) : Served(n, u)'
    <3>1. Tail(rest) = <<>> => Len(Tail(rest)) = 0
      BY <1>9
    <3>2. QED BY <2>4, <3>1
  <2>6. QED BY <1>5, <1>15, <1>16, <2>4, <2>5 DEF BeingServed
<1>24. BatchIsQueued'
  BY <1>1, <1>12, ExtendedBatch
<1>25. ItemsAreProper'
  <2>1. PICK top \in Nat : top = raised
    BY <1>3
  <2>2. PICK done \in Nat : done = Done
    BY <1>3
  <2>3. raised' = top /\ top >= raised /\ Done' = done /\ done >= Done
    BY <1>1, <1>3, <2>1, <2>2 DEF Done
  <2>4. ASSUME NEW i, Proper(i) PROVE Proper(i)'
    BY <1>1, <1>2, <2>3, <2>4, ProperStays
  <2>5. Proper(Item(EventId(n), t, n))
    <3>1. OfEvent(Item(EventId(n), t, n), n)
      BY DEF OfEvent, Item
    <3>2. n <= Done + 1
      BY <1>3, <1>4
    <3>3. QED BY <1>4, <3>1, <3>2 DEF Proper
  <2>6. \A k \in 1..Len(outbox') : Proper(outbox'[k])
    BY <1>13, <2>5 DEF IInv, ItemsAreProper
  <2>7. \A k \in 1..Len(batch') : Proper(batch'[k])
    BY <1>1 DEF IInv, ItemsAreProper
  <2>8. QED BY <2>4, <2>6, <2>7 DEF ItemsAreProper
<1>26. OutboxInOrder'
  <2> SUFFICES ASSUME NEW k \in 1..Len(outbox'), NEW e \in Events, NEW m \in 1..(e - 1),
                      outbox'[k].id = EventId(e), outbox'[k].target \in For(m)
               PROVE  Seen(m, outbox'[k].target) \/ Before(outbox, k, m, outbox[k].target)'
    BY <1>1 DEF OutboxInOrder, Seen
  <2>1. CASE k \in 1..Len(outbox)
    <3>1. outbox'[k] = outbox[k]
      BY <1>13, <2>1
    <3>2. Seen(m, outbox[k].target) \/ Before(outbox, k, m, outbox[k].target)
      BY <2>1, <3>1 DEF IInv, OutboxInOrder
    <3>3. \A j \in 1..(k - 1) : j \in 1..Len(outbox)
      BY <1>13, <2>1
    <3>4. QED BY <1>13, <3>1, <3>2, <3>3 DEF Before
  <2>2. CASE k \notin 1..Len(outbox)
    <3>1. k = Len(outbox) + 1 /\ outbox'[k] = Item(EventId(n), t, n)
      BY <1>13, <2>2
    <3>2. e = n /\ outbox'[k].target = t
      <4>1. EventId(e) = EventId(n) /\ e \in Nat
        BY <3>1, EventsAreTexts DEF Item
      <4>2. QED BY <1>10, <3>1, <4>1, Numbers DEF Item
    <3>3. m \in 1..Done /\ t \in For(m)
      BY <1>3, <1>4, <3>2
    <3>4. Seen(m, t) \/ Queued(EventId(m), t)
      BY <3>3 DEF IInv, AcceptedAreServed, Served
    <3>5. ASSUME NEW j \in 1..Len(outbox), outbox[j].id = EventId(m), outbox[j].target = t
          PROVE  Before(outbox, k, m, outbox[k].target)'
      <4>1. j \in 1..(k - 1) /\ outbox'[j] = outbox[j]
        BY <1>13, <3>1
      <4>2. QED BY <3>2, <3>5, <4>1 DEF Before
    <3>6. QED BY <1>2, <3>2, <3>4, <3>5, QueuedIs
  <2>3. QED BY <2>1, <2>2
<1>27. BatchInOrder' /\ EventsInOrder' /\ ReceiptsAreSeen' /\ HeadIsSeen'
  BY <1>1, <1>2, BatchStays, EventsStayInOrder, ReceiptsStay, HeadStays
<1>28. EventCopies' /\ AlertStages'
  BY <1>1, <1>15, <1>17, EventCopiesStay, StagesStay
<1>29. AlertCopies'
  <2>1. \A a \in Alerts : \A u \in Targets : HasItem(a, u)' => HasItem(a, u)
    BY <1>10, <1>14
  <2>2. QED BY <1>1, <2>1 DEF IInv, AlertCopies, Unanswered
<1>30. AlertsAreKept'
  BY <1>1, <1>14 DEF IInv, AlertsAreKept
<1>31. QED
  BY <1>18, <1>19, <1>20, <1>22, <1>23, <1>24, <1>25, <1>26, <1>27, <1>28, <1>29, <1>30
     DEF IInv

(* An alert with an item was queued.                                       *)
LEMMA ItemIsQueued ==
  ASSUME IInv, NEW a \in Alerts, NEW t \in Targets, HasItem(a, t)
  PROVE  queuedAs[<<a, t>>] # None
<1>1. PICK k \in 1..Len(outbox) : outbox[k].text = a /\ outbox[k].target = t
  BY DEF HasItem
<1>2. Proper(outbox[k])
  BY DEF IInv, ItemsAreProper
<1>3. OfAlert(outbox[k])
  <2>1. ASSUME NEW n \in 1..raised, OfEvent(outbox[k], n) PROVE FALSE
    <3>1. n \in Events
      BY DoneIsTyped DEF IInv
    <3>2. QED BY <1>1, <2>1, <3>1, EventsAreTexts DEF OfEvent
  <2>2. QED BY <1>2, <2>1 DEF Proper
<1>4. PICK now \in Nat : outbox[k].id = AlertId(now)
  BY <1>3 DEF OfAlert
<1>5. QED BY <1>1, <1>3, <1>4, Numbers DEF OfAlert

LEMMA SendAlertStep ==
  ASSUME IInv, NEW a \in Alerts, SendAlert(a)
  PROVE  IInv'
<1>1. /\ pc[a] = "send"
      /\ left' = [left EXCEPT ![a] = Tail(@)]
      /\ IF Len(left[a]) = 1 THEN Go(a, "queue") ELSE UNCHANGED pc
      /\ UNCHANGED <<raised, pending, outbox, receipts, up, outages, second, queuedAs,
                     holder, batch, blocked, unacked>>
  BY DEF SendAlert, flushing
<1>2. Typed /\ Backlog /\ Places /\ a \in Senders /\ a \in Texts
  BY SendersAre, EventsAreTexts DEF IInv
<1>3. left[a] \in Seq(Targets) /\ left[a] # <<>>
      /\ \A j, k \in 1..Len(left[a]) : left[a][j] = left[a][k] => j = k
  BY <1>1, <1>2 DEF IInv, AlertStages, Typed
<1>4. PICK rest : rest = left[a]
  OBVIOUS
<1>5. /\ rest \in Seq(Targets) /\ rest # <<>> /\ Len(rest) \in Nat \ {0}
      /\ Head(rest) = rest[1] /\ rest[1] \in Targets
      /\ Tail(rest) \in Seq(Targets) /\ Len(Tail(rest)) = Len(rest) - 1
      /\ \A k \in 1..Len(Tail(rest)) : k + 1 \in 1..Len(rest) /\ Tail(rest)[k] = rest[k + 1]
      /\ Tail(rest) = <<>> <=> Len(rest) = 1
  BY <1>3, <1>4, HeadAndTail
<1>6. PICK t \in Targets : t = Head(rest) /\ t = rest[1]
  BY <1>5
<1>7. \/ Sent(a, t) /\ UNCHANGED failed
      \/ NotSent(a, t) /\ failed' = [failed EXCEPT ![a] = @ \cup {t}]
  BY <1>4, <1>6 DEF SendAlert
<1>8. shown[<<a, t>>] = 0 /\ t \notin failed[a] /\ queuedAs[<<a, t>>] = None
  <2>1. 1 \in 1..Len(rest)
    BY <1>5
  <2>2. ToSend(a, t)
    BY <1>1, <1>4, <1>6, <2>1 DEF ToSend
  <2>3. QED BY <2>2 DEF IInv, AlertStages
<1>9. PICK few \in Nat : few = mishaps
  BY <1>2 DEF Typed
<1>10. \/ Show(a, t) /\ mishaps' = few /\ UNCHANGED failed
       \/ /\ UNCHANGED shown /\ mishaps' = few
          /\ failed' = [failed EXCEPT ![a] = @ \cup {t}]
       \/ /\ Show(a, t) /\ mishaps' = few + 1
          /\ failed' = [failed EXCEPT ![a] = @ \cup {t}]
  BY <1>7, <1>9 DEF Sent, NotSent, Mishap
<1>11. PICK more \in Nat : mishaps' = more /\ few <= more /\ mishaps <= more
  BY <1>9, <1>10
<1>12. /\ shown' \in [Texts \X Targets -> Nat]
       /\ \A y \in Texts, u \in Targets :
            <<y, u>> # <<a, t>> => shown'[<<y, u>>] = shown[<<y, u>>]
       /\ shown'[<<a, t>>] \in {0, 1}
       /\ ShowsMore
  <2>1. CASE Show(a, t)
    <3>1. /\ shown' \in [Texts \X Targets -> Nat]
          /\ shown'[<<a, t>>] = shown[<<a, t>>] + 1
          /\ \A y \in Texts, u \in Targets :
               <<y, u>> # <<a, t>> => shown'[<<y, u>>] = shown[<<y, u>>]
      BY <1>2, <2>1, ShowCounts, Zenon
    <3>2. ShowsMore
      BY <1>2, <2>1, MoreIsShown
    <3>3. shown'[<<a, t>>] = 0 + 1
      BY <1>8, <3>1
    <3>4. QED BY <3>1, <3>2, <3>3
  <2>2. CASE UNCHANGED shown
    BY <1>2, <1>8, <2>2, ShownStays DEF Typed
  <2>3. QED BY <1>10, <2>1, <2>2
<1>13. /\ failed' \in [Senders -> SUBSET Targets]
       /\ \A b \in Alerts : b # a => failed'[b] = failed[b]
       /\ \A u \in Targets : u # t => (u \in failed'[a] <=> u \in failed[a])
  <2>1. failed \in [Senders -> SUBSET Targets] /\ failed[a] \in SUBSET Targets
    BY <1>2 DEF Typed
  <2>2. CASE UNCHANGED failed
    BY <2>1, <2>2
  <2>3. CASE failed' = [failed EXCEPT ![a] = @ \cup {t}]
    <3>1. failed[a] \cup {t} \in SUBSET Targets
      BY <2>1
    <3>2. failed' \in [Senders -> SUBSET Targets] /\ failed'[a] = failed[a] \cup {t}
          /\ \A r \in Senders : r # a => failed'[r] = failed[r]
      BY <1>2, <2>1, <2>3, <3>1
    <3>3. QED BY <3>2, SendersAre
  <2>4. QED BY <1>10, <2>2, <2>3
<1>14. t \in failed'[a] => shown'[<<a, t>>] <= more
  <2>1. CASE Show(a, t) /\ mishaps' = few /\ UNCHANGED failed
    BY <1>8, <2>1
  <2>2. CASE UNCHANGED shown
    BY <1>8, <2>2
  <2>3. CASE mishaps' = few + 1
    <3>1. more = few + 1
      BY <1>11, <2>3
    <3>2. QED BY <1>12, <3>1
  <2>4. QED BY <1>10, <2>1, <2>2, <2>3
<1>15. /\ left' \in [Senders -> Seq(Targets)] /\ left'[a] = Tail(rest)
       /\ \A r \in Senders : r # a => left'[r] = left[r]
  BY <1>1, <1>2, <1>4, <1>5 DEF Typed
<1>16. /\ pc' \in [Senders -> Stages]
       /\ \A r \in Senders : r # a => pc'[r] = pc[r]
       /\ \/ pc'[a] = "queue" /\ Tail(rest) = <<>>
          \/ pc'[a] = "send" /\ Tail(rest) # <<>>
  <2>1. CASE Len(rest) = 1
    <3>1. Go(a, "queue") /\ "queue" \in Stages
      BY <1>1, <1>4, <2>1 DEF Stages
    <3>2. QED BY <1>2, <1>5, <2>1, <3>1, Goes
  <2>2. CASE Len(rest) # 1
    <3>1. UNCHANGED pc
      BY <1>1, <1>4, <2>2
    <3>2. QED BY <1>1, <1>2, <1>5, <2>2, <3>1 DEF Typed, Stages
  <2>3. QED BY <2>1, <2>2
<1>17. /\ pc'["controller"] = pc["controller"] /\ pc'["poller"] = pc["poller"]
       /\ left'["controller"] = left["controller"]
       /\ \A b \in Alerts : b # a => pc'[b] = pc[b] /\ left'[b] = left[b]
  BY <1>15, <1>16, SendersAre
<1>18. Typed'
  BY <1>1, <1>2, <1>11, <1>12, <1>13, <1>15, <1>16 DEF Typed, Stages
<1>19. Places'
  <2>1. holder \in Alerts => holder # a /\ pc'[holder] = "flush"
    BY <1>1, <1>2, <1>17 DEF Places
  <2>2. \A b \in Alerts : pc'[b] \in {"idle", "flush", "send", "queue", "done"}
    BY <1>2, <1>16, <1>17 DEF Places
  <2>3. QED BY <1>1, <1>2, <1>17, <2>1, <2>2 DEF Places
<1>20. Backlog' /\ AcceptedAreServed' /\ BeingServed'
  BY <1>1, <1>2, <1>12, <1>17, AcceptedStay, BeingServedStays DEF Backlog, Done
<1>21. ItemsAreProper' /\ BatchIsQueued' /\ OutboxInOrder' /\ BatchInOrder' /\ ReceiptsAreSeen'
       /\ AlertsAreKept'
  BY <1>1, <1>12, ItemsStay, OutboxStays, BatchStays, ReceiptsStay, AlertsStayKept
<1>22. \A n \in Events, u \in Targets : shown'[<<n, u>>] = shown[<<n, u>>]
  BY <1>12, EventsAreTexts
<1>23. EventsInOrder'
  BY <1>22, EventsAreTexts DEF IInv, EventsInOrder
<1>24. HeadIsSeen'
  <2>1. unacked => batch[1].text \in Texts /\ batch[1].target \in Targets
    BY <1>2, HeadOfBatch DEF Places
  <2>2. QED BY <1>1, <1>12, <2>1 DEF IInv, HeadIsSeen, Seen, ShowsMore
<1>25. \A y \in Texts, u \in Targets :
         /\ shown[<<y, u>>] <= mishaps => shown[<<y, u>>] <= more
         /\ shown[<<y, u>>] <= 1 + mishaps => shown[<<y, u>>] <= 1 + more
  <2> SUFFICES ASSUME NEW y \in Texts, NEW u \in Targets
               PROVE  /\ shown[<<y, u>>] <= mishaps => shown[<<y, u>>] <= more
                      /\ shown[<<y, u>>] <= 1 + mishaps => shown[<<y, u>>] <= 1 + more
    OBVIOUS
  <2>1. PICK seen \in Nat : seen = shown[<<y, u>>]
    BY <1>2 DEF Typed
  <2>2. (seen <= few => seen <= more) /\ (seen <= 1 + few => seen <= 1 + more)
    BY <1>11
  <2>3. QED BY <1>9, <2>1, <2>2
<1>26. EventCopies'
  <2>1. \A n \in Events, u \in Targets :
          /\ shown[<<n, u>>] <= 1 + more
          /\ ~WasDelivered(EventId(n), u) /\ ~Unanswered(n, u) => shown[<<n, u>>] <= more
    BY <1>25, EventsAreTexts DEF IInv, EventCopies
  <2>2. QED BY <1>1, <1>11, <1>22, <2>1 DEF EventCopies, Unanswered, WasDelivered
<1>27. AlertStages'
  <2> SUFFICES ASSUME NEW b \in Alerts
               PROVE  /\ pc'[b] = "send" =>
                           /\ left'[b] # <<>>
                           /\ \A j, k \in 1..Len(left'[b]) :
                                left'[b][j] = left'[b][k] => j = k
                      /\ failed'[b] # {} => pc'[b] \in {"send", "queue"}
                      /\ \A u \in Targets :
                           /\ ToSend(b, u)' => shown'[<<b, u>>] = 0 /\ u \notin failed'[b]
                                               /\ queuedAs[<<b, u>>] = None
                           /\ u \in failed'[b] => queuedAs[<<b, u>>] = None
    BY <1>1 DEF AlertStages
  <2>1. CASE b # a
    <3>1. pc'[b] = pc[b] /\ left'[b] = left[b] /\ failed'[b] = failed[b]
          /\ \A u \in Targets : shown'[<<b, u>>] = shown[<<b, u>>]
      BY <1>12, <1>13, <1>17, <2>1, EventsAreTexts
    <3>2. \A u \in Targets : ToSend(b, u)' <=> ToSend(b, u)
      BY <3>1 DEF ToSend
    <3>3. /\ pc[b] = "send" =>
               /\ left[b] # <<>>
               /\ \A j, k \in 1..Len(left[b]) : left[b][j] = left[b][k] => j = k
          /\ failed[b] # {} => pc[b] \in {"send", "queue"}
          /\ \A u \in Targets :
               /\ ToSend(b, u) => shown[<<b, u>>] = 0 /\ u \notin failed[b]
                                  /\ queuedAs[<<b, u>>] = None
               /\ u \in failed[b] => queuedAs[<<b, u>>] = None
      BY DEF IInv, AlertStages
    <3>4. QED BY <3>1, <3>2, <3>3
  <2>2. CASE b = a
    <3>1. pc'[a] = "send" =>
            /\ left'[a] # <<>>
            /\ \A j, k \in 1..Len(left'[a]) : left'[a][j] = left'[a][k] => j = k
      <4>1. ASSUME NEW j \in 1..Len(Tail(rest)), NEW k \in 1..Len(Tail(rest)),
                   Tail(rest)[j] = Tail(rest)[k]
            PROVE  j = k
        <5>1. /\ j + 1 \in 1..Len(rest) /\ Tail(rest)[j] = rest[j + 1]
              /\ k + 1 \in 1..Len(rest) /\ Tail(rest)[k] = rest[k + 1]
          BY <1>5
        <5>2. j + 1 = k + 1
          BY <1>3, <1>4, <4>1, <5>1
        <5>3. QED BY <5>2
      <4>2. QED BY <1>15, <1>16, <4>1
    <3>2. ASSUME NEW u \in Targets, ToSend(a, u)'
          PROVE  shown'[<<a, u>>] = 0 /\ u \notin failed'[a] /\ queuedAs[<<a, u>>] = None
      <4>1. PICK k \in 1..Len(Tail(rest)) : Tail(rest)[k] = u
        BY <1>15, <1>16, <3>2 DEF ToSend
      <4>2. k + 1 \in 1..Len(rest) /\ rest[k + 1] = u /\ k + 1 # 1
        BY <1>5, <4>1
      <4>3. u # t
        BY <1>3, <1>4, <1>5, <1>6, <4>2
      <4>4. ToSend(a, u)
        BY <1>1, <1>4, <4>2 DEF ToSend
      <4>5. shown[<<a, u>>] = 0 /\ u \notin failed[a] /\ queuedAs[<<a, u>>] = None
        BY <4>4 DEF IInv, AlertStages
      <4>6. shown'[<<a, u>>] = shown[<<a, u>>]
        <5>1. <<a, u>> # <<a, t>>
          BY <4>3
        <5>2. QED BY <1>2, <1>12, <5>1
      <4>7. u \notin failed'[a]
        BY <1>13, <4>3, <4>5
      <4>8. QED BY <4>5, <4>6, <4>7
    <3>3. \A u \in Targets : u \in failed'[a] => queuedAs[<<a, u>>] = None
      BY <1>8, <1>13 DEF IInv, AlertStages
    <3>4. failed'[a] # {} => pc'[a] \in {"send", "queue"}
      BY <1>16
    <3>5. QED BY <2>2, <3>1, <3>2, <3>3, <3>4
  <2>3. QED BY <2>1, <2>2
<1>28. AlertCopies'
  <2> SUFFICES ASSUME NEW b \in Alerts, NEW u \in Targets
               PROVE  /\ shown'[<<b, u>>] <= 1 + more
                      /\ u \in failed'[b] => shown'[<<b, u>>] <= more
                      /\ HasItem(b, u) /\ ~Unanswered(b, u) => shown'[<<b, u>>] <= more
    BY <1>1, <1>11 DEF AlertCopies, HasItem, Unanswered
  <2>1. CASE <<b, u>> # <<a, t>>
    <3>1. shown'[<<b, u>>] = shown[<<b, u>>]
      BY <1>12, <2>1, EventsAreTexts
    <3>2. u \in failed'[b] => u \in failed[b]
      BY <1>13, <2>1
    <3>3. /\ shown[<<b, u>>] <= 1 + mishaps
          /\ u \in failed[b] => shown[<<b, u>>] <= mishaps
          /\ HasItem(b, u) /\ ~Unanswered(b, u) => shown[<<b, u>>] <= mishaps
      BY DEF IInv, AlertCopies
    <3>4. b \in Texts
      BY EventsAreTexts
    <3>5. QED BY <1>25, <3>1, <3>2, <3>3, <3>4
  <2>2. CASE <<b, u>> = <<a, t>>
    <3>1. ~HasItem(a, t)
      BY <1>8, ItemIsQueued
    <3>2. shown'[<<a, t>>] <= 1 + more
      BY <1>11, <1>12
    <3>3. b = a /\ u = t
      BY <2>2
    <3>4. QED BY <1>14, <3>1, <3>2, <3>3
  <2>3. QED BY <2>1, <2>2
<1>29. QED
  BY <1>18, <1>19, <1>20, <1>21, <1>23, <1>24, <1>26, <1>27, <1>28 DEF IInv

(* An alert that reached everyone is over.                                 *)
LEMMA AlertDoneStep ==
  ASSUME IInv, NEW a \in Alerts, failed[a] = {}, QueueAlert(a)
  PROVE  IInv'
<1>1. /\ pc[a] = "queue" /\ Go(a, "done")
      /\ UNCHANGED <<raised, pending, outbox, receipts, up, outages, second, left,
                     failed, shown, queuedAs, mishaps, holder, batch, blocked, unacked>>
  BY DEF QueueAlert, flushing
<1>2. Typed /\ ShowsMore /\ a \in Senders /\ "done" \in Stages
  BY <1>1, ShownStays, SendersAre DEF IInv, Stages
<1>3. /\ pc' \in [Senders -> Stages] /\ pc'[a] = "done"
      /\ \A r \in Senders : r # a => pc'[r] = pc[r]
  BY <1>1, <1>2, Goes
<1>4. pc'["controller"] = pc["controller"] /\ pc'["poller"] = pc["poller"]
      /\ \A b \in Alerts : b # a => pc'[b] = pc[b]
  BY <1>3, SendersAre
<1>5. Typed'
  BY <1>1, <1>2, <1>3 DEF Typed, Stages
<1>6. Places'
  <2>1. holder' \in Alerts => pc'[holder'] = "flush"
    BY <1>1, <1>4 DEF IInv, Places
  <2>2. \A b \in Alerts : pc'[b] \in {"idle", "flush", "send", "queue", "done"}
    BY <1>3, <1>4 DEF IInv, Places
  <2>3. QED BY <1>1, <1>4, <2>1, <2>2 DEF IInv, Places
<1>7. Backlog' /\ AcceptedAreServed' /\ BeingServed'
  BY <1>1, <1>2, <1>4, AcceptedStay, BeingServedStays DEF IInv, Backlog, Done
<1>8. ItemsAreProper' /\ BatchIsQueued' /\ OutboxInOrder' /\ BatchInOrder'
      /\ EventsInOrder' /\ ReceiptsAreSeen' /\ HeadIsSeen'
  BY <1>1, <1>2, ItemsStay, OutboxStays, BatchStays, EventsStayInOrder, ReceiptsStay,
     HeadStays
<1>9. EventCopies' /\ AlertCopies' /\ AlertsAreKept'
  BY <1>1, <1>2, EventCopiesStay, AlertCopiesStay, AlertsStayKept
<1>10. AlertStages'
  <2> SUFFICES ASSUME NEW b \in Alerts
               PROVE  /\ pc'[b] = "send" =>
                           /\ left[b] # <<>>
                           /\ \A j, k \in 1..Len(left[b]) : left[b][j] = left[b][k] => j = k
                      /\ failed[b] # {} => pc'[b] \in {"send", "queue"}
                      /\ \A u \in Targets :
                           /\ ToSend(b, u)' => shown[<<b, u>>] = 0 /\ u \notin failed[b]
                                               /\ queuedAs[<<b, u>>] = None
                           /\ u \in failed[b] => queuedAs[<<b, u>>] = None
    BY <1>1 DEF AlertStages
  <2>1. CASE b # a
    <3>1. pc'[b] = pc[b]
      BY <1>4, <2>1
    <3>2. \A u \in Targets : ToSend(b, u)' <=> ToSend(b, u)
      BY <1>1, <3>1 DEF ToSend
    <3>3. QED BY <3>1, <3>2 DEF IInv, AlertStages
  <2>2. CASE b = a
    <3>1. pc'[b] = "done" /\ failed[b] = {}
      BY <1>3, <2>2
    <3>2. \A u \in Targets : ~ToSend(b, u)'
      BY <3>1 DEF ToSend
    <3>3. QED BY <3>1, <3>2
  <2>3. QED BY <2>1, <2>2
<1>11. QED BY <1>5, <1>6, <1>7, <1>8, <1>9, <1>10 DEF IInv

(* A target it did not reach gets it from the outbox, under the second of  *)
(* the clock.                                                              *)
LEMMA QueueAlertStep ==
  ASSUME IInv, NEW a \in Alerts, failed[a] # {}, QueueAlert(a)
  PROVE  IInv'
<1>1. /\ pc[a] = "queue"
      /\ UNCHANGED <<raised, pending, receipts, up, outages, left, shown, mishaps, pc,
                     holder, batch, blocked, unacked>>
  BY DEF QueueAlert, flushing
<1>2. PICK t \in failed[a], now \in second..MaxSeconds :
        /\ second' = now
        /\ Queue(AlertId(now), t, a)
        /\ queuedAs' = [queuedAs EXCEPT ![<<a, t>>] = AlertId(now)]
        /\ failed' = [failed EXCEPT ![a] = @ \ {t}]
  BY DEF QueueAlert
<1>3. Typed /\ Backlog /\ Places /\ ShowsMore /\ a \in Senders /\ a \in Texts
  BY <1>1, ShownStays, SendersAre, EventsAreTexts DEF IInv
<1>4. now \in Nat /\ AlertId(now) \in Ids /\ t \in Targets
  <2>1. second \in Nat /\ MaxSeconds \in Nat
    BY <1>3, OutboxAssumption DEF Typed
  <2>2. now \in Nat
    BY <1>2, <2>1
  <2>3. QED BY <1>2, <1>3, <2>2 DEF Typed, Ids
<1>5. queuedAs[<<a, t>>] = None /\ shown[<<a, t>>] <= mishaps
  BY <1>2, <1>4 DEF IInv, AlertStages, AlertCopies
<1>6. Extends(Item(AlertId(now), t, a)) /\ Queued(AlertId(now), t)'
  BY <1>2, <1>3, <1>4, QueueExtends
<1>7. /\ outbox' \in Seq(Message) /\ Len(outbox) \in Nat /\ Len(outbox') \in Nat
      /\ \A k \in 1..Len(outbox) : k \in 1..Len(outbox') /\ outbox'[k] = outbox[k]
      /\ \A k \in 1..Len(outbox') :
           k \notin 1..Len(outbox) =>
             k = Len(outbox) + 1 /\ outbox'[k] = Item(AlertId(now), t, a)
  BY <1>6 DEF Extends
<1>8. /\ \A id, u : Queued(id, u) => Queued(id, u)'
      /\ \A b, u : HasItem(b, u) => HasItem(b, u)'
      /\ \A b, u : HasItem(b, u)' => HasItem(b, u) \/ (b = a /\ u = t)
  <2>1. Item(AlertId(now), t, a).text = a /\ Item(AlertId(now), t, a).target = t
    BY DEF Item
  <2>2. QED BY <1>3, <1>6, <2>1, ExtendedKeeps
<1>9. /\ queuedAs' \in [Alerts \X Targets -> Ids \cup {None}]
      /\ queuedAs'[<<a, t>>] = AlertId(now)
      /\ \A b \in Alerts, u \in Targets :
           <<b, u>> # <<a, t>> => queuedAs'[<<b, u>>] = queuedAs[<<b, u>>]
  <2>1. queuedAs \in [Alerts \X Targets -> Ids \cup {None}]
    BY <1>3 DEF Typed
  <2>2. QED BY <1>2, <1>4, <2>1
<1>10. /\ failed' \in [Senders -> SUBSET Targets] /\ failed'[a] = failed[a] \ {t}
       /\ \A b \in Alerts : b # a => failed'[b] = failed[b]
  <2>1. failed \in [Senders -> SUBSET Targets] /\ failed[a] \ {t} \in SUBSET Targets
    BY <1>3 DEF Typed
  <2>2. QED BY <1>2, <1>3, <2>1, SendersAre
<1>11. Typed'
  BY <1>1, <1>2, <1>3, <1>4, <1>7, <1>9, <1>10 DEF Typed
<1>12. Backlog' /\ Places'
  BY <1>1, <1>3 DEF Backlog, Places, Done
<1>13. \A n, u : Served(n, u) => Served(n, u)'
  BY <1>1, <1>8 DEF Served, Seen
<1>14. AcceptedAreServed' /\ BeingServed'
  <2>1. Done' = Done
    BY <1>1 DEF Done
  <2>2. QED BY <1>1, <1>13, <2>1 DEF IInv, AcceptedAreServed, BeingServed
<1>15. ASSUME NEW i \in Message, Proper(i) PROVE Proper(i)'
  <2>1. CASE OfAlert(i)
    <3>1. i.target \in Targets /\ i.text \in Alerts /\ i.id = queuedAs[<<i.text, i.target>>]
      BY <1>15, <2>1 DEF OfAlert, Message
    <3>2. i.id # None
      BY <2>1, Numbers DEF OfAlert
    <3>3. <<i.text, i.target>> # <<a, t>>
      BY <1>5, <3>1, <3>2
    <3>4. i.id = queuedAs'[<<i.text, i.target>>]
      BY <1>9, <3>1, <3>3
    <3>5. QED BY <2>1, <3>1, <3>4 DEF OfAlert, Proper
  <2>2. CASE \E n \in 1..raised : n <= Done + 1 /\ OfEvent(i, n)
    BY <1>1, <2>2 DEF Proper, OfEvent, Done
  <2>3. QED BY <1>15, <2>1, <2>2 DEF Proper
<1>16. ASSUME NEW i, i = Item(AlertId(now), t, a) PROVE Proper(i)'
  <2>1. i.text = a /\ i.target = t /\ i.id = AlertId(now)
    BY <1>16 DEF Item
  <2>2. QED BY <1>4, <1>9, <2>1 DEF Proper, OfAlert
<1>17. ItemsAreProper'
  <2>1. \A k \in 1..Len(outbox) : outbox[k] \in Message /\ Proper(outbox[k])
    BY <1>3, ElementOfSeq DEF IInv, ItemsAreProper, Typed
  <2>2. \A k \in 1..Len(batch) : batch[k] \in Message /\ Proper(batch[k])
    BY <1>3, ElementOfSeq DEF IInv, ItemsAreProper, Typed
  <2>3. ASSUME NEW k \in 1..Len(outbox'), NEW i, i = outbox'[k] PROVE Proper(i)'
    <3>1. CASE k \in 1..Len(outbox)
      BY <1>7, <1>15, <2>1, <2>3, <3>1
    <3>2. CASE k \notin 1..Len(outbox)
      BY <1>7, <1>16, <2>3, <3>2
    <3>3. QED BY <3>1, <3>2
  <2>4. ASSUME NEW k \in 1..Len(batch'), NEW i, i = batch'[k] PROVE Proper(i)'
    BY <1>1, <1>15, <2>2, <2>4
  <2>5. QED BY <2>3, <2>4 DEF ItemsAreProper
<1>18. BatchIsQueued'
  BY <1>1, <1>6, ExtendedBatch
<1>19. OutboxInOrder'
  <2> SUFFICES ASSUME NEW k \in 1..Len(outbox'), NEW e \in Events, NEW m \in 1..(e - 1),
                      outbox'[k].id = EventId(e), outbox'[k].target \in For(m)
               PROVE  Seen(m, outbox'[k].target) \/ Before(outbox, k, m, outbox[k].target)'
    BY <1>1 DEF OutboxInOrder, Seen
  <2>1. k \in 1..Len(outbox)
    <3>1. Item(AlertId(now), t, a).id = AlertId(now) /\ e \in Nat
      BY EventsAreTexts DEF Item
    <3>2. QED BY <1>4, <1>7, <3>1, Numbers
  <2>2. outbox'[k] = outbox[k]
    BY <1>7, <2>1
  <2>3. Seen(m, outbox[k].target) \/ Before(outbox, k, m, outbox[k].target)
    BY <2>1, <2>2 DEF IInv, OutboxInOrder
  <2>4. \A j \in 1..(k - 1) : j \in 1..Len(outbox)
    BY <1>7, <2>1
  <2>5. QED BY <1>7, <2>2, <2>3, <2>4 DEF Before
<1>20. BatchInOrder' /\ EventsInOrder' /\ ReceiptsAreSeen' /\ HeadIsSeen' /\ EventCopies'
  BY <1>1, <1>3, BatchStays, EventsStayInOrder, ReceiptsStay, HeadStays, EventCopiesStay
<1>21. AlertStages'
  <2> SUFFICES ASSUME NEW b \in Alerts
               PROVE  /\ pc[b] = "send" =>
                           /\ left[b] # <<>>
                           /\ \A j, k \in 1..Len(left[b]) : left[b][j] = left[b][k] => j = k
                      /\ failed'[b] # {} => pc[b] \in {"send", "queue"}
                      /\ \A u \in Targets :
                           /\ ToSend(b, u) => shown[<<b, u>>] = 0 /\ u \notin failed'[b]
                                              /\ queuedAs'[<<b, u>>] = None
                           /\ u \in failed'[b] => queuedAs'[<<b, u>>] = None
    BY <1>1 DEF AlertStages, ToSend
  <2>1. /\ pc[b] = "send" =>
             /\ left[b] # <<>>
             /\ \A j, k \in 1..Len(left[b]) : left[b][j] = left[b][k] => j = k
        /\ failed[b] # {} => pc[b] \in {"send", "queue"}
        /\ \A u \in Targets :
             /\ ToSend(b, u) => shown[<<b, u>>] = 0 /\ u \notin failed[b]
                                /\ queuedAs[<<b, u>>] = None
             /\ u \in failed[b] => queuedAs[<<b, u>>] = None
    BY DEF IInv, AlertStages
  <2>2. CASE b # a
    <3>1. \A u \in Targets : queuedAs'[<<b, u>>] = queuedAs[<<b, u>>]
      <4>1. \A u \in Targets : <<b, u>> # <<a, t>>
        BY <2>2
      <4>2. QED BY <1>9, <4>1
    <3>2. failed'[b] = failed[b]
      BY <1>10, <2>2
    <3>3. QED BY <2>1, <3>1, <3>2
  <2>3. CASE b = a
    <3>1. \A u \in Targets : ~ToSend(a, u)
      BY <1>1 DEF ToSend
    <3>2. ASSUME NEW u \in Targets, u \in failed'[a] PROVE queuedAs'[<<a, u>>] = None
      <4>1. u # t /\ u \in failed[a]
        BY <1>10, <3>2
      <4>2. <<a, u>> # <<a, t>>
        BY <4>1
      <4>3. QED BY <1>9, <2>1, <2>3, <4>1, <4>2
    <3>3. QED BY <1>1, <2>1, <2>3, <3>1, <3>2
  <2>4. QED BY <2>2, <2>3
<1>22. AlertCopies'
  <2>1. ASSUME NEW b \in Alerts, NEW u \in Targets
        PROVE  /\ shown[<<b, u>>] <= 1 + mishaps
               /\ u \in failed'[b] => shown[<<b, u>>] <= mishaps
               /\ HasItem(b, u)' /\ ~Unanswered(b, u) => shown[<<b, u>>] <= mishaps
    <3>1. u \in failed'[b] => u \in failed[b]
      BY <1>10
    <3>2. HasItem(b, u)' => HasItem(b, u) \/ shown[<<b, u>>] <= mishaps
      BY <1>5, <1>8
    <3>3. /\ shown[<<b, u>>] <= 1 + mishaps
          /\ u \in failed[b] => shown[<<b, u>>] <= mishaps
          /\ HasItem(b, u) /\ ~Unanswered(b, u) => shown[<<b, u>>] <= mishaps
      BY DEF IInv, AlertCopies
    <3>4. QED BY <3>1, <3>2, <3>3
  <2>2. QED BY <1>1, <2>1 DEF AlertCopies, Unanswered
<1>23. AlertsAreKept'
  <2> SUFFICES ASSUME NEW b \in Alerts, NEW u \in Targets,
                      queuedAs'[<<b, u>>] # None, shown[<<b, u>>] = 0
               PROVE  \/ HasItem(b, u)'
                      \/ \E c \in Alerts \ {b} : queuedAs'[<<c, u>>] = queuedAs'[<<b, u>>]
    BY <1>1 DEF AlertsAreKept
  <2>1. CASE <<b, u>> = <<a, t>>
    <3>1. PICK k \in 1..Len(outbox') : outbox'[k].id = AlertId(now) /\ outbox'[k].target = t
      BY <1>6, <1>7, QueuedIsNext
    <3>2. PICK i : i = outbox'[k]
      OBVIOUS
    <3>3. Proper(i)'
      BY <1>17, <3>2 DEF ItemsAreProper
    <3>4. PICK c \in Alerts : outbox'[k].text = c /\ AlertId(now) = queuedAs'[<<c, t>>]
      <4>1. ASSUME NEW n \in 1..raised, OfEvent(i, n)' PROVE FALSE
        <5>1. n \in Nat /\ i.id = EventId(n)
          BY <4>1 DEF OfEvent
        <5>2. QED BY <1>4, <3>1, <3>2, <5>1, Numbers
      <4>2. OfAlert(i)'
        BY <1>1, <3>3, <4>1 DEF Proper
      <4>3. QED BY <3>1, <3>2, <4>2 DEF OfAlert
    <3>5. b = a /\ u = t
      BY <2>1
    <3>6. CASE c = a
      <4>1. HasItem(a, t)'
        BY <3>1, <3>4, <3>6 DEF HasItem
      <4>2. QED BY <3>5, <4>1
    <3>7. CASE c # a
      BY <1>9, <3>4, <3>5, <3>7
    <3>8. QED BY <3>6, <3>7
  <2>2. CASE <<b, u>> # <<a, t>>
    <3>1. queuedAs'[<<b, u>>] = queuedAs[<<b, u>>]
      BY <1>9, <2>2
    <3>2. \/ HasItem(b, u)
          \/ \E c \in Alerts \ {b} : queuedAs[<<c, u>>] = queuedAs[<<b, u>>]
      BY <3>1 DEF IInv, AlertsAreKept
    <3>3. ASSUME NEW c \in Alerts \ {b}, queuedAs[<<c, u>>] = queuedAs[<<b, u>>]
          PROVE  queuedAs'[<<c, u>>] = queuedAs'[<<b, u>>]
      <4>1. <<c, u>> # <<a, t>>
        BY <1>5, <3>1, <3>3
      <4>2. QED BY <1>9, <3>1, <3>3, <4>1
    <3>4. QED BY <1>8, <3>2, <3>3
  <2>3. QED BY <2>1, <2>2
<1>24. QED
  BY <1>11, <1>12, <1>14, <1>17, <1>18, <1>19, <1>20, <1>21, <1>22, <1>23 DEF IInv

-----------------------------------------------------------------------------
(* The steps of a flush.  What its head is of:                             *)
LEMMA HeadIsOf ==
  ASSUME IInv, batch # <<>>
  PROVE  /\ Proper(batch[1])
         /\ \E p \in 1..Len(outbox) : outbox[p] = batch[1]
         /\ \A n \in Nat : batch[1].id = EventId(n) => batch[1].text = n
         /\ batch[1].text \in Alerts => OfAlert(batch[1])
         /\ batch[1].text \notin Alerts =>
              batch[1].text \in Events /\ batch[1].id = EventId(batch[1].text)
<1>1. Typed /\ 1 \in 1..Len(batch)
  BY HeadOfBatch DEF IInv
<1>2. Proper(batch[1])
  BY <1>1 DEF IInv, ItemsAreProper
<1>3. \E p \in 1..Len(outbox) : outbox[p] = batch[1]
  BY <1>1 DEF IInv, BatchIsQueued
<1>4. CASE OfAlert(batch[1])
  <2>1. batch[1].text \in Alerts /\ \A n \in Nat : batch[1].id # EventId(n)
    BY <1>4, Numbers DEF OfAlert
  <2>2. QED BY <1>2, <1>3, <1>4, <2>1
<1>5. CASE ~OfAlert(batch[1])
  <2>1. PICK n \in 1..raised : OfEvent(batch[1], n)
    BY <1>2, <1>5 DEF Proper
  <2>2. n \in Events /\ n \in Nat /\ n \notin Alerts
    BY <2>1, DoneIsTyped, EventsAreTexts DEF IInv
  <2>3. batch[1].text = n /\ batch[1].id = EventId(n)
    BY <2>1 DEF OfEvent
  <2>4. QED BY <1>2, <1>3, <2>2, <2>3, Numbers
<1>6. QED BY <1>4, <1>5

(* The message of a head that was seen is dropped, and leaves a receipt if *)
(* it is an event's.                                                       *)
LEMMA Acknowledging ==
  ASSUME IInv, holder # Nobody, batch # <<>>,
         Seen(batch[1].text, batch[1].target), Acknowledge(batch[1]),
         batch' = Tail(batch), unacked' = FALSE,
         UNCHANGED <<raised, pending, second, pc, left, failed, holder, blocked, shown,
                     queuedAs, mishaps>>
  PROVE  IInv'
<1>1. PICK item : item = batch[1]
  OBVIOUS
<1>2. /\ item \in Message /\ item.text \in Texts /\ item.target \in Targets
      /\ batch' \in Seq(Message) /\ Len(batch') = Len(batch) - 1 /\ Len(batch) \in Nat \ {0}
      /\ \A k \in 1..Len(batch') : k + 1 \in 1..Len(batch) /\ batch'[k] = batch[k + 1]
      /\ 1 \in 1..Len(batch)
  BY <1>1, HeadOfBatch DEF IInv
<1>3. Typed /\ Backlog /\ Places /\ ShowsMore
  BY ShownStays DEF IInv
<1>4. /\ receipts' = IF item.id[1] = "event"
                     THEN receipts \cup {<<item.id, item.target>>} ELSE receipts
      /\ outbox' = Without(outbox, item)
      /\ Seen(item.text, item.target)
  BY <1>1 DEF Acknowledge
<1>5. /\ Proper(item)
      /\ \A n \in Nat : item.id = EventId(n) => item.text = n
      /\ item.text \in Alerts => OfAlert(item)
      /\ item.text \notin Alerts =>
           item.text \in Events /\ item.id = EventId(item.text)
  BY <1>1, HeadIsOf
<1>6. PICK p \in 1..Len(outbox) : outbox[p] = item
  BY <1>1, HeadIsOf
<1>7. Distinct(outbox) /\ Distinct(batch)
      /\ \A k \in 1..Len(batch) : \E j \in 1..Len(outbox) : outbox[j] = batch[k]
  BY DEF IInv, BatchIsQueued
<1>8. /\ outbox' \in Seq(Message) /\ Distinct(outbox)'
      /\ \A k \in 1..Len(outbox') : \E j \in 1..Len(outbox) :
           /\ outbox'[k] = outbox[j] /\ ~SameMessage(outbox[j], item)
           /\ \A i \in 1..(j - 1) :
                \/ SameMessage(outbox[i], item)
                \/ \E l \in 1..(k - 1) : outbox'[l] = outbox[i]
      /\ \A j \in 1..Len(outbox) :
           \/ SameMessage(outbox[j], item)
           \/ \E k \in 1..Len(outbox') : outbox'[k] = outbox[j]
  BY <1>2, <1>3, <1>4, <1>7, Dropping
<1>9. Typed'
  BY <1>2, <1>3, <1>8 DEF Typed
<1>10. Backlog' /\ Places'
  <2>1. Backlog'
    BY <1>3 DEF Backlog, Done
  <2>2. Places'
    BY <1>3 DEF Places
  <2>3. QED BY <2>1, <2>2
<1>11. ASSUME NEW n \in Events, NEW u, Served(n, u) PROVE Served(n, u)'
  <2>1. CASE Seen(n, u)
    BY <2>1 DEF Served, Seen
  <2>2. CASE Queued(EventId(n), u)
    <3>1. PICK j \in 1..Len(outbox) : outbox[j].id = EventId(n) /\ outbox[j].target = u
      BY <1>3, <2>2, QueuedIs
    <3>2. CASE SameMessage(outbox[j], item)
      <4>1. item.id = EventId(n) /\ item.target = u /\ n \in Nat
        BY <3>1, <3>2, EventsAreTexts DEF SameMessage
      <4>2. Seen(n, u)
        BY <1>4, <1>5, <4>1
      <4>3. QED BY <4>2 DEF Served, Seen
    <3>3. CASE \E k \in 1..Len(outbox') : outbox'[k] = outbox[j]
      <4>1. PICK k \in 1..Len(outbox') : outbox'[k] = outbox[j]
        BY <3>3
      <4>2. outbox' \in Seq(Message) /\ outbox'[k].id = EventId(n) /\ outbox'[k].target = u
        BY <1>8, <3>1, <4>1
      <4>3. Queued(EventId(n), u)'
        BY <4>2, QueuedIsNext
      <4>4. QED BY <4>3 DEF Served
    <3>4. QED BY <1>8, <3>2, <3>3
  <2>3. QED BY <1>11, <2>1, <2>2 DEF Served
<1>12. AcceptedAreServed' /\ BeingServed'
  <2>1. Done' = Done /\ (\A n \in 1..Done : n \in Events)
        /\ (pc["controller"] # "idle" => Done + 1 \in Events)
    BY <1>3, DoneIsTyped DEF Done, Places
  <2>2. AcceptedAreServed'
    BY <1>11, <2>1 DEF IInv, AcceptedAreServed
  <2>3. BeingServed'
    <3>1. CASE pc["controller"] = "idle"
      BY <3>1 DEF BeingServed
    <3>2. CASE pc["controller"] # "idle"
      <4>1. PICK n \in Events : n = Done + 1 /\ n = Done' + 1
        BY <2>1, <3>2
      <4>2. \A u \in For(n) : Served(n, u) => Served(n, u)'
        BY <1>11
      <4>3. /\ pc["controller"] = "queue" =>
                 /\ left["controller"] # <<>>
                 /\ \A u \in For(n) :
                      \/ Served(n, u)
                      \/ \E k \in 1..Len(left["controller"]) : left["controller"][k] = u
            /\ pc["controller"] \in {"reflush", "accepted"} => \A u \in For(n) : Served(n, u)
        BY <4>1 DEF IInv, BeingServed
      <4>4. /\ pc["controller"] = "queue" =>
                 /\ left["controller"] # <<>>
                 /\ \A u \in For(n) :
                      \/ Served(n, u)'
                      \/ \E k \in 1..Len(left["controller"]) : left["controller"][k] = u
            /\ pc["controller"] \in {"reflush", "accepted"} => \A u \in For(n) : Served(n, u)'
        BY <4>2, <4>3
      <4>5. QED BY <4>1, <4>4 DEF BeingServed
    <3>3. QED BY <3>1, <3>2
  <2>4. QED BY <2>2, <2>3
<1>13. ItemsAreProper'
  <2>1. ASSUME NEW i, Proper(i) PROVE Proper(i)'
    BY <2>1 DEF Proper, OfAlert, OfEvent, Done
  <2>2. \A k \in 1..Len(outbox') : Proper(outbox'[k])
    BY <1>8 DEF IInv, ItemsAreProper
  <2>3. \A k \in 1..Len(batch') : Proper(batch'[k])
    BY <1>2 DEF IInv, ItemsAreProper
  <2>4. QED BY <2>1, <2>2, <2>3 DEF ItemsAreProper
<1>14. BatchIsQueued'
  <2>1. ASSUME NEW j \in 1..Len(batch'), NEW k \in 1..Len(batch'),
               SameMessage(batch'[j], batch'[k])
        PROVE  j = k
    <3>1. j + 1 = k + 1
      BY <1>2, <1>7, <2>1 DEF Distinct
    <3>2. QED BY <3>1
  <2>2. ASSUME NEW k \in 1..Len(batch')
        PROVE  \E l \in 1..Len(outbox') : outbox'[l] = batch'[k]
    <3>1. k + 1 \in 1..Len(batch) /\ k + 1 # 1 /\ batch'[k] = batch[k + 1]
      BY <1>2
    <3>2. ~SameMessage(batch[k + 1], item)
      BY <1>1, <1>2, <1>7, <3>1 DEF Distinct
    <3>3. PICK j \in 1..Len(outbox) : outbox[j] = batch[k + 1]
      BY <1>7, <3>1
    <3>4. QED BY <1>8, <3>1, <3>2, <3>3
  <2>3. QED BY <1>8, <2>1, <2>2 DEF BatchIsQueued, Distinct
<1>15. OutboxInOrder'
  <2> SUFFICES ASSUME NEW k \in 1..Len(outbox'), NEW e \in Events, NEW m \in 1..(e - 1),
                      outbox'[k].id = EventId(e), outbox'[k].target \in For(m)
               PROVE  Seen(m, outbox'[k].target) \/ Before(outbox, k, m, outbox[k].target)'
    BY DEF OutboxInOrder, Seen
  <2>1. PICK j \in 1..Len(outbox) :
           /\ outbox'[k] = outbox[j] /\ ~SameMessage(outbox[j], item)
           /\ \A i \in 1..(j - 1) :
                \/ SameMessage(outbox[i], item)
                \/ \E l \in 1..(k - 1) : outbox'[l] = outbox[i]
    BY <1>8
  <2>2. Seen(m, outbox[j].target) \/ Before(outbox, j, m, outbox[j].target)
    BY <2>1 DEF IInv, OutboxInOrder
  <2>3. ASSUME NEW i \in 1..(j - 1), outbox[i].id = EventId(m),
               outbox[i].target = outbox[j].target
        PROVE  Seen(m, outbox'[k].target) \/ Before(outbox, k, m, outbox[k].target)'
    <3>1. CASE SameMessage(outbox[i], item)
      <4>1. item.id = EventId(m) /\ item.target = outbox[j].target /\ m \in Nat
        BY <2>3, <3>1 DEF SameMessage
      <4>2. QED BY <1>4, <1>5, <2>1, <4>1
    <3>2. CASE \E l \in 1..(k - 1) : outbox'[l] = outbox[i]
      BY <2>1, <2>3, <3>2 DEF Before
    <3>3. QED BY <2>1, <3>1, <3>2
  <2>4. QED BY <2>1, <2>2, <2>3 DEF Before
<1>16. BatchInOrder'
  <2> SUFFICES ASSUME NEW k \in 1..Len(batch'), NEW e \in Events, NEW m \in 1..(e - 1),
                      batch'[k].id = EventId(e), batch'[k].target \in For(m)
               PROVE  \/ Seen(m, batch'[k].target) \/ batch'[k].target \in blocked
                      \/ Before(batch, k, m, batch[k].target)'
    BY DEF BatchInOrder, Seen
  <2>1. k + 1 \in 1..Len(batch) /\ batch'[k] = batch[k + 1]
    BY <1>2
  <2>2. PICK u : u = batch[k + 1].target
    OBVIOUS
  <2>3. Seen(m, u) \/ u \in blocked \/ Before(batch, k + 1, m, u)
    BY <2>1, <2>2 DEF IInv, BatchInOrder
  <2>4. ASSUME NEW j \in 1..k, batch[j].id = EventId(m), batch[j].target = u
        PROVE  Seen(m, u) \/ Before(batch, k, m, batch[k].target)'
    <3>1. CASE j = 1
      <4>1. item.id = EventId(m) /\ item.target = u /\ m \in Nat
        BY <1>1, <2>4, <3>1
      <4>2. QED BY <1>4, <1>5, <4>1
    <3>2. CASE j # 1
      <4>1. j - 1 \in 1..(k - 1) /\ j - 1 \in 1..Len(batch') /\ (j - 1) + 1 = j
        BY <1>2, <3>2
      <4>2. batch'[j - 1] = batch[j]
        BY <1>2, <4>1
      <4>3. QED BY <2>1, <2>2, <2>4, <4>1, <4>2 DEF Before
    <3>3. QED BY <3>1, <3>2
  <2>5. k \in Nat /\ (k + 1) - 1 = k
    OBVIOUS
  <2>6. QED BY <2>1, <2>2, <2>3, <2>4, <2>5 DEF Before
<1>17. EventsInOrder' /\ AlertStages'
  BY <1>3, EventsStayInOrder, StagesStay
<1>18. ReceiptsAreSeen'
  <2> SUFFICES ASSUME NEW r \in receipts'
               PROVE  \E n \in Events, u \in Targets : r = <<EventId(n), u>> /\ Seen(n, u)
    BY DEF ReceiptsAreSeen, Seen
  <2>1. CASE r \in receipts
    BY <2>1 DEF IInv, ReceiptsAreSeen
  <2>2. CASE r \notin receipts
    <3>1. item.id[1] = "event" /\ r = <<item.id, item.target>>
      BY <1>4, <2>2
    <3>2. item.text \notin Alerts
      <4>1. ASSUME OfAlert(item) PROVE FALSE
        <5>1. PICK now \in Nat : item.id = AlertId(now)
          BY <4>1 DEF OfAlert
        <5>2. QED BY <3>1, <5>1, Numbers
      <4>2. QED BY <1>5, <4>1
    <3>3. item.text \in Events /\ item.id = EventId(item.text)
      BY <1>5, <3>2
    <3>4. QED BY <1>2, <1>4, <3>1, <3>3
  <2>3. QED BY <2>1, <2>2
<1>19. HeadIsSeen'
  BY DEF HeadIsSeen
<1>20. EventCopies'
  <2> SUFFICES ASSUME NEW n \in Events, NEW u \in Targets
               PROVE  /\ shown[<<n, u>>] <= 1 + mishaps
                      /\ ~WasDelivered(EventId(n), u)' => shown[<<n, u>>] <= mishaps
    BY DEF EventCopies
  <2>1. /\ shown[<<n, u>>] <= 1 + mishaps
        /\ ~WasDelivered(EventId(n), u) /\ ~Unanswered(n, u) => shown[<<n, u>>] <= mishaps
    BY DEF IInv, EventCopies
  <2>2. ASSUME Unanswered(n, u) PROVE WasDelivered(EventId(n), u)'
    <3>1. item.text = n /\ item.target = u /\ n \notin Alerts /\ n \in Nat
      BY <1>1, <2>2, EventsAreTexts DEF Unanswered
    <3>2. item.id = EventId(n) /\ item.id[1] = "event"
      BY <1>5, <3>1, Numbers
    <3>3. QED BY <1>4, <3>1, <3>2 DEF WasDelivered
  <2>3. WasDelivered(EventId(n), u) => WasDelivered(EventId(n), u)'
    BY <1>4 DEF WasDelivered
  <2>4. QED BY <2>1, <2>2, <2>3
<1>21. AlertCopies'
  <2> SUFFICES ASSUME NEW a \in Alerts, NEW u \in Targets
               PROVE  /\ shown[<<a, u>>] <= 1 + mishaps
                      /\ u \in failed[a] => shown[<<a, u>>] <= mishaps
                      /\ HasItem(a, u)' => shown[<<a, u>>] <= mishaps
    BY DEF AlertCopies
  <2>1. /\ shown[<<a, u>>] <= 1 + mishaps
        /\ u \in failed[a] => shown[<<a, u>>] <= mishaps
        /\ HasItem(a, u) /\ ~Unanswered(a, u) => shown[<<a, u>>] <= mishaps
    BY DEF IInv, AlertCopies
  <2>2. ASSUME HasItem(a, u)' PROVE HasItem(a, u) /\ ~Unanswered(a, u)
    <3>1. PICK k \in 1..Len(outbox') : outbox'[k].text = a /\ outbox'[k].target = u
      BY <2>2 DEF HasItem
    <3>2. PICK j \in 1..Len(outbox) :
            outbox'[k] = outbox[j] /\ ~SameMessage(outbox[j], item)
      BY <1>8
    <3>3. HasItem(a, u)
      BY <3>1, <3>2 DEF HasItem
    <3>4. ASSUME Unanswered(a, u) PROVE FALSE
      <4>1. item.text = a /\ item.target = u
        BY <1>1, <3>4 DEF Unanswered
      <4>2. item.id = queuedAs[<<a, u>>]
        BY <1>5, <4>1 DEF OfAlert
      <4>3. Proper(outbox[j]) /\ outbox[j].text = a /\ outbox[j].target = u
        BY <3>1, <3>2 DEF IInv, ItemsAreProper
      <4>4. outbox[j].id = queuedAs[<<a, u>>]
        <5>1. ASSUME NEW n \in 1..raised, OfEvent(outbox[j], n) PROVE FALSE
          <6>1. n \in Events
            BY <1>3, DoneIsTyped
          <6>2. QED BY <4>3, <5>1, <6>1, EventsAreTexts DEF OfEvent
        <5>2. QED BY <4>3, <5>1 DEF Proper, OfAlert
      <4>5. QED BY <3>2, <4>1, <4>2, <4>3, <4>4 DEF SameMessage
    <3>5. QED BY <3>3, <3>4
  <2>3. QED BY <2>1, <2>2
<1>22. AlertsAreKept'
  <2> SUFFICES ASSUME NEW a \in Alerts, NEW u \in Targets,
                      queuedAs[<<a, u>>] # None, shown[<<a, u>>] = 0
               PROVE  \/ HasItem(a, u)'
                      \/ \E b \in Alerts \ {a} : queuedAs[<<b, u>>] = queuedAs[<<a, u>>]
    BY DEF AlertsAreKept
  <2>1. HasItem(a, u) \/ \E b \in Alerts \ {a} : queuedAs[<<b, u>>] = queuedAs[<<a, u>>]
    BY DEF IInv, AlertsAreKept
  <2>2. ASSUME HasItem(a, u) PROVE HasItem(a, u)'
    <3>1. PICK j \in 1..Len(outbox) : outbox[j].text = a /\ outbox[j].target = u
      BY <2>2 DEF HasItem
    <3>2. ~SameMessage(outbox[j], item)
      <4>1. ASSUME SameMessage(outbox[j], item) PROVE FALSE
        <5>1. j = p
          BY <1>6, <1>7, <4>1 DEF Distinct
        <5>2. item.text = a /\ item.target = u
          BY <1>6, <3>1, <5>1
        <5>3. shown[<<a, u>>] > 0
          BY <1>4, <5>2 DEF Seen
        <5>4. QED BY <5>3
      <4>2. QED BY <4>1
    <3>3. PICK k \in 1..Len(outbox') : outbox'[k] = outbox[j]
      BY <1>8, <3>2
    <3>4. outbox'[k].text = a /\ outbox'[k].target = u
      BY <3>1, <3>3
    <3>5. QED BY <3>4 DEF HasItem
  <2>3. QED BY <2>1, <2>2
<1>23. QED
  BY <1>9, <1>10, <1>12, <1>13, <1>14, <1>15, <1>16, <1>17, <1>18, <1>19, <1>20, <1>21,
     <1>22 DEF IInv

LEMMA FlushAcknowledgesStep ==
  ASSUME IInv, FlushAcknowledges
  PROVE  IInv'
<1>1. batch # <<>> /\ holder # Nobody /\ Seen(batch[1].text, batch[1].target)
  BY DEF IInv, Places, HeadIsSeen, FlushAcknowledges
<1>2. Head(batch) = batch[1]
  BY <1>1, HeadOfBatch DEF IInv
<1>3. /\ Acknowledge(batch[1]) /\ batch' = Tail(batch) /\ unacked' = FALSE
      /\ UNCHANGED <<raised, pending, second, pc, left, failed, holder, blocked, shown,
                     queuedAs, mishaps>>
  BY <1>2 DEF FlushAcknowledges
<1>4. QED BY <1>1, <1>3, Acknowledging

(* A head that is skipped, as its target is blocked for this flush.        *)
LEMMA Skipping ==
  ASSUME IInv, batch # <<>>, batch' = Tail(batch), ShowsMore,
         blocked \subseteq blocked', batch[1].target \in blocked',
         UNCHANGED <<raised, pending, queuedAs, outbox>>
  PROVE  batch' \in Seq(Message) /\ ItemsAreProper' /\ BatchIsQueued' /\ BatchInOrder'
<1>1. /\ batch' \in Seq(Message) /\ Len(batch') = Len(batch) - 1 /\ Len(batch) \in Nat \ {0}
      /\ \A k \in 1..Len(batch') : k + 1 \in 1..Len(batch) /\ batch'[k] = batch[k + 1]
  BY HeadOfBatch DEF IInv
<1>2. ItemsAreProper'
  <2>1. ASSUME NEW i, Proper(i) PROVE Proper(i)'
    BY <2>1 DEF Proper, OfAlert, OfEvent, Done
  <2>2. \A k \in 1..Len(outbox') : Proper(outbox'[k])
    BY DEF IInv, ItemsAreProper
  <2>3. \A k \in 1..Len(batch') : Proper(batch'[k])
    BY <1>1 DEF IInv, ItemsAreProper
  <2>4. QED BY <2>1, <2>2, <2>3 DEF ItemsAreProper
<1>3. BatchIsQueued'
  <2>1. ASSUME NEW j \in 1..Len(batch'), NEW k \in 1..Len(batch'),
               SameMessage(batch'[j], batch'[k])
        PROVE  j = k
    <3>1. j + 1 = k + 1
      BY <1>1, <2>1 DEF IInv, BatchIsQueued, Distinct
    <3>2. QED BY <3>1
  <2>2. \A k \in 1..Len(batch') : \E l \in 1..Len(outbox) : outbox[l] = batch'[k]
    BY <1>1 DEF IInv, BatchIsQueued
  <2>3. QED BY <2>1, <2>2 DEF IInv, BatchIsQueued, Distinct
<1>4. BatchInOrder'
  <2> SUFFICES ASSUME NEW k \in 1..Len(batch'), NEW e \in Events, NEW m \in 1..(e - 1),
                      batch'[k].id = EventId(e), batch'[k].target \in For(m)
               PROVE  \/ Seen(m, batch[k].target)' \/ batch'[k].target \in blocked'
                      \/ Before(batch, k, m, batch[k].target)'
    BY DEF BatchInOrder
  <2>1. k + 1 \in 1..Len(batch) /\ batch'[k] = batch[k + 1]
    BY <1>1
  <2>2. PICK u : u = batch[k + 1].target
    OBVIOUS
  <2>3. Seen(m, u) \/ u \in blocked \/ Before(batch, k + 1, m, u)
    BY <2>1, <2>2 DEF IInv, BatchInOrder
  <2>4. Seen(m, u) => Seen(m, u)'
    <3>1. m \in Events /\ u \in For(m)
      BY <2>1, <2>2, Constants
    <3>2. QED BY <3>1, EventsAreTexts DEF Seen, ShowsMore
  <2>5. ASSUME NEW j \in 1..k, batch[j].id = EventId(m), batch[j].target = u
        PROVE  u \in blocked' \/ Before(batch, k, m, batch[k].target)'
    <3>1. CASE j = 1
      BY <2>5, <3>1
    <3>2. CASE j # 1
      <4>1. j - 1 \in 1..(k - 1) /\ j - 1 \in 1..Len(batch') /\ (j - 1) + 1 = j
        BY <1>1, <3>2
      <4>2. batch'[j - 1] = batch[j]
        BY <1>1, <4>1
      <4>3. QED BY <2>1, <2>2, <2>5, <4>1, <4>2 DEF Before
    <3>3. QED BY <3>1, <3>2
  <2>6. k \in Nat /\ (k + 1) - 1 = k
    OBVIOUS
  <2>7. Seen(m, u)' <=> Seen(m, batch[k].target)'
    BY <2>1, <2>2 DEF Seen
  <2>8. u \in blocked' <=> batch'[k].target \in blocked'
    BY <2>1, <2>2
  <2>9. Before(batch, k + 1, m, u) =>
          \E j \in 1..k : batch[j].id = EventId(m) /\ batch[j].target = u
    BY <2>6 DEF Before
  <2>10. u \in blocked => u \in blocked'
    OBVIOUS
  <2>11. QED BY <2>3, <2>4, <2>5, <2>7, <2>8, <2>9, <2>10
<1>5. QED BY <1>1, <1>2, <1>3, <1>4

LEMMA PassOverStep ==
  ASSUME IInv, PassOver
  PROVE  IInv'
<1>1. /\ holder # Nobody /\ batch # <<>> /\ ~unacked /\ batch' = Tail(batch)
      /\ UNCHANGED <<raised, pending, up, outages, second, pc, left, failed, holder,
                     blocked, unacked, shown, queuedAs, mishaps>>
  BY DEF PassOver
<1>2. Typed /\ Backlog /\ Places /\ ShowsMore
  BY <1>1, ShownStays DEF IInv
<1>3. Head(batch) = batch[1]
  BY <1>1, <1>2, HeadOfBatch
<1>4. \/ batch[1].target \in blocked /\ UNCHANGED <<outbox, receipts>>
      \/ WasDelivered(batch[1].id, batch[1].target) /\ Acknowledge(batch[1])
  BY <1>3 DEF PassOver, Blocked
<1>5. CASE batch[1].target \in blocked /\ UNCHANGED <<outbox, receipts>>
  <2>1. batch' \in Seq(Message) /\ ItemsAreProper' /\ BatchIsQueued' /\ BatchInOrder'
    BY <1>1, <1>2, <1>5, Skipping
  <2>2. Typed' /\ Backlog' /\ Places'
    <3>1. Typed'
      BY <1>1, <1>2, <1>5, <2>1 DEF Typed
    <3>2. Backlog'
      BY <1>1, <1>2 DEF Backlog, Done
    <3>3. Places'
      BY <1>1, <1>2 DEF Places
    <3>4. QED BY <3>1, <3>2, <3>3
  <2>3. AcceptedAreServed' /\ BeingServed' /\ OutboxInOrder' /\ EventsInOrder'
        /\ ReceiptsAreSeen' /\ AlertsAreKept' /\ AlertStages'
    BY <1>1, <1>2, <1>5, AcceptedStay, BeingServedStays, OutboxStays, EventsStayInOrder,
       ReceiptsStay, AlertsStayKept, StagesStay
  <2>4. HeadIsSeen'
    BY <1>1 DEF HeadIsSeen
  <2>5. EventCopies'
    BY <1>1, <1>5 DEF IInv, EventCopies, Unanswered, WasDelivered
  <2>6. AlertCopies'
    BY <1>1, <1>5 DEF IInv, AlertCopies, Unanswered, HasItem
  <2>7. QED BY <2>1, <2>2, <2>3, <2>4, <2>5, <2>6 DEF IInv
<1>6. CASE WasDelivered(batch[1].id, batch[1].target) /\ Acknowledge(batch[1])
  <2>1. PICK n \in Events, t \in Targets :
          <<batch[1].id, batch[1].target>> = <<EventId(n), t>> /\ Seen(n, t)
    BY <1>6 DEF IInv, ReceiptsAreSeen, WasDelivered
  <2>2. batch[1].text = n /\ batch[1].target = t
    BY <1>1, <2>1, HeadIsOf, EventsAreTexts
  <2>3. Seen(batch[1].text, batch[1].target)
    BY <2>1, <2>2
  <2>4. unacked' = FALSE
    <3>1. unacked \in BOOLEAN
      BY <1>2 DEF Typed
    <3>2. QED BY <1>1, <3>1, Zenon
  <2>5. QED BY <1>1, <1>6, <2>3, <2>4, Acknowledging
<1>7. QED BY <1>4, <1>5, <1>6

(* A head that is sent has room for it: it was seen for mishaps only.      *)
LEMMA HeadHasRoom ==
  ASSUME IInv, Sendable
  PROVE  /\ batch # <<>> /\ holder # Nobody /\ ~unacked
         /\ Head(batch) = batch[1] /\ batch[1].text \in Texts /\ batch[1].target \in Targets
         /\ shown[<<batch[1].text, batch[1].target>>] <= mishaps
         /\ batch[1].target \notin blocked
         /\ batch[1].text \in Alerts =>
              /\ queuedAs[<<batch[1].text, batch[1].target>>] # None
              /\ batch[1].target \notin failed[batch[1].text]
              /\ ~ToSend(batch[1].text, batch[1].target)
<1>1. /\ batch # <<>> /\ holder # Nobody /\ ~unacked
      /\ Head(batch) = batch[1] /\ batch[1].text \in Texts /\ batch[1].target \in Targets
  BY HeadOfBatch DEF IInv, Sendable
<1>2. batch[1].target \notin blocked /\ ~WasDelivered(batch[1].id, batch[1].target)
  BY <1>1 DEF Sendable, Blocked
<1>3. ~Unanswered(batch[1].text, batch[1].target)
  BY <1>1 DEF Unanswered
<1>4. CASE batch[1].text \in Alerts
  <2>1. HasItem(batch[1].text, batch[1].target)
    BY <1>1, HeadIsOf DEF HasItem
  <2>2. queuedAs[<<batch[1].text, batch[1].target>>] # None
    BY <1>1, <1>4, <2>1, ItemIsQueued
  <2>3. shown[<<batch[1].text, batch[1].target>>] <= mishaps
    BY <1>1, <1>3, <1>4, <2>1 DEF IInv, AlertCopies
  <2>4. /\ batch[1].target \notin failed[batch[1].text]
        /\ ~ToSend(batch[1].text, batch[1].target)
    BY <1>1, <1>4, <2>2 DEF IInv, AlertStages
  <2>5. QED BY <1>1, <1>2, <2>2, <2>3, <2>4
<1>5. CASE batch[1].text \notin Alerts
  <2>1. batch[1].text \in Events /\ batch[1].id = EventId(batch[1].text)
    BY <1>1, <1>5, HeadIsOf
  <2>2. shown[<<batch[1].text, batch[1].target>>] <= mishaps
    BY <1>1, <1>2, <1>3, <2>1 DEF IInv, EventCopies
  <2>3. QED BY <1>1, <1>2, <1>5, <2>2
<1>6. QED BY <1>4, <1>5

(* An event at the head comes after its predecessors.                      *)
LEMMA HeadInOrder ==
  ASSUME IInv, Sendable, Show(batch[1].text, batch[1].target)
  PROVE  EventsInOrder'
<1>1. PICK x \in Texts, t \in Targets : x = batch[1].text /\ t = batch[1].target
  BY HeadHasRoom
<1>2. Typed /\ batch # <<>> /\ t \notin blocked /\ Show(x, t) /\ 1 \in 1..Len(batch)
  BY <1>1, HeadHasRoom, HeadOfBatch DEF IInv
<1>3. \A y \in Texts, u \in Targets :
        <<y, u>> # <<x, t>> => shown'[<<y, u>>] = shown[<<y, u>>]
  BY <1>2, ShowCounts
<1>4. ShowsMore
  BY <1>2, MoreIsShown
<1>5. SUFFICES ASSUME NEW m \in Events, NEW n \in Events, NEW u \in For(m) \cap For(n),
                      m < n, shown'[<<n, u>>] > 0
               PROVE  shown'[<<m, u>>] > 0
  BY DEF EventsInOrder
<1>6. u \in Targets /\ m \in Texts /\ n \in Texts /\ m \in 1..(n - 1) /\ n \notin Alerts
      /\ n \in Nat
  BY <1>5, Constants, EventsAreTexts
<1>7. CASE <<n, u>> # <<x, t>>
  <2>1. shown[<<n, u>>] > 0
    BY <1>3, <1>5, <1>6, <1>7
  <2>2. shown[<<m, u>>] > 0
    BY <1>5, <2>1 DEF IInv, EventsInOrder
  <2>3. QED BY <1>4, <1>6, <2>2 DEF ShowsMore
<1>8. CASE <<n, u>> = <<x, t>>
  <2>1. batch[1].id = EventId(n) /\ batch[1].target = u
    BY <1>1, <1>2, <1>6, <1>8, HeadIsOf
  <2>2. Seen(m, u) \/ u \in blocked \/ Before(batch, 1, m, u)
    BY <1>2, <1>6, <2>1 DEF IInv, BatchInOrder
  <2>3. ~Before(batch, 1, m, u)
    BY DEF Before
  <2>4. Seen(m, u)
    BY <1>2, <1>8, <2>2, <2>3
  <2>5. QED BY <1>4, <1>6, <2>4 DEF ShowsMore, Seen
<1>9. QED BY <1>7, <1>8

LEMMA HeadStages ==
  ASSUME IInv, Sendable, Show(batch[1].text, batch[1].target),
         UNCHANGED <<pc, left, failed, queuedAs>>
  PROVE  AlertStages'
<1>1. PICK x \in Texts, t \in Targets : x = batch[1].text /\ t = batch[1].target
  BY HeadHasRoom
<1>2. x \in Alerts => ~ToSend(x, t)
  BY <1>1, HeadHasRoom
<1>3. Typed /\ Show(x, t)
  BY <1>1 DEF IInv
<1>4. \A y \in Texts, u \in Targets :
        <<y, u>> # <<x, t>> => shown'[<<y, u>>] = shown[<<y, u>>]
  BY <1>3, ShowCounts
<1>5. ASSUME NEW a \in Alerts, NEW u \in Targets, ToSend(a, u)
      PROVE  shown'[<<a, u>>] = 0 /\ u \notin failed[a] /\ queuedAs[<<a, u>>] = None
  <2>1. <<a, u>> # <<x, t>>
    BY <1>2, <1>5
  <2>2. shown[<<a, u>>] = 0 /\ u \notin failed[a] /\ queuedAs[<<a, u>>] = None
    BY <1>5 DEF IInv, AlertStages
  <2>3. QED BY <1>4, <2>1, <2>2, EventsAreTexts
<1>6. \A a, u : ToSend(a, u)' <=> ToSend(a, u)
  BY DEF ToSend
<1>7. QED BY <1>5, <1>6 DEF IInv, AlertStages

LEMMA FlushSendsStep ==
  ASSUME IInv, FlushSends
  PROVE  IInv'
<1>1. Sendable /\ batch # <<>> /\ holder # Nobody /\ ~unacked /\ Head(batch) = batch[1]
  BY HeadHasRoom DEF FlushSends
<1>2. PICK x \in Texts, t \in Targets : x = batch[1].text /\ t = batch[1].target
  BY <1>1, HeadHasRoom
<1>3. /\ Show(x, t) /\ Show(batch[1].text, batch[1].target) /\ unacked' = TRUE
      /\ UNCHANGED <<raised, pending, outbox, receipts, up, outages, second, pc, left,
                     failed, holder, batch, blocked, queuedAs, mishaps>>
  BY <1>1, <1>2 DEF FlushSends, Sent
<1>4. Typed /\ Backlog /\ Places /\ ShowsMore
  BY <1>3, MoreIsShown DEF IInv
<1>5. /\ shown' \in [Texts \X Targets -> Nat]
      /\ shown'[<<x, t>>] = shown[<<x, t>>] + 1
      /\ \A y \in Texts, u \in Targets :
           <<y, u>> # <<x, t>> => shown'[<<y, u>>] = shown[<<y, u>>]
      /\ shown[<<x, t>>] \in Nat
  BY <1>3, <1>4, ShowCounts, Zenon
<1>6. PICK few \in Nat : few = mishaps
  BY <1>4 DEF Typed
<1>7. PICK seen \in Nat : seen = shown[<<x, t>>] /\ seen <= few
  BY <1>1, <1>2, <1>5, <1>6, HeadHasRoom
<1>8. shown'[<<x, t>>] = seen + 1 /\ mishaps' = few /\ seen + 1 <= 1 + few /\ seen + 1 > 0
  BY <1>3, <1>5, <1>6, <1>7
<1>9. Typed'
  BY <1>3, <1>4, <1>5 DEF Typed
<1>10. Backlog' /\ Places'
  <2>1. Backlog'
    BY <1>3, <1>4 DEF Backlog, Done
  <2>2. Places'
    BY <1>1, <1>3, <1>4 DEF Places
  <2>3. QED BY <2>1, <2>2
<1>11. AcceptedAreServed' /\ BeingServed' /\ ItemsAreProper' /\ BatchIsQueued'
       /\ OutboxInOrder' /\ BatchInOrder' /\ ReceiptsAreSeen' /\ AlertsAreKept'
  BY <1>3, <1>4, AcceptedStay, BeingServedStays, ItemsStay, OutboxStays, BatchStays,
     ReceiptsStay, AlertsStayKept
<1>12. EventsInOrder' /\ AlertStages'
  BY <1>1, <1>3, HeadInOrder, HeadStages
<1>13. HeadIsSeen'
  BY <1>2, <1>3, <1>8 DEF HeadIsSeen, Seen
<1>14. Unanswered(x, t)'
  BY <1>2, <1>3 DEF Unanswered
<1>15. \A y, u : ~Unanswered(y, u)
  BY <1>1 DEF Unanswered
<1>16. EventCopies'
  <2> SUFFICES ASSUME NEW n \in Events, NEW u \in Targets
               PROVE  /\ shown'[<<n, u>>] <= 1 + few
                      /\ ~WasDelivered(EventId(n), u) /\ ~Unanswered(n, u)' =>
                           shown'[<<n, u>>] <= few
    BY <1>3, <1>8, Zenon DEF EventCopies, WasDelivered
  <2>1. CASE <<n, u>> = <<x, t>>
    <3>1. n = x /\ u = t
      BY <2>1
    <3>2. QED BY <1>8, <1>14, <3>1
  <2>2. CASE <<n, u>> # <<x, t>>
    <3>1. shown'[<<n, u>>] = shown[<<n, u>>]
      BY <1>5, <2>2, EventsAreTexts
    <3>2. /\ shown[<<n, u>>] <= 1 + few
          /\ ~WasDelivered(EventId(n), u) => shown[<<n, u>>] <= few
      BY <1>6, <1>15, Zenon DEF IInv, EventCopies
    <3>3. QED BY <3>1, <3>2
  <2>3. QED BY <2>1, <2>2
<1>17. AlertCopies'
  <2> SUFFICES ASSUME NEW a \in Alerts, NEW u \in Targets
               PROVE  /\ shown'[<<a, u>>] <= 1 + few
                      /\ u \in failed[a] => shown'[<<a, u>>] <= few
                      /\ HasItem(a, u) /\ ~Unanswered(a, u)' => shown'[<<a, u>>] <= few
    BY <1>3, <1>8, Zenon DEF AlertCopies, HasItem
  <2>1. CASE <<a, u>> = <<x, t>>
    <3>1. a = x /\ u = t
      BY <2>1
    <3>2. u \notin failed[a]
      BY <1>1, <1>2, <3>1, HeadHasRoom
    <3>3. QED BY <1>8, <1>14, <3>1, <3>2
  <2>2. CASE <<a, u>> # <<x, t>>
    <3>1. shown'[<<a, u>>] = shown[<<a, u>>]
      BY <1>5, <2>2, EventsAreTexts
    <3>2. /\ shown[<<a, u>>] <= 1 + few
          /\ u \in failed[a] => shown[<<a, u>>] <= few
          /\ HasItem(a, u) => shown[<<a, u>>] <= few
      BY <1>6, <1>15, Zenon DEF IInv, AlertCopies
    <3>3. QED BY <3>1, <3>2
  <2>3. QED BY <2>1, <2>2
<1>18. QED
  BY <1>9, <1>10, <1>11, <1>12, <1>13, <1>16, <1>17 DEF IInv

LEMMA FlushFailsStep ==
  ASSUME IInv, FlushFails
  PROVE  IInv'
<1>1. Sendable /\ batch # <<>> /\ holder # Nobody /\ ~unacked /\ Head(batch) = batch[1]
  BY HeadHasRoom DEF FlushFails
<1>2. PICK x \in Texts, t \in Targets : x = batch[1].text /\ t = batch[1].target
  BY <1>1, HeadHasRoom
<1>3. /\ NotSent(x, t) /\ blocked' = blocked \cup {t} /\ batch' = Tail(batch)
      /\ UNCHANGED <<raised, pending, outbox, receipts, up, outages, second, pc, left,
                     failed, holder, unacked, queuedAs>>
  BY <1>1, <1>2 DEF FlushFails
<1>4. Typed /\ Backlog /\ Places
  BY DEF IInv
<1>5. PICK few \in Nat : few = mishaps
  BY <1>4 DEF Typed
<1>6. \/ UNCHANGED shown /\ mishaps' = few
      \/ Show(x, t) /\ mishaps' = few + 1
  BY <1>3, <1>5 DEF NotSent, Mishap
<1>7. ShowsMore
  BY <1>4, <1>6, ShownStays, MoreIsShown
<1>8. batch' \in Seq(Message) /\ ItemsAreProper' /\ BatchIsQueued' /\ BatchInOrder'
  BY <1>1, <1>2, <1>3, <1>7, Skipping
<1>9. AcceptedAreServed' /\ BeingServed' /\ OutboxInOrder' /\ ReceiptsAreSeen'
      /\ AlertsAreKept'
  BY <1>3, <1>7, AcceptedStay, BeingServedStays, OutboxStays, ReceiptsStay, AlertsStayKept
<1>10. /\ Backlog' /\ Places' /\ HeadIsSeen'
       /\ shown' \in [Texts \X Targets -> Nat] /\ mishaps' \in Nat
  <2>1. Backlog'
    BY <1>3, <1>4 DEF Backlog, Done
  <2>2. Places'
    BY <1>1, <1>3, <1>4 DEF Places
  <2>3. HeadIsSeen'
    BY <1>1, <1>3 DEF HeadIsSeen
  <2>4. shown' \in [Texts \X Targets -> Nat] /\ mishaps' \in Nat
    BY <1>4, <1>5, <1>6, ShowCounts DEF Typed
  <2>5. QED BY <2>1, <2>2, <2>3, <2>4
<1>11. Typed'
  BY <1>3, <1>4, <1>8, <1>10 DEF Typed
<1>12. \A y, u : ~Unanswered(y, u)
  BY <1>1 DEF Unanswered
<1>13. CASE UNCHANGED shown /\ mishaps' = few
  <2>1. EventsInOrder' /\ AlertStages'
    BY <1>3, <1>13, EventsStayInOrder, StagesStay
  <2>2. UNCHANGED mishaps
    BY <1>5, <1>13
  <2>3. EventCopies'
    BY <1>3, <1>12, <1>13, <2>2 DEF IInv, EventCopies, WasDelivered
  <2>4. AlertCopies'
    BY <1>3, <1>12, <1>13, <2>2 DEF IInv, AlertCopies, HasItem
  <2>5. QED BY <1>8, <1>9, <1>10, <1>11, <2>1, <2>3, <2>4 DEF IInv
<1>14. CASE Show(x, t) /\ mishaps' = few + 1
  <2>1. Show(batch[1].text, batch[1].target)
    BY <1>2, <1>14
  <2>2. EventsInOrder' /\ AlertStages'
    BY <1>1, <1>3, <2>1, HeadInOrder, HeadStages
  <2>3. /\ shown'[<<x, t>>] = shown[<<x, t>>] + 1
        /\ \A y \in Texts, u \in Targets :
             <<y, u>> # <<x, t>> => shown'[<<y, u>>] = shown[<<y, u>>]
        /\ \A y \in Texts, u \in Targets : shown[<<y, u>>] \in Nat
    BY <1>4, <1>14, ShowCounts, Zenon
  <2>4. PICK seen \in Nat : seen = shown[<<x, t>>] /\ seen <= few
    BY <1>1, <1>2, <1>5, <2>3, HeadHasRoom
  <2>5. shown'[<<x, t>>] = seen + 1 /\ seen + 1 <= few + 1 /\ seen + 1 <= 1 + (few + 1)
    BY <2>3, <2>4
  <2>6. ASSUME NEW y \in Texts, NEW u \in Targets, shown[<<y, u>>] <= 1 + few
        PROVE  shown'[<<y, u>>] <= few + 1 /\ shown'[<<y, u>>] <= 1 + (few + 1)
    <3>1. CASE <<y, u>> = <<x, t>>
      <4>1. y = x /\ u = t
        BY <3>1
      <4>2. QED BY <2>5, <4>1
    <3>2. CASE <<y, u>> # <<x, t>>
      <4>1. PICK before \in Nat : before = shown[<<y, u>>] /\ before <= 1 + few
        BY <2>3, <2>6
      <4>2. before <= few + 1 /\ before <= 1 + (few + 1)
        BY <4>1
      <4>3. QED BY <2>3, <3>2, <4>1, <4>2
    <3>3. QED BY <3>1, <3>2
  <2>7. EventCopies'
    <3>1. \A n \in Events, u \in Targets : n \in Texts /\ shown[<<n, u>>] <= 1 + few
      BY <1>5, EventsAreTexts, Zenon DEF IInv, EventCopies
    <3>2. \A n \in Events, u \in Targets :
            shown'[<<n, u>>] <= few + 1 /\ shown'[<<n, u>>] <= 1 + (few + 1)
      BY <2>6, <3>1
    <3>3. QED BY <1>14, <3>2, Zenon DEF EventCopies
  <2>8. AlertCopies'
    <3>1. \A a \in Alerts, u \in Targets : a \in Texts /\ shown[<<a, u>>] <= 1 + few
      BY <1>5, EventsAreTexts, Zenon DEF IInv, AlertCopies
    <3>2. \A a \in Alerts, u \in Targets :
            shown'[<<a, u>>] <= few + 1 /\ shown'[<<a, u>>] <= 1 + (few + 1)
      BY <2>6, <3>1
    <3>3. QED BY <1>14, <3>2, Zenon DEF AlertCopies
  <2>9. QED BY <1>8, <1>9, <1>10, <1>11, <2>2, <2>7, <2>8 DEF IInv
<1>15. QED BY <1>6, <1>13, <1>14

-----------------------------------------------------------------------------
LEMMA StillIInv ==
  ASSUME IInv, UNCHANGED vars
  PROVE  IInv'
<1>1. UNCHANGED <<raised, pending, outbox, receipts, second, pc, left, failed, shown,
                  queuedAs, mishaps, holder, batch, blocked, unacked>>
  BY DEF vars, flushing
<1>2. Typed' /\ Backlog' /\ Places' /\ ShowsMore
  <2>1. Typed'
    BY <1>1 DEF IInv, Typed
  <2>2. Backlog' /\ Places'
    BY <1>1 DEF IInv, Backlog, Places, Done
  <2>3. QED BY <1>1, <2>1, <2>2, ShownStays
<1>3. AcceptedAreServed' /\ BeingServed' /\ ItemsAreProper' /\ BatchIsQueued'
      /\ OutboxInOrder' /\ BatchInOrder'
  BY <1>1, <1>2, AcceptedStay, BeingServedStays, ItemsStay, OutboxStays, BatchStays
<1>4. EventsInOrder' /\ ReceiptsAreSeen' /\ HeadIsSeen' /\ EventCopies' /\ AlertStages'
      /\ AlertCopies' /\ AlertsAreKept'
  BY <1>1, <1>2, EventsStayInOrder, ReceiptsStay, HeadStays, EventCopiesStay, StagesStay,
     AlertCopiesStay, AlertsStayKept
<1>5. QED BY <1>2, <1>3, <1>4 DEF IInv

LEMMA StepIInv ==
  ASSUME IInv, [Next]_vars
  PROVE  IInv'
<1>1. CASE Flushing
  BY <1>1, PassOverStep, FlushSendsStep, FlushAcknowledgesStep, FlushFailsStep, UnlockStep
     DEF Flushing
<1>2. CASE Controller
  BY <1>2, TakeUpStep, AcceptedStep, QueueEventStep DEF Controller
<1>3. ASSUME NEW a \in Alerts, Alert(a) \/ Alerting(a) PROVE IInv'
  BY <1>3, AlertStep, SendAlertStep, AlertDoneStep, QueueAlertStep DEF Alerting
<1>4. CASE Raise
  BY <1>4, RaiseStep
<1>5. CASE TimeOut
  BY <1>5, TimeOutStep
<1>6. CASE Crash
  BY <1>6, CrashStep
<1>7. ASSUME NEW s \in Senders, Lock(s) PROVE IInv'
  BY <1>7, LockStep
<1>8. ASSUME NEW t \in Targets, Telegram(t) PROVE IInv'
  BY <1>8, TelegramStep
<1>9. CASE UNCHANGED vars
  BY <1>9, StillIInv
<1>10. QED BY <1>1, <1>2, <1>3, <1>4, <1>5, <1>6, <1>7, <1>8, <1>9 DEF Next

THEOREM AlwaysIInv == Spec => []IInv
<1>1. Init => IInv
  BY InitIInv
<1>2. IInv /\ [Next]_vars => IInv'
  BY StepIInv
<1>3. QED BY <1>1, <1>2, PTL DEF Spec

(* Events are seen in the order they were raised, at every target.         *)
THEOREM EventsStayOrdered == Spec => []EventsInOrder
<1>1. IInv => EventsInOrder
  BY DEF IInv
<1>2. QED BY <1>1, AlwaysIInv, PTL

(* What was queued, or taken up and accepted, is seen or still there.      *)
THEOREM NothingQueuedIsLost == Spec => []QueuedIsKept
<1>1. ASSUME IInv PROVE QueuedIsKept
  <2>1. Typed /\ Backlog
    BY <1>1 DEF IInv
  <2>2. DOMAIN outbox = 1..Len(outbox) /\ DOMAIN pending = 1..Len(pending)
        /\ Len(pending) \in Nat
    BY <2>1, LenProperties DEF Typed
  <2>3. ASSUME NEW a \in Alerts, NEW t \in Targets,
               queuedAs[<<a, t>>] # None, shown[<<a, t>>] = 0
        PROVE  \/ \E k \in DOMAIN outbox : outbox[k].text = a /\ outbox[k].target = t
               \/ \E b \in Alerts \ {a} : queuedAs[<<b, t>>] = queuedAs[<<a, t>>]
    BY <1>1, <2>2, <2>3 DEF IInv, AlertsAreKept, HasItem
  <2>4. ASSUME NEW n \in 1..raised, NEW t \in For(n)
        PROVE  \/ shown[<<n, t>>] > 0 \/ Queued(EventId(n), t)
               \/ \E k \in DOMAIN pending : pending[k] = n
    <3>1. Done \in Nat /\ raised \in Nat
      BY <2>1, DoneIsTyped
    <3>2. PICK top \in Nat : top = raised
      BY <3>1
    <3>3. PICK long \in Nat : long = Len(pending) /\ long <= top /\ Done = top - long
      BY <2>1, <2>2, <3>2 DEF Backlog, Done
    <3>4. CASE n <= top - long
      <4>1. n \in 1..Done
        BY <3>2, <3>3, <3>4
      <4>2. QED BY <1>1, <4>1 DEF IInv, AcceptedAreServed, Served, Seen
    <3>5. CASE n > top - long
      <4>1. PICK k \in 1..long : n = (top - long) + k
        <5>1. n - (top - long) \in 1..long /\ n = (top - long) + (n - (top - long))
          BY <3>2, <3>3, <3>5
        <5>2. QED BY <5>1
      <4>2. pending[k] = n
        BY <2>1, <3>3, <4>1 DEF Backlog
      <4>3. QED BY <2>2, <3>3, <4>2
    <3>6. QED BY <3>2, <3>3, <3>4, <3>5
  <2>5. QED BY <2>3, <2>4 DEF QueuedIsKept
<1>2. QED BY <1>1, AlwaysIInv, PTL

(* What is seen more than once, is so for mishaps.                         *)
THEOREM OnlyMishapsCopy == Spec => []CopiesAreMishaps
<1>1. ASSUME IInv PROVE CopiesAreMishaps
  <2>1. DOMAIN shown = Texts \X Targets
    BY <1>1 DEF IInv, Typed
  <2>2. \A x \in Texts, t \in Targets : shown[<<x, t>>] <= 1 + mishaps
    BY <1>1 DEF IInv, EventCopies, AlertCopies, Texts
  <2>3. QED BY <2>1, <2>2 DEF CopiesAreMishaps
<1>2. QED BY <1>1, AlwaysIInv, PTL

-----------------------------------------------------------------------------
(* That what the watchdog says is recent, and not said too often, whatever *)
(* rules it follows and however long its intervals are.                    *)

Counters == [fails : [Watched -> Nat], since : [Watched -> 0..DedupTtl],
             recovered : SUBSET Watched]

ObserverTyped ==
  /\ host \in BOOLEAN /\ ssh \in BOOLEAN /\ telegram \in BOOLEAN
  /\ bridge \in Condition
  /\ flight \in SUBSET [age : 0..(MaxSkew + 1), probe : Condition]
  /\ push \in [sent : 0..(MaxSkew + 2), received : 0..(PushMaxAge + 1),
               probe : Condition]
  /\ mem \in Counters /\ disk \in Counters
  /\ once # NoCopy => once.copy \in Counters
  /\ heard \in [Watched -> 0..DedupTtl]
  /\ steady \in 0..(Window + 1)
  /\ spent \in [changes : Nat, once : Nat, restarts : Nat, faults : Nat]

(* A probe that was not taken in the container's present state is at least *)
(* as old as this state.                                                   *)
Dated ==
  /\ \A p \in flight : p.age <= MaxSkew =>
       (p.probe.running <=> bridge.running) \/ steady <= p.age
  /\ push.received <= PushMaxAge =>
       (push.probe.running <=> bridge.running)
       \/ steady <= MaxSkew + push.received

(* Short of a mishap, loop and file know when the owner was last alerted.  *)
Known ==
  spent.faults = 0 /\ spent.once = 0 =>
    once = NoCopy /\ early = {} /\ mem.since = heard /\ disk.since = heard

ObserverIInv == ObserverTyped /\ Dated /\ MessagesAreRecent /\ Known

-----------------------------------------------------------------------------
(* Counting up to a top stays below it.                                    *)
LEMMA UpType ==
  ASSUME NEW top \in Nat, NEW n \in 0..top
  PROVE  Up(n, top) \in 0..top /\ (n < top => Up(n, top) = n + 1)
         /\ Up(n, top) <= n + 1 /\ n <= Up(n, top)
  BY DEF Up

(* The bounds are numbers.                                                 *)
LEMMA Bounds ==
  /\ StatusEvery \in Nat \ {0} /\ PushMaxAge \in Nat \ {0}
  /\ MaxSkew \in Nat \ {0} /\ DedupTtl \in Nat \ {0}
  /\ Window \in Nat /\ Window = MaxSkew + PushMaxAge
  BY WatchdogAssumption DEF Window

(* A look that finds the container down has a probe that does, and one     *)
(* that neither finds it down nor skips the rule has a probe that runs.    *)
LEMMA ProbeSees ==
  ASSUME NEW asked
  PROVE  /\ "container_down" \in Found(asked) \ Skipped(asked) =>
              \E p \in Probe : ~p.running
         /\ "container_down" \notin Found(asked) \cup Skipped(asked) =>
              \E p \in Probe : p.running
<1>1. ASSUME NEW p PROVE "container_down" \in ProbeFinds(p, asked) <=> ~p.running
  <2>1. "container_down" \notin StatusFinds(p)
    BY DEF StatusFinds, StatusRules
  <2>2. QED BY <2>1 DEF ProbeFinds
<1>2. "container_down" \in Found(asked) <=> \E p \in Probe : ~p.running
  BY <1>1 DEF Found
<1>3. "container_down" \notin Skipped(asked) => Probe # {}
  BY DEF Skipped, HostRules, Probe
<1>4. QED BY <1>2, <1>3

(* What a probe of this look says held within the window.                  *)
LEMMA ProbeIsDated ==
  ASSUME ObserverIInv, NEW p \in Probe
  PROVE  (p.running <=> bridge.running) \/ steady <= Window
<1>1. CASE host /\ ssh
  BY <1>1 DEF Probe
<1>2. CASE host /\ ~ssh /\ ~PushIsStale
  <2>1. p = push.probe /\ push.received <= PushMaxAge
    BY <1>2, Bounds DEF Probe, PushIsStale, ObserverIInv, ObserverTyped
  <2>2. CASE steady <= MaxSkew + push.received
    BY <2>1, <2>2, Bounds DEF ObserverIInv, ObserverTyped
  <2>3. QED BY <2>1, <2>2 DEF ObserverIInv, Dated
<1>3. QED BY <1>1, <1>2 DEF Probe

(* The messages of a look, in the loop or by hand, are recent.             *)
LEMMA MessagesOfALook ==
  ASSUME ObserverIInv, NEW m, NEW asked,
         <<"alert", "container_down">> \in Messages(m, asked)
         \/ <<"recovery", "container_down">> \in Messages(m, asked)
  PROVE  /\ <<"alert", "container_down">> \in Messages(m, asked) =>
              ~bridge.running \/ steady <= Window
         /\ <<"recovery", "container_down">> \in Messages(m, asked) =>
              bridge.running \/ steady <= Window
<1>1. <<"alert", "container_down">> \in Messages(m, asked) =>
        "container_down" \in Found(asked) \ Skipped(asked)
  BY DEF Messages, NewAlerts
<1>2. <<"recovery", "container_down">> \in Messages(m, asked) =>
        "container_down" \notin Found(asked) \cup Skipped(asked)
  BY DEF Messages, Recoveries
<1>3. QED BY <1>1, <1>2, ProbeSees, ProbeIsDated

(* Telling keeps what the owner has been told recent.                      *)
LEMMA TellKeeps ==
  ASSUME ObserverIInv, NEW m, NEW asked, NEW confirmed, NEW unsure,
         Tell(m, asked, confirmed, unsure), UNCHANGED <<bridge, steady>>
  PROVE  MessagesAreRecent'
<1>1. out' \subseteq out \cup Messages(m, asked)
  BY DEF Tell
<1>2. QED BY <1>1, MessagesOfALook DEF MessagesAreRecent, ObserverIInv

(* The counters stay counters: after a look,                               *)
LEMMA AfterType ==
  ASSUME NEW m \in Counters, NEW asked, NEW confirmed
  PROVE  After(m, asked, confirmed) \in Counters
<1>1. Count(m, asked) \in [Watched -> Nat]
  BY WatchdogAssumption DEF Counters, Count, Up
<1>2. Recoveries(m, asked) \subseteq Watched
  BY DEF Recoveries
<1>3. [r \in Watched |-> IF confirmed /\ r \in NewAlerts(m, asked) THEN 0 ELSE m.since[r]]
        \in [Watched -> 0..DedupTtl]
  BY Bounds DEF Counters
<1>4. QED BY <1>1, <1>2, <1>3 DEF After, Counters

(* and with time.                                                          *)
LEMMA AgedType ==
  ASSUME NEW m \in Counters
  PROVE  /\ Aged(m) \in Counters
         /\ Aged(m).since = [r \in Watched |-> Up(m.since[r], DedupTtl)]
<1>1. [r \in Watched |-> Up(m.since[r], DedupTtl)] \in [Watched -> 0..DedupTtl]
  BY UpType, Bounds DEF Counters
<1>2. QED BY <1>1 DEF Aged, Counters

(* The marks of the owner's alerts stay marks.                             *)
LEMMA TellType ==
  ASSUME ObserverTyped, NEW m, NEW asked, NEW confirmed, NEW unsure,
         Tell(m, asked, confirmed, unsure)
  PROVE  heard' \in [Watched -> 0..DedupTtl]
  BY Bounds DEF Tell, ObserverTyped

(* A confirmed or refused look of one who knows leaves both knowing.       *)
LEMMA TellKnows ==
  ASSUME ObserverTyped, NEW m \in Counters, m.since = heard, early = {}, NEW asked,
         Tell(m, asked, telegram, FALSE)
  PROVE  early' = {} /\ After(m, asked, telegram).since = heard'
<1>1. \A r \in NewAlerts(m, asked) : r \in Watched /\ heard[r] = DedupTtl
  BY DEF NewAlerts
<1>2. early' = {}
  BY <1>1, Bounds DEF Tell
<1>3. After(m, asked, telegram).since = heard'
  BY DEF Tell, After, Counters, ObserverTyped
<1>4. QED BY <1>2, <1>3

-----------------------------------------------------------------------------
(* The initial states.                                                     *)
LEMMA ObserverInitIInv == ObserverInit => ObserverIInv
<1> SUFFICES ASSUME ObserverInit PROVE ObserverIInv
  OBVIOUS
<1>1. Well \in Condition
  BY WatchdogAssumption
<1>2. ObserverTyped
  BY <1>1, Bounds DEF ObserverInit, ObserverTyped, Counters, Fresh, NoPush
<1>3. Dated /\ MessagesAreRecent
  BY Bounds DEF ObserverInit, Dated, MessagesAreRecent, NoPush
<1>4. Known
  BY DEF ObserverInit, Known, Fresh
<1>5. QED BY <1>2, <1>3, <1>4 DEF ObserverIInv

(* A look of the loop.                                                     *)
LEMMA CycleKeeps == ASSUME ObserverIInv, Cycle PROVE ObserverIInv'
<1> DEFINE asked == unpolled >= StatusEvery
<1>1. PICK unsaved \in BOOLEAN, unsure \in BOOLEAN :
        /\ ~(unsaved /\ unsure)
        /\ Tell(mem, asked, telegram, unsure)
        /\ mem' = After(mem, asked, telegram)
        /\ disk' = IF unsaved THEN disk ELSE After(mem, asked, telegram)
        /\ Faulty(unsaved \/ unsure)
        /\ UNCHANGED <<world, flight, push, once, steady>>
  BY DEF Cycle
<1> HIDE DEF asked
<1>2. ObserverTyped'
  <2>1. mem' \in Counters /\ disk' \in Counters
    BY <1>1, AfterType DEF ObserverIInv, ObserverTyped
  <2>2. heard' \in [Watched -> 0..DedupTtl]
    BY <1>1, TellType DEF ObserverIInv
  <2>3. spent' \in [changes : Nat, once : Nat, restarts : Nat, faults : Nat]
    BY <1>1 DEF Faulty, Spend, ObserverIInv, ObserverTyped
  <2>4. QED BY <1>1, <2>1, <2>2, <2>3 DEF ObserverIInv, ObserverTyped, world
<1>3. Dated'
  BY <1>1 DEF ObserverIInv, Dated, world
<1>4. MessagesAreRecent'
  BY <1>1, TellKeeps DEF world
<1>5. Known'
  <2> SUFFICES ASSUME spent'.faults = 0, spent'.once = 0
               PROVE  once' = NoCopy /\ early' = {} /\ mem'.since = heard'
                      /\ disk'.since = heard'
    BY DEF Known
  <2>1. ~unsaved /\ ~unsure /\ spent' = spent
    BY <1>1 DEF Faulty, Spend, ObserverIInv, ObserverTyped
  <2>2. once = NoCopy /\ early = {} /\ mem.since = heard
    BY <2>1 DEF ObserverIInv, Known
  <2>3. unsure = FALSE /\ mem \in Counters /\ ObserverTyped
    BY <2>1 DEF ObserverIInv, ObserverTyped
  <2>4. early' = {} /\ After(mem, asked, telegram).since = heard'
    BY <1>1, <2>2, <2>3, TellKnows
  <2>5. QED BY <1>1, <2>1, <2>2, <2>4
<1>6. QED BY <1>2, <1>3, <1>4, <1>5 DEF ObserverIInv

(* A look that --once makes, with the copy it has loaded.                  *)
LEMMA OnceKeeps == ASSUME ObserverIInv, OnceRuns PROVE ObserverIInv'
<1>1. /\ once # NoCopy /\ once' = NoCopy
      /\ UNCHANGED <<world, flight, push, mem, due, unpolled, steady, spent>>
  BY DEF OnceRuns
<1>2. \/ UNCHANGED <<out, heard, early, disk>>
      \/ /\ Tell(once.copy, TRUE, telegram, FALSE)
         /\ disk' = After(once.copy, TRUE, telegram)
  BY DEF OnceRuns
<1>3. once.copy \in Counters
  BY <1>1 DEF ObserverIInv, ObserverTyped
<1>4. heard' \in [Watched -> 0..DedupTtl] /\ disk' \in Counters
  <2>1. CASE UNCHANGED <<out, heard, early, disk>>
    BY <2>1 DEF ObserverIInv, ObserverTyped
  <2>2. CASE /\ Tell(once.copy, TRUE, telegram, FALSE)
             /\ disk' = After(once.copy, TRUE, telegram)
    <3>1. ObserverTyped
      BY DEF ObserverIInv
    <3>2. heard' \in [Watched -> 0..DedupTtl]
      BY <2>2, <3>1, TellType
    <3>3. QED BY <2>2, <3>2, <1>3, AfterType
  <2>3. QED BY <1>2, <2>1, <2>2
<1>5. ObserverTyped'
  BY <1>1, <1>4 DEF ObserverIInv, ObserverTyped, world
<1>6. Dated'
  BY <1>1 DEF ObserverIInv, Dated, world
<1>7. MessagesAreRecent'
  <2>1. UNCHANGED <<bridge, steady>>
    BY <1>1 DEF world
  <2>2. CASE UNCHANGED out
    BY <2>1, <2>2 DEF ObserverIInv, MessagesAreRecent
  <2>3. QED BY <1>2, <2>1, <2>2, TellKeeps
<1>8. Known'
  BY <1>1 DEF ObserverIInv, Known
<1>9. QED BY <1>5, <1>6, <1>7, <1>8 DEF ObserverIInv

(* A push leaves the host, and arrives.                                    *)
LEMMA SendKeeps == ASSUME ObserverIInv, Send PROVE ObserverIInv'
<1>1. /\ flight' = flight \cup {[age |-> 0, probe |-> bridge]}
      /\ UNCHANGED <<world, push, mem, disk, once, out, heard, early, steady, spent>>
  BY DEF Send
<1>2. ObserverTyped'
  BY <1>1, Bounds DEF ObserverIInv, ObserverTyped, world
<1>3. Dated'
  BY <1>1 DEF ObserverIInv, Dated, world
<1>4. MessagesAreRecent' /\ Known'
  BY <1>1 DEF ObserverIInv, MessagesAreRecent, Known, world
<1>5. QED BY <1>2, <1>3, <1>4 DEF ObserverIInv

LEMMA ReceiveKeeps == ASSUME ObserverIInv, NEW p \in flight, Receive(p) PROVE ObserverIInv'
<1>1. /\ flight' = flight \ {p}
      /\ UNCHANGED <<world, mem, disk, once, out, heard, early, steady, spent>>
  BY DEF Receive
<1>2. CASE InTime(p) /\ IsNews(p)
  <2>1. push' = [sent |-> p.age, received |-> 0, probe |-> p.probe]
    BY <1>2 DEF Receive
  <2>2. p.age \in 0..(MaxSkew + 1) /\ p.probe \in Condition /\ p.age <= MaxSkew
    BY <1>2 DEF ObserverIInv, ObserverTyped, InTime
  <2>3. push' \in [sent : 0..(MaxSkew + 2), received : 0..(PushMaxAge + 1),
                   probe : Condition]
    BY <2>1, <2>2, Bounds
  <2>4. (p.probe.running <=> bridge.running) \/ steady <= MaxSkew
    <3>1. (p.probe.running <=> bridge.running) \/ steady <= p.age
      BY <2>2 DEF ObserverIInv, Dated
    <3>2. QED BY <2>2, <3>1, Bounds DEF ObserverIInv, ObserverTyped
  <2>5. (p.probe.running <=> bridge.running) \/ steady <= MaxSkew + 0
    BY <2>4, Bounds
  <2>6. push'.received = 0 /\ push'.probe = p.probe
    BY <2>1
  <2>7. Dated'
    BY <1>1, <2>5, <2>6 DEF ObserverIInv, Dated, world
  <2>8. QED BY <1>1, <2>3, <2>7 DEF ObserverIInv, ObserverTyped, MessagesAreRecent, Known, world
<1>3. CASE ~(InTime(p) /\ IsNews(p))
  <2>1. push' = push
    BY <1>3 DEF Receive
  <2>2. QED BY <1>1, <2>1 DEF ObserverIInv, ObserverTyped, Dated, MessagesAreRecent, Known, world
<1>4. QED BY <1>2, <1>3

(* The world changes: a container that starts or stops has a new state.    *)
LEMMA ChangeKeeps == ASSUME ObserverIInv, Change PROVE ObserverIInv'
<1>1. /\ host' \in BOOLEAN /\ ssh' \in BOOLEAN /\ telegram' \in BOOLEAN
      /\ bridge' \in Condition
      /\ (bridge'.running = bridge.running /\ steady' = steady) \/ steady' = 0
      /\ spent' = [spent EXCEPT !.changes = @ + 1]
      /\ UNCHANGED <<flight, push, mem, disk, once, due, unpolled, out, heard, early>>
  BY WatchdogAssumption DEF Change, Spend, ObserverIInv, ObserverTyped
<1>2. ObserverTyped'
  BY <1>1, Bounds DEF ObserverIInv, ObserverTyped
<1>3. Dated'
  <2>1. CASE bridge'.running = bridge.running /\ steady' = steady
    BY <1>1, <2>1 DEF ObserverIInv, Dated
  <2>2. CASE steady' = 0
    <3>1. \A p \in flight : steady' <= p.age
      BY <2>2 DEF ObserverIInv, ObserverTyped
    <3>2. steady' <= MaxSkew + push.received
      BY <2>2, Bounds DEF ObserverIInv, ObserverTyped
    <3>3. QED BY <1>1, <3>1, <3>2 DEF Dated
  <2>3. QED BY <1>1, <2>1, <2>2
<1>4. MessagesAreRecent'
  <2>1. steady' = 0 => steady' <= Window
    BY Bounds
  <2>2. QED BY <1>1, <2>1 DEF ObserverIInv, MessagesAreRecent
<1>5. Known'
  BY <1>1 DEF ObserverIInv, Known, ObserverTyped
<1>6. QED BY <1>2, <1>3, <1>4, <1>5 DEF ObserverIInv

(* Time passes for all alike.                                              *)
LEMMA TickKeeps == ASSUME ObserverIInv, Tick PROVE ObserverIInv'
<1>1. /\ out' = {} /\ mem' = Aged(mem) /\ disk' = Aged(disk)
      /\ flight' = {[p EXCEPT !.age = Up(@, MaxSkew + 1)] : p \in flight}
      /\ push' = [push EXCEPT !.sent = Up(@, MaxSkew + 2),
                              !.received = Up(@, PushMaxAge + 1)]
      /\ heard' = [r \in Watched |-> Up(heard[r], DedupTtl)]
      /\ steady' = Up(steady, Window + 1)
      /\ UNCHANGED <<world, once, early, spent>>
  BY DEF Tick
<1>2. steady' \in 0..(Window + 1) /\ steady' <= steady + 1
  <2>1. steady \in 0..(Window + 1) /\ Window + 1 \in Nat
    BY Bounds DEF ObserverIInv, ObserverTyped
  <2>2. QED BY <1>1, <2>1, UpType
<1>3. \A p \in flight :
        /\ p \in [age : 0..(MaxSkew + 1), probe : Condition]
        /\ Up(p.age, MaxSkew + 1) \in 0..(MaxSkew + 1)
        /\ Up(p.age, MaxSkew + 1) <= MaxSkew => /\ Up(p.age, MaxSkew + 1) = p.age + 1
                                                /\ p.age <= MaxSkew
  <2> SUFFICES ASSUME NEW p \in flight
               PROVE  /\ p \in [age : 0..(MaxSkew + 1), probe : Condition]
                      /\ Up(p.age, MaxSkew + 1) \in 0..(MaxSkew + 1)
                      /\ Up(p.age, MaxSkew + 1) <= MaxSkew =>
                           /\ Up(p.age, MaxSkew + 1) = p.age + 1
                           /\ p.age <= MaxSkew
    OBVIOUS
  <2>1. p \in [age : 0..(MaxSkew + 1), probe : Condition]
    BY DEF ObserverIInv, ObserverTyped
  <2>2. p.age \in 0..(MaxSkew + 1) /\ MaxSkew + 1 \in Nat
    BY <2>1, Bounds
  <2>3. QED BY <2>1, <2>2, Bounds DEF Up
<1>4. /\ push'.probe = push.probe
      /\ push' \in [sent : 0..(MaxSkew + 2), received : 0..(PushMaxAge + 1),
                    probe : Condition]
      /\ push'.received = Up(push.received, PushMaxAge + 1)
  <2>1. push.sent \in 0..(MaxSkew + 2) /\ push.received \in 0..(PushMaxAge + 1)
    BY DEF ObserverIInv, ObserverTyped
  <2>2. Up(push.sent, MaxSkew + 2) \in 0..(MaxSkew + 2)
        /\ Up(push.received, PushMaxAge + 1) \in 0..(PushMaxAge + 1)
    BY <2>1, Bounds DEF Up
  <2>3. QED BY <1>1, <2>2 DEF ObserverIInv, ObserverTyped
<1>5. ObserverTyped'
  <2>1. flight' \in SUBSET [age : 0..(MaxSkew + 1), probe : Condition]
    BY <1>1, <1>3
  <2>2. heard' \in [Watched -> 0..DedupTtl]
    BY <1>1, UpType, Bounds DEF ObserverIInv, ObserverTyped
  <2>3. mem' \in Counters /\ disk' \in Counters
    BY <1>1, AgedType DEF ObserverIInv, ObserverTyped
  <2>4. QED BY <1>1, <1>2, <1>4, <2>1, <2>2, <2>3 DEF ObserverIInv, ObserverTyped, world
<1>6. Dated'
  <2>1. ASSUME NEW q \in flight', q.age <= MaxSkew
        PROVE  (q.probe.running <=> bridge'.running) \/ steady' <= q.age
    <3>1. PICK p \in flight : q = [p EXCEPT !.age = Up(@, MaxSkew + 1)]
      BY <1>1
    <3>2. q.age = Up(p.age, MaxSkew + 1) /\ q.probe = p.probe
      BY <1>3, <3>1
    <3>3. q.age = p.age + 1 /\ p.age <= MaxSkew /\ p.age \in Nat
      BY <1>3, <2>1, <3>2
    <3>4. (p.probe.running <=> bridge.running) \/ steady <= p.age
      BY <3>3 DEF ObserverIInv, Dated
    <3>5. steady <= p.age => steady' <= q.age
      BY <1>2, <3>3 DEF ObserverIInv, ObserverTyped
    <3>6. QED BY <1>1, <3>2, <3>4, <3>5 DEF world
  <2>2. ASSUME push'.received <= PushMaxAge
        PROVE  (push'.probe.running <=> bridge'.running)
               \/ steady' <= MaxSkew + push'.received
    <3>1. push.received \in 0..(PushMaxAge + 1)
      BY DEF ObserverIInv, ObserverTyped
    <3>2. push'.received = push.received + 1 /\ push.received <= PushMaxAge
      BY <1>4, <2>2, <3>1, Bounds DEF Up
    <3>3. (push.probe.running <=> bridge.running) \/ steady <= MaxSkew + push.received
      BY <3>2 DEF ObserverIInv, Dated
    <3>4. steady <= MaxSkew + push.received => steady' <= MaxSkew + push'.received
      BY <1>2, <3>1, <3>2, Bounds DEF ObserverIInv, ObserverTyped
    <3>5. QED BY <1>1, <1>4, <3>3, <3>4 DEF world
  <2>3. QED BY <2>1, <2>2 DEF Dated
<1>7. MessagesAreRecent'
  BY <1>1 DEF MessagesAreRecent
<1>8. Known'
  BY <1>1, AgedType DEF ObserverIInv, Known, ObserverTyped
<1>9. QED BY <1>5, <1>6, <1>7, <1>8 DEF ObserverIInv

(* The rest: a look that is left out, --once loading its copy, a restart.  *)
LEMMA OthersKeep ==
  ASSUME ObserverIInv, Skip \/ OnceLoads \/ Restart PROVE ObserverIInv'
<1>1. CASE Skip
  BY <1>1 DEF Skip, ObserverIInv, ObserverTyped, Dated, MessagesAreRecent, Known, world
<1>2. CASE OnceLoads
  <2>1. /\ once' = [loaded |-> TRUE, copy |-> disk]
        /\ spent' = [spent EXCEPT !.once = @ + 1]
        /\ UNCHANGED <<world, flight, push, mem, disk, out, heard, early, steady>>
    BY <1>2 DEF OnceLoads, Spend
  <2>2. ObserverTyped'
    BY <2>1 DEF ObserverIInv, ObserverTyped, world
  <2>3. Known'
    BY <2>1 DEF ObserverIInv, ObserverTyped, Known
  <2>4. QED BY <2>1, <2>2, <2>3 DEF ObserverIInv, Dated, MessagesAreRecent, world
<1>3. CASE Restart
  <2>1. /\ mem' = disk
        /\ spent' = [spent EXCEPT !.restarts = @ + 1]
        /\ UNCHANGED <<world, flight, push, disk, once, out, heard, early, steady>>
    BY <1>3 DEF Restart, Spend
  <2>2. ObserverTyped'
    BY <2>1 DEF ObserverIInv, ObserverTyped, world
  <2>3. Known'
    BY <2>1 DEF ObserverIInv, ObserverTyped, Known
  <2>4. QED BY <2>1, <2>2, <2>3 DEF ObserverIInv, Dated, MessagesAreRecent, world
<1>4. QED BY <1>1, <1>2, <1>3

(* Every step keeps the invariant.                                         *)
LEMMA ObserverStepIInv == ObserverIInv /\ [ObserverNext]_observerVars => ObserverIInv'
<1> SUFFICES ASSUME ObserverIInv, [ObserverNext]_observerVars PROVE ObserverIInv'
  OBVIOUS
<1>1. CASE UNCHANGED observerVars
  BY <1>1 DEF observerVars, world, ObserverIInv, ObserverTyped, Dated, MessagesAreRecent, Known
<1>2. CASE ObserverNext
  BY <1>2, CycleKeeps, OnceKeeps, SendKeeps, ReceiveKeeps, ChangeKeeps, TickKeeps,
     OthersKeep DEF ObserverNext
<1>3. QED BY <1>1, <1>2

-----------------------------------------------------------------------------
(* What is said of the container was so within the window of a push,       *)
(* whatever rules are watched and however late pushes come.                *)
THEOREM WhatIsSaidIsRecent == ObserverSpec => []MessagesAreRecent
<1>1. ObserverIInv => MessagesAreRecent
  BY DEF ObserverIInv
<1>2. QED BY ObserverInitIInv, ObserverStepIInv, <1>1, PTL DEF ObserverSpec

(* Without a mishap and a --once no rule alerts again before its time,     *)
(* over outages, recoveries and restarts of the observer.                  *)
THEOREM AlertsStaySpaced == ObserverSpec => []AlertsAreSpaced
<1>1. ObserverIInv => AlertsAreSpaced
  BY DEF ObserverIInv, Known, AlertsAreSpaced
<1>2. QED BY ObserverInitIInv, ObserverStepIInv, <1>1, PTL DEF ObserverSpec

================================================================================
