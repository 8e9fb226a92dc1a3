---------------------------- MODULE MaxEvents_proofs ----------------------------
(***************************************************************************)
(* One message of MAX, for any number of notifications, lapses, failed     *)
(* requests and faults: it is kept until the bridge knows it, and handled  *)
(* as often as it was notified of.                                         *)
(***************************************************************************)
EXTENDS MaxEvents, FiniteSetTheorems, TLAPS

-----------------------------------------------------------------------------
(* The inductive invariant                                                 *)

Raw(n) == <<"raw", n>>
Typed(n) == <<"typed", n>>

Place == {"idle", "begin", "fetch", "await", "poll", "check", "resolve"}

TypeOK ==
  /\ notice \in [Notices -> {"none", "full", "empty"}
                              \X {"none", "full", "empty", "degraded"}]
  /\ pc \in [Slots -> Place]
  /\ mark \in [processed : BOOLEAN, unwrapped : BOOLEAN, cached : BOOLEAN]
  /\ job \in {"none", "wait", "due"}
  /\ saved \in BOOLEAN /\ known \in BOOLEAN /\ owed \in BOOLEAN /\ excused \in BOOLEAN
  /\ handled \subseteq Live
  /\ spent \in [lapses : Nat, misses : Nat, faults : Nat]

(* Each part of the handler has its own stations.                          *)
Stations ==
  /\ \A n \in Notices : pc[Raw(n)] \in {"idle", "begin", "resolve"}
  /\ pc[Task] \in {"idle", "poll", "resolve"}
  /\ pc[Worker] \in {"idle", "fetch", "resolve"}
  /\ pc[Sweep] \in {"idle", "fetch", "check", "resolve"}

(* No handler runs without a notification; its raw handler goes before the *)
(* typed one; what comes from a channel is whole in its raw frame.         *)
InOrder ==
  \A n \in Notices :
    /\ notice[n][1] = "none" => pc[Raw(n)] = "idle" /\ pc[Typed(n)] = "idle"
    /\ pc[Raw(n)] = "begin" => pc[Typed(n)] = "begin"
    /\ kind = "channel" => notice[n][1] \in {"none", "full"}
    /\ notice[n][2] = "degraded" => kind = "channel"
    /\ pc[Typed(n)] = "await" => kind = "channel"

(* An announcement waits for a typed handler, its own if no other.         *)
Announced ==
  mark.unwrapped => mark.processed /\ \E n \in Notices : pc[Typed(n)] = "begin"

SweepsDialogs == kind # "dialog" => pc[Sweep] = "idle"

Shape == TypeOK /\ Stations /\ InOrder /\ Announced /\ SweepsDialogs

(* The message is the bridge's, was lost to a fault, or is on its way with *)
(* its content.                                                            *)
HandedOver == known \/ excused \/ \E s \in Slots : pc[s] = "resolve"

(* Whoever may drop the message has reason to: who announced it, whom the  *)
(* typed handler waits for, or who forgot the job, has handed it over.     *)
Kept ==
  /\ mark.unwrapped => HandedOver
  /\ kind = "channel" /\ mark.processed => HandedOver
  /\ job = "none" /\ (pc[Task] = "poll" \/ pc[Worker] = "fetch") => HandedOver
  /\ owed => \/ job # "none"
             \/ \E n \in Notices : pc[Typed(n)] \in {"fetch", "await"}
             \/ HandedOver

(* A notification is still good for one handling, by its typed handler or  *)
(* by the job that this one left; an announcement stands for the handling  *)
(* that its typed handler will not repeat.  A job that is over comes back  *)
(* with a crash if its end was not written, at the price of both faults.   *)
Pending == {n \in Notices : pc[Typed(n)] \in {"begin", "fetch", "await"}}
Announcing == IF mark.unwrapped THEN 1 ELSE 0
Unheard == ~mark.processed \/ mark.unwrapped
Waiting ==
  IF job # "none" \/ (Unheard /\ (pc[Task] = "poll" \/ pc[Worker] = "fetch"))
  THEN 1 ELSE 0
Stale == IF job = "none" /\ saved THEN 1 ELSE 0

Counted ==
  kind # "dialog" /\ spent.lapses = 0 =>
    2 * (Cardinality(handled) + Cardinality(Pending) + Waiting) + Stale
      <= 2 * (Cardinality(Notified) + Announcing) + spent.faults

IInv == Shape /\ Kept /\ Counted

-----------------------------------------------------------------------------
(* Slots and counts                                                        *)

Waits == {"begin", "fetch", "await"}

(* The slots are those of the notifications and three more.                *)
LEMMA SlotFacts ==
  /\ \A n \in Notices : Raw(n) \in Slots /\ Typed(n) \in Slots
  /\ \A n \in Notices : Raw(n) \in Live /\ Typed(n) \in Live
  /\ Task \in Slots /\ Worker \in Slots /\ Sweep \in Slots
  /\ Task \notin Live /\ Worker \notin Live /\ Sweep \notin Live
  /\ Task # Worker /\ Task # Sweep /\ Worker # Sweep
  /\ \A n, o \in Notices : Raw(n) # Typed(o)
  /\ \A n, o \in Notices : n # o => Raw(n) # Raw(o) /\ Typed(n) # Typed(o)
  /\ \A s \in Live : \E n \in Notices : s = Raw(n) \/ s = Typed(n)
  /\ Slots = Live \cup {Task, Worker, Sweep}
  BY DEF Slots, Live, Task, Worker, Sweep, Raw, Typed

(* Notifications and their handlings can be counted.                       *)
LEMMA Counts ==
  /\ \A H \in SUBSET Live : IsFiniteSet(H) /\ Cardinality(H) \in Nat
  /\ \A P \in SUBSET Notices : IsFiniteSet(P) /\ Cardinality(P) \in Nat
<1>1. IsFiniteSet(Notices)
  BY EventsAssumption, FS_Interval DEF Notices
<1>2. IsFiniteSet({"raw", "typed"})
  <2>1. IsFiniteSet({"raw"})
    BY FS_Singleton
  <2>2. IsFiniteSet({"raw"} \cup {"typed"})
    BY <2>1, FS_AddElement
  <2>3. {"raw"} \cup {"typed"} = {"raw", "typed"}
    OBVIOUS
  <2>4. QED BY <2>2, <2>3
<1>3. IsFiniteSet(Live)
  BY <1>1, <1>2, FS_Product DEF Live
<1>4. QED BY <1>1, <1>3, FS_Subset, FS_CardinalityType

(* What a handler begins adds at most one to the handlings.                *)
LEMMA HandledMore ==
  ASSUME TypeOK, NEW s \in Slots, handled' = handled \cup ({s} \cap Live)
  PROVE  /\ handled' \subseteq Live
         /\ Cardinality(handled') <= Cardinality(handled) + 1
         /\ s \notin Live => handled' = handled
<1>1. handled \in SUBSET Live /\ handled' \subseteq Live
  BY DEF TypeOK
<1>2. IsFiniteSet(handled) /\ Cardinality(handled) \in Nat
  BY <1>1, Counts
<1>3. CASE s \in Live
  <2>1. handled' = handled \cup {s}
    BY <1>3
  <2>2. Cardinality(handled \cup {s}) = IF s \in handled THEN Cardinality(handled)
                                        ELSE Cardinality(handled) + 1
    BY <1>2, FS_AddElement
  <2>3. QED BY <1>1, <1>2, <1>3, <2>1, <2>2
<1>4. CASE s \notin Live
  <2>1. handled' = handled
    BY <1>4
  <2>2. QED BY <1>1, <1>2, <2>1
<1>5. QED BY <1>3, <1>4

(* Where the slots are after one has moved.                                *)
LEMMA Moved ==
  ASSUME TypeOK, NEW s \in Slots, NEW there \in Place, Go(s, there)
  PROVE  /\ pc' \in [Slots -> Place]
         /\ pc'[s] = there
         /\ \A t \in Slots \ {s} : pc'[t] = pc[t]
  BY DEF TypeOK, Go

(* A typed handler that ends is no longer pending, and none begins by the  *)
(* move of another.                                                        *)
LEMMA PendingLess ==
  ASSUME TypeOK, TypeOK', NEW s \in Slots, NEW there \in Place, Go(s, there)
  PROVE  /\ \A n \in Notices : s = Typed(n) /\ pc[s] \in Waits /\ there \notin Waits
                                 => Cardinality(Pending') + 1 <= Cardinality(Pending)
         /\ (\A n \in Notices : s = Typed(n) => pc[s] \in Waits \/ there \notin Waits)
              => Cardinality(Pending') <= Cardinality(Pending)
<1>1. Pending \in SUBSET Notices /\ Pending' \in SUBSET Notices
  BY DEF Pending
<1>2. /\ IsFiniteSet(Pending) /\ Cardinality(Pending) \in Nat
      /\ IsFiniteSet(Pending') /\ Cardinality(Pending') \in Nat
  BY <1>1, Counts
<1>3. ASSUME NEW n \in Notices, s = Typed(n), pc[s] \in Waits, there \notin Waits
      PROVE  Cardinality(Pending') + 1 <= Cardinality(Pending)
  <2>1. n \in Pending /\ Pending' \subseteq Pending \ {n}
    BY <1>3, Moved, SlotFacts DEF Pending, Waits
  <2>2. /\ IsFiniteSet(Pending \ {n})
        /\ Cardinality(Pending \ {n}) = Cardinality(Pending) - 1
    BY <1>2, <2>1, FS_RemoveElement
  <2>3. Cardinality(Pending') <= Cardinality(Pending \ {n})
    BY <2>1, <2>2, FS_Subset
  <2>4. QED BY <1>2, <2>2, <2>3
<1>4. ASSUME \A n \in Notices : s = Typed(n) => pc[s] \in Waits \/ there \notin Waits
      PROVE  Cardinality(Pending') <= Cardinality(Pending)
  <2>1. Pending' \subseteq Pending
    BY <1>4, Moved, SlotFacts DEF Pending, Waits
  <2>2. QED BY <1>2, <2>1, FS_Subset
<1>5. QED BY <1>3, <1>4

(* A step keeps within the count if the handling it adds, or the waiting   *)
(* or the announcement it ends, is paid for by a typed handler that ends.  *)
LEMMA CountKept ==
  ASSUME TypeOK, TypeOK', Counted, kind' = kind, notice' = notice,
         spent'.lapses = spent.lapses,
         spent.faults + Stale' <= spent'.faults + Stale,
         NEW more \in {0, 1}, NEW less \in {0, 1},
         Cardinality(handled') <= Cardinality(handled) + more,
         Cardinality(Pending') + less <= Cardinality(Pending),
         more + Announcing + Waiting' <= less + Announcing' + Waiting
  PROVE  Counted'
<1> SUFFICES ASSUME kind # "dialog", spent.lapses = 0
             PROVE  2 * (Cardinality(handled') + Cardinality(Pending') + Waiting') + Stale'
                      <= 2 * (Cardinality(Notified) + Announcing') + spent'.faults
  BY DEF Counted, Notified
<1>1. 2 * (Cardinality(handled) + Cardinality(Pending) + Waiting) + Stale
        <= 2 * (Cardinality(Notified) + Announcing) + spent.faults
  BY DEF Counted
<1>2. handled \in SUBSET Live /\ handled' \in SUBSET Live
  BY DEF TypeOK
<1>3. Pending \in SUBSET Notices /\ Pending' \in SUBSET Notices /\ Notified \in SUBSET Notices
  BY DEF Pending, Notified
<1>4. /\ Cardinality(handled) \in Nat /\ Cardinality(handled') \in Nat
      /\ Cardinality(Pending) \in Nat /\ Cardinality(Pending') \in Nat
      /\ Cardinality(Notified) \in Nat
  BY <1>2, <1>3, Counts
<1>5. /\ Waiting \in {0, 1} /\ Waiting' \in {0, 1} /\ Stale \in {0, 1} /\ Stale' \in {0, 1}
      /\ Announcing \in {0, 1} /\ Announcing' \in {0, 1}
  BY DEF Waiting, Stale, Announcing
<1>6. spent.faults \in Nat /\ spent'.faults \in Nat
  BY DEF TypeOK
<1>7. PICK h2 \in Nat, p2 \in Nat :
        h2 = Cardinality(handled') /\ p2 = Cardinality(Pending')
  BY <1>4
<1>8. PICK w2 \in {0, 1}, t2 \in {0, 1}, u2 \in {0, 1}, f2 \in Nat :
        w2 = Waiting' /\ t2 = Stale' /\ u2 = Announcing' /\ f2 = spent'.faults
  BY <1>5, <1>6
<1>9. /\ spent.faults + t2 <= f2 + Stale
      /\ h2 <= Cardinality(handled) + more /\ p2 + less <= Cardinality(Pending)
      /\ more + Announcing + w2 <= less + u2 + Waiting
  BY <1>7, <1>8
<1>10. 2 * (h2 + p2 + w2) + t2 <= 2 * (Cardinality(Notified) + u2) + f2
  BY <1>1, <1>4, <1>5, <1>6, <1>9
<1>11. QED BY <1>7, <1>8, <1>10

-----------------------------------------------------------------------------
(* What the steps have in common                                           *)

(* A lapse, a failed request or a fault is counted.                        *)
LEMMA SpendType ==
  ASSUME TypeOK, NEW what \in {"lapses", "misses", "faults"}, Spend(what)
  PROVE  /\ spent' \in [lapses : Nat, misses : Nat, faults : Nat]
         /\ spent'[what] = spent[what] + 1
         /\ \A other \in {"lapses", "misses", "faults"} \ {what} :
              spent'[other] = spent[other]
  BY DEF TypeOK, Spend

(* A job that is over and whose end was not written cost a fault.          *)
LEMMA ForgetCosts ==
  ASSUME TypeOK, Forget
  PROVE  /\ job' = "none" /\ saved' \in BOOLEAN /\ excused' = excused
         /\ spent' \in [lapses : Nat, misses : Nat, faults : Nat]
         /\ spent'.lapses = spent.lapses
         /\ spent.faults + Stale' <= spent'.faults + Stale
<1>0. spent.faults \in Nat
  BY DEF TypeOK
<1>1. CASE job = "none"
  <2>1. UNCHANGED <<job, saved, spent, excused>>
    BY <1>1 DEF Forget
  <2>2. PICK k \in {0, 1} : k = Stale /\ k = Stale'
    BY <2>1 DEF Stale
  <2>3. QED BY <1>0, <1>1, <2>1, <2>2 DEF TypeOK
<1>2. CASE job # "none" /\ saved' = FALSE /\ UNCHANGED <<spent, excused>> /\ job' = "none"
  <2>1. PICK k \in {0, 1} : k = Stale /\ k = Stale'
    BY <1>2 DEF Stale
  <2>2. spent' = spent /\ excused' = excused /\ saved' \in BOOLEAN
    BY <1>2
  <2>3. spent.faults + k <= spent.faults + k
    BY <1>0
  <2>4. spent.faults + Stale' <= spent'.faults + Stale
    BY <2>1, <2>2, <2>3
  <2>5. QED BY <1>2, <2>2, <2>4 DEF TypeOK
<1>3. CASE /\ job # "none" /\ Spend("faults") /\ job' = "none"
           /\ excused' = (excused \/ FALSE) /\ saved' = saved
  <2>1. spent'.faults = spent.faults + 1 /\ spent'.lapses = spent.lapses
    BY <1>3, SpendType
  <2>2. PICK k \in {0, 1} : k = Stale'
    BY DEF Stale
  <2>3. Stale = 0
    BY <1>3 DEF Stale
  <2>4. spent.faults + k <= (spent.faults + 1) + 0
    BY <1>0
  <2>5. excused' = excused /\ saved' \in BOOLEAN
    BY <1>3 DEF TypeOK
  <2>6. QED BY <1>3, <2>1, <2>2, <2>3, <2>4, <2>5, SpendType
<1>4. QED BY <1>1, <1>2, <1>3 DEF Forget, Save

(* The message stays handed over while a slot moves that did not have it.  *)
LEMMA HandedStays ==
  ASSUME TypeOK, NEW s \in Slots, NEW there \in Place, Go(s, there),
         pc[s] # "resolve", known' = known, excused => excused',
         HandedOver \/ there = "resolve"
  PROVE  HandedOver'
<1>1. CASE there = "resolve"
  BY <1>1, Moved DEF HandedOver
<1>2. CASE HandedOver
  <2>1. CASE known \/ excused
    BY <2>1 DEF HandedOver
  <2>2. CASE \E t \in Slots : pc[t] = "resolve"
    <3>1. PICK t \in Slots : pc[t] = "resolve"
      BY <2>2
    <3>2. pc'[t] = "resolve"
      BY <3>1, Moved
    <3>3. QED BY <3>2 DEF HandedOver
  <2>3. QED BY <1>2, <2>1, <2>2 DEF HandedOver
<1>3. QED BY <1>1, <1>2

(* Nothing more is asked of a message that is handed over.                 *)
LEMMA KeptIfHanded == HandedOver' => Kept'
  BY DEF Kept

(* The moves that keep the stations, the order of the handlers and who     *)
(* waits for an announcement.                                              *)
Fits(s, there) ==
  /\ s \in Live => pc[s] # "idle"
  /\ \A n \in Notices : s = Raw(n) => there \in {"idle", "resolve"}
  /\ there = "await" => kind = "channel"
  /\ \A n \in Notices : s = Typed(n) /\ pc[s] = "begin"
                          => pc[Raw(n)] # "begin" /\ ~mark'.unwrapped
  /\ s = Task => there \in {"idle", "poll", "resolve"}
  /\ s = Worker => there \in {"idle", "fetch", "resolve"}
  /\ s = Sweep => there \in {"idle", "fetch", "check", "resolve"} /\ kind = "dialog"
  /\ mark'.unwrapped =>
       /\ mark'.processed
       /\ mark.unwrapped \/ \E n \in Notices : s = Raw(n) /\ pc[s] = "begin"

(* They keep the shape.                                                    *)
LEMMA MoveShape ==
  ASSUME Shape, TypeOK', NEW s \in Slots, NEW there \in Place, Go(s, there),
         Fits(s, there), there # "begin", notice' = notice, kind' = kind
  PROVE  Shape'
<1>0. TypeOK
  BY DEF Shape
<1>1. /\ pc'[s] = there
      /\ \A t \in Slots \ {s} : pc'[t] = pc[t]
  BY <1>0, Moved
<1>2. Stations'
  <2>1. \A n \in Notices : pc'[Raw(n)] \in {"idle", "begin", "resolve"}
    BY <1>1, SlotFacts DEF Shape, Stations, Fits
  <2>2. /\ pc'[Task] \in {"idle", "poll", "resolve"}
        /\ pc'[Worker] \in {"idle", "fetch", "resolve"}
        /\ pc'[Sweep] \in {"idle", "fetch", "check", "resolve"}
    BY <1>1, SlotFacts DEF Shape, Stations, Fits
  <2>3. QED BY <2>1, <2>2 DEF Stations
<1>3. InOrder'
  <2> SUFFICES ASSUME NEW n \in Notices
               PROVE  /\ notice[n][1] = "none" => pc'[Raw(n)] = "idle" /\ pc'[Typed(n)] = "idle"
                      /\ pc'[Raw(n)] = "begin" => pc'[Typed(n)] = "begin"
                      /\ pc'[Typed(n)] = "await" => kind = "channel"
    BY DEF InOrder, Shape
  <2>1. ASSUME pc'[Raw(n)] = "begin" PROVE pc'[Typed(n)] = "begin"
    <3>1. s # Raw(n) /\ pc[Raw(n)] = "begin"
      BY <1>1, <2>1, SlotFacts
    <3>2. pc[Typed(n)] = "begin"
      BY <3>1 DEF Shape, InOrder
    <3>3. s # Typed(n)
      BY <3>1, <3>2 DEF Fits
    <3>4. QED BY <1>1, <3>2, <3>3, SlotFacts
  <2>2. ASSUME notice[n][1] = "none" PROVE pc'[Raw(n)] = "idle" /\ pc'[Typed(n)] = "idle"
    <3>1. pc[Raw(n)] = "idle" /\ pc[Typed(n)] = "idle"
      BY <2>2 DEF Shape, InOrder
    <3>2. s # Raw(n) /\ s # Typed(n)
      BY <3>1, SlotFacts DEF Fits
    <3>3. QED BY <1>1, <3>1, <3>2, SlotFacts
  <2>3. ASSUME pc'[Typed(n)] = "await" PROVE kind = "channel"
    BY <1>1, <2>3, SlotFacts DEF Shape, InOrder, Fits
  <2>4. QED BY <2>1, <2>2, <2>3
<1>4. Announced'
  <2> SUFFICES ASSUME mark'.unwrapped
               PROVE  mark'.processed /\ \E n \in Notices : pc'[Typed(n)] = "begin"
    BY DEF Announced
  <2>1. \E n \in Notices : pc[Typed(n)] = "begin"
    BY SlotFacts DEF Shape, Announced, InOrder, Fits
  <2>2. PICK n \in Notices : pc[Typed(n)] = "begin"
    BY <2>1
  <2>3. s # Typed(n)
    BY <2>2 DEF Fits
  <2>4. QED BY <1>1, <2>2, <2>3, SlotFacts DEF Fits
<1>5. SweepsDialogs'
  BY <1>1, SlotFacts DEF Shape, SweepsDialogs, Fits
<1>6. QED BY <1>2, <1>3, <1>4, <1>5 DEF Shape

(* The same where no slot moves.                                           *)
LEMMA StillShape ==
  ASSUME Shape, TypeOK', pc' = pc, notice' = notice, kind' = kind,
         mark'.unwrapped => mark.unwrapped /\ mark'.processed
  PROVE  Shape'
  BY DEF Shape, Stations, InOrder, Announced, SweepsDialogs

-----------------------------------------------------------------------------
(* Handling and dropping                                                   *)

Marks == [processed : BOOLEAN, unwrapped : BOOLEAN, cached : BOOLEAN]

(* A raw handler announces what it handles; the others leave the marks to  *)
(* it, and a typed handler is pending until it handles.                    *)
LEMMA HandleKeeps ==
  ASSUME IInv, NEW s \in Slots, Handle(s), notice' = notice, kind' = kind,
         known' = known, mark' \in Marks, pc[s] # "resolve", Fits(s, "resolve"),
         \/ /\ \E n \in Notices : s = Raw(n)
            /\ ~mark.processed /\ mark'.unwrapped
         \/ /\ mark'.unwrapped = mark.unwrapped /\ mark'.processed = mark.processed
            /\ s \in Live => \E n \in Notices : s = Typed(n) /\ pc[s] \in Waits
  PROVE  IInv'
<1>0. TypeOK /\ Shape /\ Kept /\ Counted
  BY DEF IInv, Shape
<1>1. /\ Go(s, "resolve") /\ handled' = handled \cup ({s} \cap Live)
      /\ owed' = TRUE /\ Forget
  BY DEF Handle
<1>2. /\ job' = "none" /\ saved' \in BOOLEAN /\ excused' = excused
      /\ spent' \in [lapses : Nat, misses : Nat, faults : Nat]
      /\ spent'.lapses = spent.lapses
      /\ spent.faults + Stale' <= spent'.faults + Stale
  BY <1>0, <1>1, ForgetCosts
<1>3. "resolve" \in Place
  BY DEF Place
<1>4. /\ pc' \in [Slots -> Place] /\ pc'[s] = "resolve"
      /\ \A t \in Slots \ {s} : pc'[t] = pc[t]
  BY <1>0, <1>1, <1>3, Moved
<1>5. TypeOK'
  BY <1>0, <1>1, <1>2, <1>4, HandledMore DEF TypeOK, Marks
<1>6. Shape'
  BY <1>0, <1>1, <1>3, <1>5, MoveShape
<1>7. Kept'
  BY <1>0, <1>1, <1>2, <1>3, HandedStays, KeptIfHanded
<1>8. Waiting' = 1 => Waiting = 1
  <2>1. SUFFICES ASSUME Unheard', pc'[Task] = "poll" \/ pc'[Worker] = "fetch"
                 PROVE  Unheard /\ (pc[Task] = "poll" \/ pc[Worker] = "fetch")
    BY <1>2 DEF Waiting
  <2>2. pc[Task] = "poll" \/ pc[Worker] = "fetch"
    BY <1>4, <2>1, SlotFacts
  <2>3. Unheard
    BY <2>1 DEF Unheard
  <2>4. QED BY <2>2, <2>3
<1>9. PICK w \in {0, 1}, w2 \in {0, 1}, u \in {0, 1}, u2 \in {0, 1} :
        w = Waiting /\ w2 = Waiting' /\ u = Announcing /\ u2 = Announcing'
  BY DEF Waiting, Announcing
<1>10. w2 <= w
  BY <1>8, <1>9
<1>11. Counted'
  <2>1. CASE \E n \in Notices : s = Raw(n) /\ ~mark.processed /\ mark'.unwrapped
    <3>1. u = 0 /\ u2 = 1
      BY <1>0, <1>9, <2>1 DEF Shape, Announced, Announcing
    <3>2. Cardinality(handled') <= Cardinality(handled) + 1
      BY <1>0, <1>1, HandledMore
    <3>3. Cardinality(Pending') <= Cardinality(Pending)
      BY <1>0, <1>1, <1>3, <1>5, PendingLess DEF Waits
    <3>4. 1 + u + w2 <= 0 + u2 + w
      BY <1>10, <3>1
    <3>5. Cardinality(Pending') + 0 <= Cardinality(Pending)
      <4>1. Pending' \in SUBSET Notices
        BY DEF Pending
      <4>2. Cardinality(Pending') \in Nat
        BY <4>1, Counts
      <4>3. QED BY <3>3, <4>2
    <3>6. 1 + Announcing + Waiting' <= 0 + Announcing' + Waiting
      BY <1>9, <3>4
    <3>7. QED BY <1>0, <1>2, <1>5, <3>2, <3>5, <3>6, CountKept
  <2>2. CASE /\ mark'.unwrapped = mark.unwrapped
             /\ \E n \in Notices : s = Typed(n) /\ pc[s] \in Waits
    <3>1. u = u2
      BY <1>9, <2>2 DEF Announcing
    <3>2. Cardinality(handled') <= Cardinality(handled) + 1
      BY <1>0, <1>1, HandledMore
    <3>3. Cardinality(Pending') + 1 <= Cardinality(Pending)
      BY <1>0, <1>1, <1>3, <1>5, <2>2, PendingLess DEF Waits
    <3>4. 1 + u + w2 <= 1 + u2 + w
      BY <1>10, <3>1
    <3>5. 1 + Announcing + Waiting' <= 1 + Announcing' + Waiting
      BY <1>9, <3>4
    <3>6. QED BY <1>0, <1>2, <1>5, <3>2, <3>3, <3>5, CountKept
  <2>3. CASE mark'.unwrapped = mark.unwrapped /\ s \notin Live
    <3>1. u = u2
      BY <1>9, <2>3 DEF Announcing
    <3>2. handled' = handled
      BY <1>0, <1>1, <2>3, HandledMore
    <3>3. Cardinality(handled) \in Nat /\ Pending' \in SUBSET Notices
      BY <1>0, Counts DEF TypeOK, Pending
    <3>4. Cardinality(handled') <= Cardinality(handled) + 0
      BY <3>2, <3>3
    <3>5. Cardinality(Pending') <= Cardinality(Pending) /\ Cardinality(Pending') \in Nat
      BY <1>0, <1>1, <1>3, <1>5, <2>3, <3>3, PendingLess, SlotFacts, Counts DEF Waits
    <3>6. Cardinality(Pending') + 0 <= Cardinality(Pending)
      BY <3>5
    <3>7. 0 + u + w2 <= 0 + u2 + w
      BY <1>10, <3>1
    <3>8. 0 + Announcing + Waiting' <= 0 + Announcing' + Waiting
      BY <1>9, <3>7
    <3>9. QED BY <1>0, <1>2, <1>5, <3>4, <3>6, <3>8, CountKept
  <2>4. QED BY <2>1, <2>2, <2>3
<1>12. QED BY <1>6, <1>7, <1>11 DEF IInv

(* A step that handles nothing keeps within the count if it ends at least  *)
(* what it begins.                                                         *)
LEMMA CountQuiet ==
  ASSUME TypeOK, TypeOK', Counted, kind' = kind, notice' = notice,
         spent'.lapses = spent.lapses,
         spent.faults + Stale' <= spent'.faults + Stale,
         handled' = handled, NEW less \in {0, 1},
         Cardinality(Pending') + less <= Cardinality(Pending),
         Announcing + Waiting' <= less + Announcing' + Waiting
  PROVE  Counted'
<1>1. handled \in SUBSET Live
  BY DEF TypeOK
<1>2. Cardinality(handled) \in Nat
  BY <1>1, Counts
<1>3. Cardinality(handled') <= Cardinality(handled) + 0
  BY <1>2
<1>4. PICK w \in {0, 1}, w2 \in {0, 1}, u \in {0, 1}, u2 \in {0, 1} :
        w = Waiting /\ w2 = Waiting' /\ u = Announcing /\ u2 = Announcing'
  BY DEF Waiting, Announcing
<1>5. u + w2 <= less + u2 + w
  BY <1>4
<1>6. 0 + u + w2 <= less + u2 + w
  BY <1>5
<1>7. 0 + Announcing + Waiting' <= less + Announcing' + Waiting
  BY <1>4, <1>6
<1>8. QED BY <1>3, <1>7, CountKept

(* What was announced is dropped with the announcement: by the typed       *)
(* handler that was to repeat it, or with the job that was to do so.       *)
LEMMA DropKeeps ==
  ASSUME IInv, NEW s \in Slots, Go(s, "idle"), notice' = notice, kind' = kind,
         known' = known, handled' = handled, owed' = owed, mark' \in Marks,
         pc[s] \in Place \ {"resolve", "begin"}, mark.unwrapped, ~mark'.unwrapped,
         mark'.processed = mark.processed, s = Sweep => kind = "dialog",
         IF s \in {Task, Worker} THEN Forget /\ pc[s] \in {"poll", "fetch"}
         ELSE UNCHANGED <<job, saved, spent, excused>>,
         s \in Live => \E n \in Notices : s = Typed(n) /\ pc[s] \in Waits
  PROVE  IInv'
<1>0. TypeOK /\ Shape /\ Kept /\ Counted
  BY DEF IInv, Shape
<1>1. HandedOver /\ mark.processed
  BY <1>0 DEF Kept, Shape, Announced
<1>2. /\ saved' \in BOOLEAN /\ excused' = excused /\ job' \in {"none", "wait", "due"}
      /\ spent' \in [lapses : Nat, misses : Nat, faults : Nat]
      /\ spent'.lapses = spent.lapses
      /\ spent.faults + Stale' <= spent'.faults + Stale
      /\ s \in {Task, Worker} => job' = "none"
      /\ s \notin {Task, Worker} => job' = job
  <2>1. CASE s \in {Task, Worker}
    BY <1>0, <2>1, ForgetCosts
  <2>2. CASE s \notin {Task, Worker}
    <3>1. PICK k \in {0, 1} : k = Stale /\ k = Stale'
      BY <2>2 DEF Stale
    <3>2. spent.faults + k <= spent.faults + k
      BY <1>0 DEF TypeOK
    <3>3. spent' = spent
      BY <2>2
    <3>4. spent.faults + Stale' <= spent'.faults + Stale
      BY <3>1, <3>2, <3>3
    <3>5. QED BY <1>0, <2>2, <3>3, <3>4 DEF TypeOK
  <2>3. QED BY <2>1, <2>2
<1>3. "idle" \in Place /\ "idle" \notin Waits
  BY DEF Place, Waits
<1>4. /\ pc' \in [Slots -> Place] /\ pc'[s] = "idle"
      /\ \A t \in Slots \ {s} : pc'[t] = pc[t]
  BY <1>0, <1>3, Moved
<1>5. TypeOK'
  BY <1>0, <1>2, <1>4 DEF TypeOK, Marks
<1>6. Fits(s, "idle")
  BY SlotFacts DEF Fits, Waits
<1>7. Shape'
  BY <1>0, <1>3, <1>5, <1>6, MoveShape
<1>8. Kept'
  BY <1>0, <1>1, <1>2, <1>3, HandedStays, KeptIfHanded
<1>9. PICK w \in {0, 1}, w2 \in {0, 1}, u \in {0, 1}, u2 \in {0, 1} :
        w = Waiting /\ w2 = Waiting' /\ u = Announcing /\ u2 = Announcing'
  BY DEF Waiting, Announcing
<1>10. u = 1 /\ u2 = 0
  BY <1>9 DEF Announcing
<1>11. Waiting' = IF job' # "none" THEN 1 ELSE 0
  BY <1>1 DEF Waiting, Unheard
<1>12. Counted'
  <2>1. CASE \E n \in Notices : s = Typed(n) /\ pc[s] \in Waits
    <3>1. Cardinality(Pending') + 1 <= Cardinality(Pending)
      BY <1>0, <1>3, <1>5, <2>1, PendingLess
    <3>2. w2 <= w
      BY <1>2, <1>9, <1>11, <2>1, SlotFacts DEF Waiting
    <3>3. u + w2 <= 1 + u2 + w
      BY <1>10, <3>2
    <3>4. Announcing + Waiting' <= 1 + Announcing' + Waiting
      BY <1>9, <3>3
    <3>5. QED BY <1>0, <1>2, <1>5, <3>1, <3>4, CountQuiet
  <2>2. CASE s \in {Task, Worker}
    <3>1. Cardinality(Pending') <= Cardinality(Pending)
      BY <1>0, <1>3, <1>5, PendingLess
    <3>2. Pending' \in SUBSET Notices
      BY DEF Pending
    <3>3. Cardinality(Pending') + 0 <= Cardinality(Pending)
      <4>1. Cardinality(Pending') \in Nat
        BY <3>2, Counts
      <4>2. QED BY <3>1, <4>1
    <3>4. w2 = 0
      BY <1>2, <1>9, <1>11, <2>2
    <3>5. w = 1
      <4>1. pc[Task] = "poll" \/ pc[Worker] = "fetch"
        BY <1>0, <2>2, SlotFacts DEF Shape, Stations
      <4>2. QED BY <1>9, <4>1 DEF Waiting, Unheard
    <3>6. u + w2 <= 0 + u2 + w
      BY <1>10, <3>4, <3>5
    <3>7. Announcing + Waiting' <= 0 + Announcing' + Waiting
      BY <1>9, <3>6
    <3>8. QED BY <1>0, <1>2, <1>5, <3>3, <3>7, CountQuiet
  <2>3. CASE s = Sweep
    BY <2>3 DEF Counted
  <2>4. QED BY <2>1, <2>2, <2>3, SlotFacts
<1>13. QED BY <1>7, <1>8, <1>12 DEF IInv

(* Content from the history is dropped or handled.                         *)
LEMMA ReplayKeeps ==
  ASSUME IInv, NEW s \in Slots, NEW m \in Marks, Replay(s, m),
         m.unwrapped = mark.unwrapped, m.processed = mark.processed,
         notice' = notice, kind' = kind, known' = known,
         pc[s] \in Place \ {"resolve", "begin"}, s = Sweep => kind = "dialog",
         s \in {Task, Worker} => pc[s] \in {"poll", "fetch"},
         s \in Live => \E n \in Notices : s = Typed(n) /\ pc[s] \in Waits
  PROVE  IInv'
<1>0. TypeOK /\ Shape
  BY DEF IInv, Shape
<1>1. CASE /\ m.unwrapped /\ mark' = [m EXCEPT !.unwrapped = FALSE] /\ Go(s, "idle")
           /\ IF s \in {Task, Worker} THEN Forget
              ELSE UNCHANGED <<job, saved, spent, excused>>
           /\ UNCHANGED <<handled, owed>>
  <2>1. /\ mark' \in Marks /\ ~mark'.unwrapped /\ mark'.processed = mark.processed
        /\ mark.unwrapped
    BY <1>1 DEF Marks
  <2>2. IF s \in {Task, Worker} THEN Forget /\ pc[s] \in {"poll", "fetch"}
        ELSE UNCHANGED <<job, saved, spent, excused>>
    BY <1>1
  <2>3. Go(s, "idle") /\ handled' = handled /\ owed' = owed
    BY <1>1
  <2>4. QED BY <2>1, <2>2, <2>3, DropKeeps
<1>2. CASE mark' = m /\ Handle(s)
  <2>1. \A n \in Notices : s # Raw(n)
    BY SlotFacts
  <2>2. mark'.unwrapped => mark'.processed /\ mark.unwrapped
    BY <1>0, <1>2 DEF Shape, Announced
  <2>3. Fits(s, "resolve")
    BY <2>1, <2>2 DEF Fits, Waits
  <2>4. QED BY <1>2, <2>3, HandleKeeps
<1>3. QED BY <1>1, <1>2 DEF Replay

-----------------------------------------------------------------------------
(* The other steps                                                         *)

(* A slot that moves without handling.                                     *)
LEMMA MoveKeeps ==
  ASSUME IInv, TypeOK', NEW s \in Slots, NEW there \in Place \ {"begin"},
         Go(s, there), Fits(s, there), notice' = notice, kind' = kind,
         handled' = handled, spent'.lapses = spent.lapses,
         spent.faults <= spent'.faults, Stale' = 1 => Stale = 1,
         \/ /\ mark'.unwrapped = mark.unwrapped
            /\ Waiting' = 1 => Waiting = 1
            /\ s \in Live => there \notin Waits \/ pc[s] \in Waits
         \/ /\ \E n \in Notices : s = Typed(n) /\ pc[s] \in Waits /\ there \notin Waits
            /\ mark'.unwrapped = mark.unwrapped \/ (Waiting' = 1 => Waiting = 1),
         Kept'
  PROVE  IInv'
<1>0. TypeOK /\ Shape /\ Counted
  BY DEF IInv, Shape
<1>1. Shape'
  BY <1>0, MoveShape
<1>2. PICK w \in {0, 1}, w2 \in {0, 1}, u \in {0, 1}, u2 \in {0, 1} :
        w = Waiting /\ w2 = Waiting' /\ u = Announcing /\ u2 = Announcing'
  BY DEF Waiting, Announcing
<1>3. mark'.unwrapped = mark.unwrapped => u = u2
  BY <1>2 DEF Announcing
<1>4. (Waiting' = 1 => Waiting = 1) => w2 <= w
  BY <1>2
<1>5. spent.faults + Stale' <= spent'.faults + Stale
  <2>1. PICK t \in {0, 1}, t2 \in {0, 1}, f2 \in Nat :
          t = Stale /\ t2 = Stale' /\ f2 = spent'.faults
    BY DEF Stale, TypeOK
  <2>2. spent.faults + t2 <= f2 + t
    BY <1>0, <2>1 DEF TypeOK
  <2>3. QED BY <2>1, <2>2
<1>6. CASE /\ mark'.unwrapped = mark.unwrapped
           /\ Waiting' = 1 => Waiting = 1
           /\ s \in Live => there \notin Waits \/ pc[s] \in Waits
  <2>1. Cardinality(Pending') <= Cardinality(Pending)
    BY <1>0, <1>6, PendingLess, SlotFacts
  <2>2. Pending' \in SUBSET Notices
    BY DEF Pending
  <2>3. Cardinality(Pending') \in Nat
    BY <2>2, Counts
  <2>4. Cardinality(Pending') + 0 <= Cardinality(Pending)
    BY <2>1, <2>3
  <2>5. u + w2 <= 0 + u2 + w
    BY <1>3, <1>4, <1>6
  <2>6. Announcing + Waiting' <= 0 + Announcing' + Waiting
    BY <1>2, <2>5
  <2>7. Counted'
    BY <1>0, <1>5, <2>4, <2>6, CountQuiet
  <2>8. QED BY <1>1, <2>7 DEF IInv
<1>7. CASE /\ \E n \in Notices : s = Typed(n) /\ pc[s] \in Waits /\ there \notin Waits
           /\ mark'.unwrapped = mark.unwrapped \/ (Waiting' = 1 => Waiting = 1)
  <2>1. Cardinality(Pending') + 1 <= Cardinality(Pending)
    BY <1>0, <1>7, PendingLess
  <2>2. u + w2 <= 1 + u2 + w
    BY <1>3, <1>4, <1>7
  <2>3. Announcing + Waiting' <= 1 + Announcing' + Waiting
    BY <1>2, <2>2
  <2>4. Counted'
    BY <1>0, <1>5, <2>1, <2>3, CountQuiet
  <2>5. QED BY <1>1, <2>4 DEF IInv
<1>8. QED BY <1>6, <1>7

(* A step that moves no handler and no job, and leaves the marks.          *)
LEMMA StillKeeps ==
  ASSUME IInv, TypeOK', notice' = notice, kind' = kind, pc' = pc, mark' = mark,
         job' = job \/ (job # "none" /\ job' # "none"), saved' = saved, known' = known,
         handled' = handled, owed' = owed, excused' = excused, spent' = spent
  PROVE  IInv'
<1>1. Shape'
  BY StillShape DEF IInv, Shape, Announced
<1>2. Kept'
  BY DEF IInv, Kept, HandedOver
<1>3. /\ Waiting' = Waiting /\ Stale' = Stale /\ Announcing' = Announcing
      /\ Pending' = Pending /\ Notified' = Notified
  BY DEF Waiting, Stale, Announcing, Pending, Notified, Unheard
<1>4. Counted'
  <2>1. PICK w \in {0, 1}, t \in {0, 1}, u \in {0, 1} :
          w = Waiting /\ t = Stale /\ u = Announcing
    BY DEF Waiting, Stale, Announcing
  <2>2. w = Waiting' /\ t = Stale' /\ u = Announcing'
    BY <1>3, <2>1
  <2>3. kind # "dialog" /\ spent.lapses = 0 =>
          2 * (Cardinality(handled) + Cardinality(Pending) + w) + t
            <= 2 * (Cardinality(Notified) + u) + spent.faults
    BY <2>1 DEF IInv, Counted
  <2>4. QED BY <1>3, <2>2, <2>3 DEF Counted
<1>5. QED BY <1>1, <1>2, <1>4 DEF IInv

-----------------------------------------------------------------------------
(* The actions                                                             *)

(* A notification brings its handlers, and is good for one handling.       *)
LEMMA NotifyKeeps ==
  ASSUME IInv, NEW n \in Notices, Notify(n)
  PROVE  IInv'
<1>0. TypeOK /\ Shape /\ Kept /\ Counted
  BY DEF IInv, Shape
<1>1. /\ notice[n][1] = "none" /\ kind' = kind /\ mark' = mark /\ job' = job
      /\ saved' = saved /\ known' = known /\ handled' = handled /\ owed' = owed
      /\ excused' = excused /\ spent' = spent
  BY DEF Notify, Environment
<1>2. PICK c \in Contents(kind) : notice' = [notice EXCEPT ![n] = c]
  BY DEF Notify
<1>3. /\ c \in {"full", "empty"} \X {"full", "degraded", "empty"}
      /\ kind = "channel" => c[1] = "full"
      /\ c[2] = "degraded" => kind = "channel"
  BY DEF Contents
<1>4. /\ notice' \in [Notices -> {"none", "full", "empty"}
                                   \X {"none", "full", "empty", "degraded"}]
      /\ notice'[n] = c
      /\ \A o \in Notices \ {n} : notice'[o] = notice[o]
  BY <1>0, <1>2, <1>3 DEF TypeOK
<1>5. pc[Raw(n)] = "idle" /\ pc[Typed(n)] = "idle"
  BY <1>0, <1>1 DEF Shape, InOrder
<1>6. pc' = [pc EXCEPT ![Raw(n)] = IF interceptor THEN "begin" ELSE @, ![Typed(n)] = "begin"]
  BY DEF Notify, Raw, Typed
<1>7. /\ pc' \in [Slots -> Place]
      /\ pc'[Raw(n)] \in {"idle", "begin"} /\ pc'[Typed(n)] = "begin"
      /\ \A s \in Slots \ {Raw(n), Typed(n)} : pc'[s] = pc[s]
  BY <1>0, <1>5, <1>6, SlotFacts DEF TypeOK, Place
<1>8. TypeOK'
  BY <1>0, <1>1, <1>4, <1>7 DEF TypeOK
<1>9. Shape'
  <2>1. Stations'
    BY <1>0, <1>7, SlotFacts DEF Shape, Stations
  <2>2. InOrder'
    <3> SUFFICES ASSUME NEW o \in Notices
                 PROVE  /\ notice'[o][1] = "none" => pc'[Raw(o)] = "idle" /\ pc'[Typed(o)] = "idle"
                        /\ pc'[Raw(o)] = "begin" => pc'[Typed(o)] = "begin"
                        /\ kind = "channel" => notice'[o][1] \in {"none", "full"}
                        /\ notice'[o][2] = "degraded" => kind = "channel"
                        /\ pc'[Typed(o)] = "await" => kind = "channel"
      BY <1>1 DEF InOrder
    <3>1. CASE o = n
      BY <1>3, <1>4, <1>7, <3>1
    <3>2. CASE o # n
      BY <1>0, <1>4, <1>7, <3>2, SlotFacts DEF Shape, InOrder
    <3>3. QED BY <3>1, <3>2
  <2>3. Announced'
    BY <1>0, <1>1, <1>7 DEF Shape, Announced
  <2>4. SweepsDialogs'
    BY <1>0, <1>1, <1>7, SlotFacts DEF Shape, SweepsDialogs
  <2>5. QED BY <1>8, <2>1, <2>2, <2>3, <2>4 DEF Shape
<1>10. Kept'
  <2>1. HandedOver => HandedOver'
    BY <1>1, <1>5, <1>7 DEF HandedOver
  <2>2. \A o \in Notices : pc[Typed(o)] \in {"fetch", "await"} => pc'[Typed(o)] = pc[Typed(o)]
    BY <1>5, <1>7, SlotFacts
  <2>3. pc'[Task] = pc[Task] /\ pc'[Worker] = pc[Worker]
    BY <1>7, SlotFacts
  <2>4. QED BY <1>0, <1>1, <2>1, <2>2, <2>3 DEF Kept
<1>11. Counted'
  <2>1. Pending' \subseteq Pending \cup {n} /\ n \notin Pending /\ Pending \in SUBSET Notices
    BY <1>5, <1>7, SlotFacts DEF Pending
  <2>2. Notified' = Notified \cup {n} /\ n \notin Notified /\ Notified \in SUBSET Notices
    BY <1>1, <1>3, <1>4 DEF Notified
  <2>3. /\ IsFiniteSet(Pending) /\ Cardinality(Pending) \in Nat
        /\ IsFiniteSet(Notified) /\ Cardinality(Notified) \in Nat
    BY <2>1, <2>2, Counts
  <2>4. /\ IsFiniteSet(Pending \cup {n})
        /\ Cardinality(Pending \cup {n}) = Cardinality(Pending) + 1
        /\ Cardinality(Notified \cup {n}) = Cardinality(Notified) + 1
    BY <2>1, <2>2, <2>3, FS_AddElement
  <2>5. Cardinality(Pending') <= Cardinality(Pending) + 1 /\ Cardinality(Pending') \in Nat
    BY <2>1, <2>4, FS_Subset, FS_CardinalityType
  <2>6. /\ Waiting' = Waiting /\ Stale' = Stale /\ Announcing' = Announcing
    BY <1>1, <1>7, SlotFacts DEF Waiting, Stale, Announcing, Unheard
  <2>7. PICK w \in {0, 1}, t \in {0, 1}, u \in {0, 1} :
          w = Waiting /\ t = Stale /\ u = Announcing
    BY DEF Waiting, Stale, Announcing
  <2>8. w = Waiting' /\ t = Stale' /\ u = Announcing'
    BY <2>6, <2>7
  <2>9. PICK p2 \in Nat : p2 = Cardinality(Pending')
    BY <2>5
  <2>10. Cardinality(handled) \in Nat /\ spent.faults \in Nat
    BY <1>0, Counts DEF TypeOK
  <2>11. kind # "dialog" /\ spent.lapses = 0 =>
           2 * (Cardinality(handled) + p2 + w) + t
             <= 2 * (Cardinality(Notified) + 1 + u) + spent.faults
    <3>1. kind # "dialog" /\ spent.lapses = 0 =>
            2 * (Cardinality(handled) + Cardinality(Pending) + w) + t
              <= 2 * (Cardinality(Notified) + u) + spent.faults
      BY <1>0, <2>7 DEF Counted
    <3>2. p2 <= Cardinality(Pending) + 1
      BY <2>5, <2>9
    <3>3. QED BY <2>3, <2>10, <3>1, <3>2
  <2>12. Cardinality(Notified') = Cardinality(Notified) + 1
    BY <2>2, <2>4
  <2>13. QED BY <1>1, <2>8, <2>9, <2>11, <2>12 DEF Counted
<1>12. QED BY <1>9, <1>10, <1>11 DEF IInv

(* A handler whose frame is empty, or was seen already, leaves the message *)
(* to others; the first to see content handles it.                         *)
LEMMA RawReceiveKeeps ==
  ASSUME IInv, NEW n \in Notices, RawReceive(n)
  PROVE  IInv'
<1>0. TypeOK /\ Shape /\ Kept /\ Counted
  BY DEF IInv, Shape
<1>1. /\ pc[Raw(n)] = "begin" /\ notice' = notice /\ known' = known /\ kind' = kind
      /\ mark' = IF mark.processed THEN mark
                 ELSE [mark EXCEPT !.processed = TRUE,
                                   !.unwrapped = @ \/ notice[n][1] = "full"]
  BY DEF RawReceive, Environment, Raw
<1>2. /\ mark' \in Marks /\ mark'.processed
      /\ mark.processed \/ notice[n][1] # "full" => mark'.unwrapped = mark.unwrapped
      /\ ~mark.processed /\ notice[n][1] = "full" => mark'.unwrapped
  BY <1>0, <1>1 DEF TypeOK, Marks
<1>3. Raw(n) \in Slots
  BY SlotFacts
<1>4. CASE ~mark.processed /\ notice[n][1] = "full"
  <2>1. Handle(Raw(n))
    BY <1>4 DEF RawReceive, Raw
  <2>2. Fits(Raw(n), "resolve")
    BY <1>1, <1>2, SlotFacts DEF Fits
  <2>3. QED BY <1>1, <1>2, <1>3, <1>4, <2>1, <2>2, HandleKeeps
<1>5. CASE ~(~mark.processed /\ notice[n][1] = "full")
  <2>1. Go(Raw(n), "idle") /\ UNCHANGED <<job, saved, handled, owed, excused, spent>>
    BY <1>5 DEF RawReceive, Raw
  <2>2. mark'.unwrapped = mark.unwrapped
    BY <1>2, <1>5
  <2>3. Fits(Raw(n), "idle")
    BY <1>1, <1>2, <2>2, SlotFacts DEF Fits
  <2>4. "idle" \in Place \ {"begin"} /\ "idle" \notin Waits
    BY DEF Place, Waits
  <2>5. /\ pc' \in [Slots -> Place]
        /\ \A t \in Slots \ {Raw(n)} : pc'[t] = pc[t]
    BY <1>0, <1>3, <2>1, <2>4, Moved
  <2>6. TypeOK'
    BY <1>0, <1>1, <1>2, <2>1, <2>5 DEF TypeOK, Marks
  <2>7. Waiting' = 1 => Waiting = 1
    BY <1>2, <2>1, <2>2, <2>5, SlotFacts DEF Waiting, Unheard
  <2>8. Stale' = Stale /\ spent.faults <= spent'.faults /\ spent'.lapses = spent.lapses
    BY <1>0, <2>1 DEF Stale, TypeOK
  <2>9. Kept'
    <3>1. HandedOver => HandedOver'
      BY <1>0, <1>1, <1>3, <2>1, <2>4, HandedStays
    <3>2. kind = "channel" => mark.processed
      BY <1>0, <1>1, <1>5 DEF Shape, InOrder
    <3>3. pc'[Task] = pc[Task] /\ pc'[Worker] = pc[Worker]
          /\ \A o \in Notices : pc'[Typed(o)] = pc[Typed(o)]
      BY <2>5, SlotFacts
    <3>4. QED BY <1>0, <1>1, <2>1, <2>2, <3>1, <3>2, <3>3 DEF Kept
  <2>10. QED BY <1>1, <1>3, <2>1, <2>2, <2>3, <2>4, <2>6, <2>7, <2>8, <2>9, MoveKeeps
<1>6. QED BY <1>4, <1>5

(* A typed handler drops what is announced, handles what it can read, or   *)
(* looks for the rest.                                                     *)
LEMMA TypedReceiveKeeps ==
  ASSUME IInv, NEW n \in Notices, TypedReceive(n)
  PROVE  IInv'
<1>0. TypeOK /\ Shape /\ Kept /\ Counted
  BY DEF IInv, Shape
<1>1. /\ pc[Typed(n)] = "begin" /\ pc[Raw(n)] # "begin"
      /\ notice' = notice /\ known' = known /\ kind' = kind
      /\ mark' = [mark EXCEPT !.unwrapped = FALSE]
  BY DEF TypedReceive, Environment, Typed, Raw
<1>2. mark' \in Marks /\ ~mark'.unwrapped /\ mark'.processed = mark.processed
  BY <1>0, <1>1 DEF TypeOK, Marks
<1>3. Typed(n) \in Slots /\ "begin" \in Waits /\ "fetch" \in Waits /\ "idle" \notin Waits
      /\ {"idle", "fetch", "resolve"} \subseteq Place \ {"begin"}
  BY SlotFacts DEF Waits, Place
<1>4. \A there \in {"idle", "fetch", "resolve"} : Fits(Typed(n), there)
  BY <1>1, <1>2, SlotFacts DEF Fits
<1>5. mark'.unwrapped = FALSE /\ mark.unwrapped \in BOOLEAN
  BY <1>0, <1>1 DEF TypeOK
<1>6. CASE mark.unwrapped
  <2>1. Go(Typed(n), "idle") /\ UNCHANGED <<job, saved, handled, owed, excused, spent>>
    BY <1>6 DEF TypedReceive, Typed
  <2>2. /\ pc' \in [Slots -> Place]
        /\ \A t \in Slots \ {Typed(n)} : pc'[t] = pc[t]
    BY <1>0, <1>3, <2>1, Moved
  <2>3. TypeOK'
    BY <1>0, <1>1, <1>2, <2>1, <2>2 DEF TypeOK, Marks
  <2>4. Waiting' = 1 => Waiting = 1
    BY <1>2, <1>6, <2>1, <2>2, SlotFacts DEF Waiting, Unheard
  <2>5. Stale' = Stale /\ spent.faults <= spent'.faults /\ spent'.lapses = spent.lapses
    BY <1>0, <2>1 DEF Stale, TypeOK
  <2>6. Kept'
    BY <1>0, <1>1, <1>3, <1>6, <2>1, HandedStays, KeptIfHanded DEF Kept
  <2>7. QED BY <1>1, <1>3, <1>4, <2>1, <2>3, <2>4, <2>5, <2>6, MoveKeeps
<1>7. CASE ~mark.unwrapped /\ notice[n][2] = "full"
  <2>1. Handle(Typed(n))
    BY <1>7 DEF TypedReceive, Typed
  <2>2. mark'.unwrapped = mark.unwrapped
    BY <1>5, <1>7, Zenon
  <2>3. QED BY <1>1, <1>2, <1>3, <1>4, <2>1, <2>2, HandleKeeps
<1>8. CASE ~mark.unwrapped /\ notice[n][2] # "full"
  <2>1. /\ Go(Typed(n), "fetch") /\ owed' = TRUE
        /\ UNCHANGED <<job, saved, handled, excused, spent>>
    BY <1>8 DEF TypedReceive, Typed
  <2>2. /\ pc' \in [Slots -> Place] /\ pc'[Typed(n)] = "fetch"
        /\ \A t \in Slots \ {Typed(n)} : pc'[t] = pc[t]
    BY <1>0, <1>3, <2>1, Moved
  <2>3. TypeOK'
    BY <1>0, <1>1, <1>2, <2>1, <2>2 DEF TypeOK, Marks
  <2>4. mark'.unwrapped = mark.unwrapped
    BY <1>5, <1>8, Zenon
  <2>5. Waiting' = 1 => Waiting = 1
    BY <1>2, <2>1, <2>2, <2>4, SlotFacts DEF Waiting, Unheard
  <2>6. Stale' = Stale /\ spent.faults <= spent'.faults /\ spent'.lapses = spent.lapses
    BY <1>0, <2>1 DEF Stale, TypeOK
  <2>7. Kept'
    <3>1. HandedOver => HandedOver'
      BY <1>0, <1>1, <1>3, <2>1, HandedStays
    <3>2. pc'[Task] = pc[Task] /\ pc'[Worker] = pc[Worker]
      BY <2>2, SlotFacts
    <3>3. QED BY <1>0, <1>1, <1>2, <2>1, <2>2, <3>1, <3>2 DEF Kept
  <2>8. QED BY <1>1, <1>3, <1>4, <2>1, <2>3, <2>4, <2>5, <2>6, <2>7, MoveKeeps
<1>9. QED BY <1>6, <1>7, <1>8 DEF TypedReceive, Typed

(* The history or the cache has the message.                               *)
LEMMA FoundKeeps ==
  ASSUME IInv, NEW s \in Slots, Found(s)
  PROVE  IInv'
<1>0. TypeOK /\ Stations
  BY DEF IInv, Shape
<1>1. /\ pc[s] = "fetch" /\ s # Sweep /\ notice' = notice /\ known' = known /\ kind' = kind
      /\ Replay(s, [mark EXCEPT !.cached = TRUE])
  BY DEF Found, Environment
<1>2. /\ [mark EXCEPT !.cached = TRUE] \in Marks
      /\ [mark EXCEPT !.cached = TRUE].unwrapped = mark.unwrapped
      /\ [mark EXCEPT !.cached = TRUE].processed = mark.processed
  BY <1>0 DEF TypeOK, Marks
<1>3. s \in Live => \E n \in Notices : s = Typed(n)
  BY <1>0, <1>1, SlotFacts DEF Stations
<1>4. "fetch" \in Waits /\ "fetch" \in Place \ {"resolve", "begin"}
  BY DEF Waits, Place
<1>5. QED BY <1>1, <1>2, <1>3, <1>4, ReplayKeeps

(* The task finds it in the cache.                                         *)
LEMMA TaskFindsKeeps ==
  ASSUME IInv, TaskFinds
  PROVE  IInv'
<1>1. /\ pc[Task] = "poll" /\ notice' = notice /\ known' = known /\ kind' = kind
      /\ Replay(Task, mark)
  BY DEF TaskFinds, Environment
<1>2. mark \in Marks
  BY DEF IInv, Shape, TypeOK, Marks
<1>3. "poll" \in Place \ {"resolve", "begin"}
  BY DEF Place
<1>4. QED BY <1>1, <1>2, <1>3, SlotFacts, ReplayKeeps

(* A degraded message is read from the cache, or delivered as it is.       *)
LEMMA DegradedEndsKeeps ==
  ASSUME IInv, NEW n \in Notices, DegradedEnds(n)
  PROVE  IInv'
<1>0. TypeOK /\ Shape
  BY DEF IInv, Shape
<1>1. pc[Typed(n)] = "await" /\ notice' = notice /\ known' = known /\ kind' = kind
  BY DEF DegradedEnds, Environment, Typed
<1>2. mark \in Marks /\ Typed(n) \in Slots
  BY <1>0, SlotFacts DEF TypeOK, Marks
<1>3. "await" \in Place \ {"resolve", "begin"} /\ "await" \in Waits
  BY DEF Place, Waits
<1>4. CASE Replay(Typed(n), mark)
  BY <1>1, <1>2, <1>3, <1>4, SlotFacts, ReplayKeeps
<1>5. CASE Handle(Typed(n)) /\ mark' = mark
  <2>1. Fits(Typed(n), "resolve")
    BY <1>0, <1>1, <1>5, SlotFacts DEF Fits, Shape, Announced
  <2>2. QED BY <1>1, <1>2, <1>3, <1>5, <2>1, HandleKeeps
<1>6. QED BY <1>4, <1>5 DEF DegradedEnds, Typed

(* Where nothing was found for an empty message, the task begins to wait   *)
(* and a job is saved, unless the task waits already.                      *)
LEMMA WaitForCacheKeeps ==
  ASSUME IInv, NEW n \in Notices, WaitForCache(n)
  PROVE  IInv'
<1>0. TypeOK /\ Shape /\ Kept /\ Counted
  BY DEF IInv, Shape
<1>1. /\ pc[Typed(n)] = "fetch" /\ notice' = notice /\ mark' = mark /\ known' = known
      /\ handled' = handled /\ owed' = owed /\ kind' = kind
  BY DEF WaitForCache, Environment, Typed
<1>2. Typed(n) \in Slots /\ "fetch" \in Waits /\ "idle" \in Place \ {"begin"} /\ "idle" \notin Waits
  BY SlotFacts DEF Waits, Place
<1>3. CASE pc[Task] # "idle"
  <2>1. Go(Typed(n), "idle") /\ UNCHANGED <<job, saved, excused, spent>>
    BY <1>3 DEF WaitForCache, Typed
  <2>2. /\ pc' \in [Slots -> Place] /\ pc'[Typed(n)] = "idle"
        /\ \A t \in Slots \ {Typed(n)} : pc'[t] = pc[t]
    BY <1>0, <1>2, <2>1, Moved
  <2>3. TypeOK'
    BY <1>0, <1>1, <2>1, <2>2 DEF TypeOK
  <2>4. Fits(Typed(n), "idle")
    BY <1>0, <1>1, SlotFacts DEF Fits, Shape, Announced
  <2>5. Stale' = Stale /\ spent.faults <= spent'.faults /\ spent'.lapses = spent.lapses
    BY <1>0, <2>1 DEF Stale, TypeOK
  <2>6. Kept'
    <3>1. CASE HandedOver
      BY <1>0, <1>1, <1>2, <2>1, <3>1, HandedStays, KeptIfHanded
    <3>2. CASE ~HandedOver
      <4>1. pc[Task] = "poll"
        BY <1>0, <1>3, <3>2, SlotFacts DEF Shape, Stations, HandedOver
      <4>2. job # "none"
        BY <1>0, <3>2, <4>1 DEF Kept
      <4>3. QED BY <1>0, <1>1, <2>1, <3>2, <4>2 DEF Kept
    <3>3. QED BY <3>1, <3>2
  <2>7. QED BY <1>1, <1>2, <2>1, <2>3, <2>4, <2>5, <2>6, MoveKeeps
<1>4. CASE pc[Task] = "idle"
  <2>1. /\ pc' = [pc EXCEPT ![Typed(n)] = "idle", ![Task] = "poll"]
        /\ Save(IF job = "none" THEN "wait" ELSE job)
    BY <1>4 DEF WaitForCache, Typed
  <2>2. /\ pc' \in [Slots -> Place] /\ pc'[Typed(n)] = "idle" /\ pc'[Task] = "poll"
        /\ \A t \in Slots \ {Typed(n), Task} : pc'[t] = pc[t]
    BY <1>0, <2>1, SlotFacts DEF TypeOK, Place
  <2>3. /\ job' \in {"wait", "due"} /\ saved' \in BOOLEAN /\ excused' \in BOOLEAN
        /\ excused => excused'
        /\ spent' \in [lapses : Nat, misses : Nat, faults : Nat]
        /\ spent'.lapses = spent.lapses
        /\ spent' = spent \/ spent'.faults = spent.faults + 1
    <3>1. job' \in {"wait", "due"}
      BY <1>0, <2>1 DEF Save, TypeOK
    <3>2. CASE saved' = (job' # "none") /\ UNCHANGED <<spent, excused>>
      BY <1>0, <3>1, <3>2 DEF TypeOK
    <3>3. CASE Spend("faults") /\ saved' = saved /\ \E b \in BOOLEAN : excused' = (excused \/ b)
      BY <1>0, <3>1, <3>3, SpendType DEF TypeOK
    <3>4. QED
      <4>1. job' = IF job = "none" THEN "wait" ELSE job
        BY <2>1 DEF Save
      <4>2. QED BY <2>1, <3>2, <3>3, <4>1 DEF Save
  <2>4. TypeOK'
    BY <1>0, <1>1, <2>2, <2>3 DEF TypeOK
  <2>5. Shape'
    <3>1. Stations'
      BY <1>0, <2>2, SlotFacts DEF Shape, Stations
    <3>2. InOrder'
      <4> SUFFICES ASSUME NEW o \in Notices
                   PROVE  /\ notice[o][1] = "none" => pc'[Raw(o)] = "idle" /\ pc'[Typed(o)] = "idle"
                          /\ pc'[Raw(o)] = "begin" => pc'[Typed(o)] = "begin"
                          /\ pc'[Typed(o)] = "await" => kind = "channel"
        BY <1>0, <1>1 DEF InOrder, Shape
      <4>1. pc'[Raw(o)] = pc[Raw(o)]
        BY <2>2, SlotFacts
      <4>2. CASE o = n
        BY <1>0, <1>1, <2>2, <4>1, <4>2 DEF Shape, InOrder
      <4>3. CASE o # n
        BY <1>0, <2>2, <4>1, <4>3, SlotFacts DEF Shape, InOrder
      <4>4. QED BY <4>2, <4>3
    <3>3. Announced'
      BY <1>0, <1>1, <2>2, SlotFacts DEF Shape, Announced
    <3>4. SweepsDialogs'
      BY <1>0, <1>1, <2>2, SlotFacts DEF Shape, SweepsDialogs
    <3>5. QED BY <2>4, <3>1, <3>2, <3>3, <3>4 DEF Shape
  <2>6. Kept'
    <3>1. HandedOver => HandedOver'
      BY <1>1, <1>4, <2>2, <2>3 DEF HandedOver
    <3>2. job' # "none"
      BY <2>3
    <3>3. QED BY <1>0, <1>1, <3>1, <3>2 DEF Kept
  <2>7. Counted'
    <3>1. Pending' = Pending \ {n} /\ n \in Pending /\ Pending \in SUBSET Notices
      BY <1>1, <2>2, SlotFacts DEF Pending
    <3>2. Cardinality(Pending \ {n}) = Cardinality(Pending) - 1 /\ Cardinality(Pending) \in Nat
      BY <3>1, Counts, FS_RemoveElement
    <3>3. PICK p2 \in Int : p2 = Cardinality(Pending') /\ p2 + 1 = Cardinality(Pending)
      BY <3>1, <3>2
    <3>4. Cardinality(Pending') + 1 <= Cardinality(Pending)
      BY <3>2, <3>3
    <3>5. PICK w \in {0, 1}, w2 \in {0, 1}, u \in {0, 1} :
            w = Waiting /\ w2 = Waiting' /\ u = Announcing /\ u = Announcing'
      BY <1>1 DEF Waiting, Announcing
    <3>6. u + w2 <= 1 + u + w
      OBVIOUS
    <3>7. Announcing + Waiting' <= 1 + Announcing' + Waiting
      BY <3>5, <3>6
    <3>8. spent.faults + Stale' <= spent'.faults + Stale
      <4>1. PICK t \in {0, 1}, f2 \in Nat : t = Stale /\ f2 = spent'.faults
        BY <2>3 DEF Stale
      <4>2. Stale' = 0
        BY <2>3 DEF Stale
      <4>3. spent.faults + 0 <= f2 + t
        BY <1>0, <2>3, <4>1 DEF TypeOK
      <4>4. QED BY <4>1, <4>2, <4>3
    <3>9. QED BY <1>0, <1>1, <2>3, <2>4, <3>4, <3>7, <3>8, CountQuiet
  <2>8. QED BY <2>5, <2>6, <2>7 DEF IInv
<1>5. QED BY <1>3, <1>4

(* A request of the history may fail.                                      *)
LEMMA NotFoundType ==
  ASSUME TypeOK, NEW s \in Slots, NotFound(s)
  PROVE  /\ pc[s] = "fetch"
         /\ spent' \in [lapses : Nat, misses : Nat, faults : Nat]
         /\ spent'.lapses = spent.lapses /\ spent'.faults = spent.faults
<1>1. CASE Spend("misses")
  BY <1>1, SpendType DEF NotFound
<1>2. CASE UNCHANGED spent
  BY <1>2 DEF NotFound, TypeOK
<1>3. QED BY <1>1, <1>2 DEF NotFound

(* A degraded message waits for the raw handler ...                        *)
LEMMA WaitForRawKeeps ==
  ASSUME IInv, NEW n \in Notices, WaitForRaw(n)
  PROVE  IInv'
<1>0. TypeOK /\ Shape /\ Kept
  BY DEF IInv, Shape
<1>1. Typed(n) \in Slots /\ {"fetch", "await"} \subseteq Waits /\ "await" \in Place \ {"begin"}
  BY SlotFacts DEF Waits, Place
<1>2. /\ notice' = notice /\ mark' = mark /\ known' = known /\ job' = job /\ saved' = saved
      /\ handled' = handled /\ owed' = owed /\ kind' = kind /\ excused' = excused
      /\ Go(Typed(n), "await") /\ NotFound(Typed(n)) /\ notice[n][2] = "degraded"
  BY DEF WaitForRaw, Environment, Typed
<1>3. /\ pc[Typed(n)] = "fetch"
      /\ spent' \in [lapses : Nat, misses : Nat, faults : Nat]
      /\ spent'.lapses = spent.lapses /\ spent'.faults = spent.faults
  BY <1>0, <1>1, <1>2, NotFoundType
<1>4. /\ pc' \in [Slots -> Place] /\ pc'[Typed(n)] = "await"
      /\ \A t \in Slots \ {Typed(n)} : pc'[t] = pc[t]
  BY <1>0, <1>1, <1>2, Moved
<1>5. TypeOK'
  BY <1>0, <1>2, <1>3, <1>4 DEF TypeOK
<1>6. Fits(Typed(n), "await")
  BY <1>0, <1>2, <1>3, SlotFacts DEF Fits, Shape, Announced, InOrder
<1>7. Waiting' = Waiting /\ Stale' = Stale /\ spent.faults <= spent'.faults
  BY <1>0, <1>2, <1>3, <1>4, SlotFacts DEF Waiting, Unheard, Stale, TypeOK
<1>8. Kept'
  <2>1. HandedOver => HandedOver'
    BY <1>0, <1>1, <1>2, <1>3, HandedStays
  <2>2. pc'[Task] = pc[Task] /\ pc'[Worker] = pc[Worker]
    BY <1>4, SlotFacts
  <2>3. QED BY <1>0, <1>2, <1>4, <2>1, <2>2 DEF Kept
<1>9. QED BY <1>1, <1>2, <1>3, <1>5, <1>6, <1>7, <1>8, MoveKeeps

(* ... which in a channel has handed it over when it has seen it.          *)
LEMMA RawArrivedKeeps ==
  ASSUME IInv, NEW n \in Notices, RawArrived(n)
  PROVE  IInv'
<1>0. TypeOK /\ Shape /\ Kept
  BY DEF IInv, Shape
<1>1. /\ Typed(n) \in Slots /\ "await" \in Waits /\ "idle" \notin Waits
      /\ "idle" \in Place \ {"begin"}
  BY SlotFacts DEF Waits, Place
<1>2. /\ notice' = notice /\ mark' = mark /\ known' = known /\ job' = job /\ saved' = saved
      /\ handled' = handled /\ owed' = owed /\ kind' = kind /\ excused' = excused
      /\ spent' = spent /\ Go(Typed(n), "idle")
      /\ pc[Typed(n)] = "await" /\ mark.processed
  BY DEF RawArrived, Environment, Typed
<1>3. /\ pc' \in [Slots -> Place]
      /\ \A t \in Slots \ {Typed(n)} : pc'[t] = pc[t]
  BY <1>0, <1>1, <1>2, Moved
<1>4. TypeOK'
  BY <1>0, <1>2, <1>3 DEF TypeOK
<1>5. Fits(Typed(n), "idle")
  BY <1>0, <1>2, SlotFacts DEF Fits, Shape, Announced
<1>6. Waiting' = Waiting /\ Stale' = Stale /\ spent.faults <= spent'.faults
  BY <1>0, <1>2, <1>3, SlotFacts DEF Waiting, Unheard, Stale, TypeOK
<1>7. HandedOver
  BY <1>0, <1>2 DEF Kept, Shape, InOrder
<1>8. Kept'
  BY <1>0, <1>1, <1>2, <1>7, HandedStays, KeptIfHanded
<1>9. QED BY <1>1, <1>2, <1>4, <1>5, <1>6, <1>8, MoveKeeps

(* The task gives up: the job stays, unless whoever handled it took it.    *)
LEMMA TaskGivesUpKeeps ==
  ASSUME IInv, TaskGivesUp
  PROVE  IInv'
<1>0. TypeOK /\ Shape /\ Kept
  BY DEF IInv, Shape
<1>1. Task \in Slots /\ "idle" \notin Waits /\ "idle" \in Place \ {"begin"}
  BY SlotFacts DEF Waits, Place
<1>2. /\ notice' = notice /\ mark' = mark /\ known' = known /\ job' = job /\ saved' = saved
      /\ handled' = handled /\ owed' = owed /\ kind' = kind /\ excused' = excused
      /\ spent' = spent /\ Go(Task, "idle") /\ pc[Task] = "poll"
  BY DEF TaskGivesUp, Environment
<1>3. /\ pc' \in [Slots -> Place] /\ pc'[Task] = "idle"
      /\ \A t \in Slots \ {Task} : pc'[t] = pc[t]
  BY <1>0, <1>1, <1>2, Moved
<1>4. TypeOK'
  BY <1>0, <1>2, <1>3 DEF TypeOK
<1>5. Fits(Task, "idle")
  BY <1>0, <1>2, SlotFacts DEF Fits, Shape, Announced
<1>6. (Waiting' = 1 => Waiting = 1) /\ Stale' = Stale /\ spent.faults <= spent'.faults
  BY <1>0, <1>2, <1>3, SlotFacts DEF Waiting, Unheard, Stale, TypeOK
<1>7. Kept'
  <2>1. CASE HandedOver
    BY <1>0, <1>1, <1>2, <2>1, HandedStays, KeptIfHanded
  <2>2. CASE ~HandedOver
    <3>1. job # "none"
      BY <1>0, <1>2, <2>2 DEF Kept
    <3>2. QED BY <1>0, <1>2, <2>2, <3>1 DEF Kept
  <2>3. QED BY <2>1, <2>2
<1>8. QED BY <1>1, <1>2, <1>4, <1>5, <1>6, <1>7, SlotFacts, MoveKeeps

(* A job comes due; the history shows more; marks and cache lapse.         *)
LEMMA WaitingKeeps ==
  ASSUME IInv, ComesDue \/ Show \/ Lapse
  PROVE  IInv'
<1>0. TypeOK /\ Shape /\ Kept
  BY DEF IInv, Shape
<1>1. CASE ComesDue
  <2>1. TypeOK'
    BY <1>0, <1>1 DEF ComesDue, Environment, TypeOK
  <2>2. QED BY <1>1, <2>1, StillKeeps DEF ComesDue, Environment
<1>2. CASE Show
  <2>1. TypeOK'
    BY <1>0, <1>2 DEF Show, Environment, TypeOK
  <2>2. QED BY <1>2, <2>1, StillKeeps DEF Show, Environment
<1>3. CASE Lapse
  <2>1. /\ mark' = Nothing /\ Spend("lapses")
        /\ UNCHANGED <<notice, pc, job, saved, known, handled, owed, excused, kind>>
    BY <1>3 DEF Lapse, Environment
  <2>2. /\ spent' \in [lapses : Nat, misses : Nat, faults : Nat]
        /\ spent'.lapses = spent.lapses + 1
    BY <1>0, <2>1, SpendType
  <2>3. mark' \in Marks /\ ~mark'.unwrapped /\ ~mark'.processed
    BY <2>1 DEF Nothing, Marks
  <2>4. TypeOK'
    BY <1>0, <2>1, <2>2, <2>3 DEF TypeOK, Marks
  <2>5. Shape'
    BY <1>0, <2>1, <2>3, <2>4, StillShape
  <2>6. Kept'
    BY <1>0, <2>1, <2>3 DEF Kept, HandedOver
  <2>7. spent'.lapses # 0
    <3>1. spent.lapses + 1 # 0
      BY <1>0 DEF TypeOK
    <3>2. QED BY <2>2, <3>1
  <2>8. QED BY <2>5, <2>6, <2>7 DEF IInv, Counted
<1>4. QED BY <1>1, <1>2, <1>3

(* The worker takes a job that is due ...                                  *)
LEMMA WorkerPickKeeps ==
  ASSUME IInv, WorkerPick
  PROVE  IInv'
<1>0. TypeOK /\ Shape /\ Kept
  BY DEF IInv, Shape
<1>1. Worker \in Slots /\ "fetch" \in Place \ {"begin"}
  BY SlotFacts DEF Place
<1>2. /\ notice' = notice /\ mark' = mark /\ known' = known /\ job' = job /\ saved' = TRUE
      /\ handled' = handled /\ owed' = owed /\ kind' = kind /\ excused' = excused
      /\ spent' = spent /\ Go(Worker, "fetch") /\ pc[Worker] = "idle" /\ job = "due"
  BY DEF WorkerPick, Environment
<1>3. pc' \in [Slots -> Place]
  BY <1>0, <1>1, <1>2, Moved
<1>4. TypeOK'
  BY <1>0, <1>2, <1>3 DEF TypeOK
<1>5. Fits(Worker, "fetch")
  BY <1>0, <1>2, SlotFacts DEF Fits, Shape, Announced
<1>6. Waiting = 1 /\ Stale' = 0 /\ spent.faults <= spent'.faults
  BY <1>0, <1>2 DEF Waiting, Stale, TypeOK
<1>7. Kept'
  <2>1. HandedOver => HandedOver'
    BY <1>0, <1>1, <1>2, HandedStays
  <2>2. QED BY <1>0, <1>2, <2>1 DEF Kept
<1>8. QED BY <1>1, <1>2, <1>4, <1>5, <1>6, <1>7, SlotFacts, MoveKeeps

(* ... and puts it off when the history does not have the message.         *)
LEMMA WorkerReschedulesKeeps ==
  ASSUME IInv, WorkerReschedules
  PROVE  IInv'
<1>0. TypeOK /\ Shape /\ Kept
  BY DEF IInv, Shape
<1>1. Worker \in Slots /\ "idle" \in Place \ {"begin"}
  BY SlotFacts DEF Place
<1>2. /\ notice' = notice /\ mark' = mark /\ known' = known
      /\ job' = (IF job = "none" THEN "none" ELSE "wait") /\ saved' = (job # "none")
      /\ handled' = handled /\ owed' = owed /\ kind' = kind /\ excused' = excused
      /\ Go(Worker, "idle") /\ NotFound(Worker)
  BY DEF WorkerReschedules, Environment
<1>3. /\ pc[Worker] = "fetch"
      /\ spent' \in [lapses : Nat, misses : Nat, faults : Nat]
      /\ spent'.lapses = spent.lapses /\ spent'.faults = spent.faults
  BY <1>0, <1>1, <1>2, NotFoundType
<1>4. /\ pc' \in [Slots -> Place] /\ pc'[Worker] = "idle"
      /\ \A t \in Slots \ {Worker} : pc'[t] = pc[t]
  BY <1>0, <1>1, <1>2, Moved
<1>5. TypeOK'
  BY <1>0, <1>2, <1>3, <1>4 DEF TypeOK
<1>6. Fits(Worker, "idle")
  BY <1>0, <1>2, <1>3, SlotFacts DEF Fits, Shape, Announced
<1>7. (Waiting' = 1 => Waiting = 1) /\ Stale' = 0 /\ spent.faults <= spent'.faults
  <2>1. Waiting' = 1 => Waiting = 1
    <3>1. pc'[Task] = pc[Task] /\ pc'[Worker] # "fetch"
      BY <1>4, SlotFacts
    <3>2. job = "none" <=> job' = "none"
      BY <1>2
    <3>3. QED BY <1>2, <3>1, <3>2 DEF Waiting, Unheard
  <2>2. Stale' = 0
    BY <1>2 DEF Stale
  <2>3. spent.faults <= spent'.faults
    <3>1. spent.faults <= spent.faults
      BY <1>0 DEF TypeOK
    <3>2. QED BY <1>3, <3>1
  <2>4. QED BY <2>1, <2>2, <2>3
<1>8. Kept'
  <2>1. CASE HandedOver
    BY <1>0, <1>1, <1>2, <1>3, <2>1, HandedStays, KeptIfHanded
  <2>2. CASE ~HandedOver
    <3>1. job # "none"
      BY <1>0, <1>3, <2>2 DEF Kept
    <3>2. job' # "none"
      BY <1>2, <3>1
    <3>3. QED BY <1>0, <1>2, <2>2, <3>2 DEF Kept
  <2>3. QED BY <2>1, <2>2
<1>9. QED BY <1>1, <1>2, <1>3, <1>5, <1>6, <1>7, <1>8, SlotFacts, MoveKeeps

(* The sweep moves without the message until it replays it.                *)
LEMMA SweepKeeps ==
  ASSUME IInv, SweepStart \/ SweepFetch \/ SweepCheck
  PROVE  IInv'
<1>0. TypeOK /\ Shape /\ Kept
  BY DEF IInv, Shape
<1>1. Sweep \in Slots /\ {"idle", "fetch", "check"} \subseteq Place \ {"begin", "resolve"}
  BY SlotFacts DEF Place
<1>2. /\ notice' = notice /\ known' = known /\ kind' = kind
      /\ pc[Sweep] \in {"idle", "fetch", "check"} /\ kind = "dialog"
  BY <1>0 DEF SweepStart, SweepFetch, SweepCheck, Environment, Shape, SweepsDialogs
<1>3. ASSUME NEW there \in {"idle", "fetch", "check"}, Go(Sweep, there),
             mark' \in Marks, mark'.unwrapped = mark.unwrapped, mark'.processed = mark.processed,
             UNCHANGED <<job, saved, handled, owed, excused>>,
             spent' \in [lapses : Nat, misses : Nat, faults : Nat],
             spent'.lapses = spent.lapses, spent'.faults = spent.faults
      PROVE  IInv'
  <2>1. /\ pc' \in [Slots -> Place]
        /\ \A t \in Slots \ {Sweep} : pc'[t] = pc[t]
    BY <1>0, <1>1, <1>3, Moved
  <2>2. TypeOK'
    BY <1>0, <1>2, <1>3, <2>1 DEF TypeOK, Marks
  <2>3. Fits(Sweep, there)
    BY <1>0, <1>2, <1>3, SlotFacts DEF Fits, Shape, Announced
  <2>4. Waiting' = Waiting /\ Stale' = Stale /\ spent.faults <= spent'.faults
    BY <1>0, <1>3, <2>1, SlotFacts DEF Waiting, Unheard, Stale, TypeOK
  <2>5. Kept'
    <3>1. HandedOver => HandedOver'
      BY <1>0, <1>1, <1>2, <1>3, HandedStays
    <3>2. /\ pc'[Task] = pc[Task] /\ pc'[Worker] = pc[Worker]
          /\ \A o \in Notices : pc'[Typed(o)] = pc[Typed(o)]
      BY <2>1, SlotFacts
    <3>3. QED BY <1>0, <1>2, <1>3, <3>1, <3>2 DEF Kept
  <2>6. QED BY <1>1, <1>2, <1>3, <2>2, <2>3, <2>4, <2>5, SlotFacts, MoveKeeps
<1>4. CASE SweepStart
  <2>1. mark' = mark /\ spent' = spent /\ mark \in Marks
    BY <1>0, <1>4 DEF SweepStart, TypeOK, Marks
  <2>2. QED BY <1>0, <1>3, <1>4, <2>1 DEF SweepStart, TypeOK
<1>5. CASE SweepFetch
  <2>1. CASE mark' = [mark EXCEPT !.cached = TRUE] /\ Go(Sweep, "check") /\ UNCHANGED spent
    <3>1. /\ mark' \in Marks /\ mark'.unwrapped = mark.unwrapped
          /\ mark'.processed = mark.processed
      BY <1>0, <2>1 DEF TypeOK, Marks
    <3>2. QED BY <1>0, <1>3, <1>5, <2>1, <3>1 DEF SweepFetch, TypeOK
  <2>2. CASE Go(Sweep, "idle") /\ UNCHANGED mark /\ (Spend("misses") \/ UNCHANGED spent)
    <3>1. /\ spent' \in [lapses : Nat, misses : Nat, faults : Nat]
          /\ spent'.lapses = spent.lapses /\ spent'.faults = spent.faults
      BY <1>0, <2>2, SpendType DEF TypeOK
    <3>2. mark' = mark /\ mark \in Marks
      BY <1>0, <2>2 DEF TypeOK, Marks
    <3>3. QED BY <1>3, <1>5, <2>2, <3>1, <3>2 DEF SweepFetch
  <2>3. QED BY <1>5, <2>1, <2>2 DEF SweepFetch
<1>6. CASE SweepCheck
  <2>1. mark \in Marks /\ pc[Sweep] = "check"
    BY <1>0, <1>6 DEF TypeOK, Marks, SweepCheck
  <2>2. CASE Replay(Sweep, mark)
    BY <1>1, <1>2, <2>1, <2>2, SlotFacts, ReplayKeeps
  <2>3. CASE Go(Sweep, "idle") /\ UNCHANGED <<mark, job, saved, handled, owed, excused, spent>>
    BY <1>0, <1>3, <2>1, <2>3 DEF TypeOK
  <2>4. QED BY <1>6, <2>2, <2>3 DEF SweepCheck
<1>7. QED BY <1>4, <1>5, <1>6

(* The bridge has it, or a fault took it.                                  *)
LEMMA EndsKeeps ==
  ASSUME IInv, NEW s \in Slots, Dispatch(s) \/ HandlerRaises(s)
  PROVE  IInv'
<1>0. TypeOK /\ Shape /\ Kept
  BY DEF IInv, Shape
<1>1. "idle" \in Place \ {"begin"} /\ "idle" \notin Waits
  BY DEF Place, Waits
<1>2. /\ notice' = notice /\ mark' = mark /\ job' = job /\ saved' = saved
      /\ handled' = handled /\ owed' = owed /\ kind' = kind
      /\ Go(s, "idle") /\ pc[s] = "resolve"
  BY DEF Dispatch, HandlerRaises, Environment
<1>3. /\ known' \in BOOLEAN /\ excused' \in BOOLEAN /\ (known' \/ excused')
      /\ spent' \in [lapses : Nat, misses : Nat, faults : Nat]
      /\ spent'.lapses = spent.lapses /\ spent.faults <= spent'.faults
  <2>1. CASE Dispatch(s)
    BY <1>0, <2>1 DEF Dispatch, TypeOK
  <2>2. CASE HandlerRaises(s)
    <3>1. Spend("faults") /\ excused' = TRUE /\ known' = known
      BY <2>2 DEF HandlerRaises
    <3>2. /\ spent' \in [lapses : Nat, misses : Nat, faults : Nat]
          /\ spent'.lapses = spent.lapses /\ spent'.faults = spent.faults + 1
      BY <1>0, <3>1, SpendType
    <3>3. spent.faults <= spent.faults + 1
      BY <1>0 DEF TypeOK
    <3>4. spent.faults <= spent'.faults
      BY <3>2, <3>3
    <3>5. QED BY <1>0, <3>1, <3>2, <3>4 DEF TypeOK
  <2>3. QED BY <2>1, <2>2
<1>4. /\ pc' \in [Slots -> Place] /\ pc'[s] = "idle"
      /\ \A t \in Slots \ {s} : pc'[t] = pc[t]
  BY <1>0, <1>1, <1>2, Moved
<1>5. TypeOK'
  BY <1>0, <1>2, <1>3, <1>4 DEF TypeOK
<1>6. Fits(s, "idle")
  <2>1. s = Sweep => kind = "dialog"
    BY <1>0, <1>2 DEF Shape, SweepsDialogs
  <2>2. mark'.unwrapped => mark'.processed /\ mark.unwrapped
    BY <1>0, <1>2 DEF Shape, Announced
  <2>3. QED BY <1>2, <2>1, <2>2 DEF Fits
<1>7. (Waiting' = 1 => Waiting = 1) /\ Stale' = Stale
  <2>1. /\ pc'[Task] = "poll" => pc[Task] = "poll"
        /\ pc'[Worker] = "fetch" => pc[Worker] = "fetch"
    BY <1>4, SlotFacts
  <2>2. QED BY <1>2, <2>1 DEF Waiting, Unheard, Stale
<1>8. Kept'
  BY <1>3, KeptIfHanded DEF HandedOver
<1>9. QED BY <1>1, <1>2, <1>3, <1>5, <1>6, <1>7, <1>8, MoveKeeps

(* A crash leaves the saved job: it pays for one that is over, and takes   *)
(* every typed handler, with it the one of what was announced.             *)
LEMMA CrashKeeps ==
  ASSUME IInv, Crash
  PROVE  IInv'
<1>0. TypeOK /\ Shape /\ Kept /\ Counted
  BY DEF IInv, Shape
<1>1. /\ pc' = [s \in Slots |-> "idle"] /\ mark' = Nothing
      /\ job' = (IF saved THEN "wait" ELSE "none") /\ excused' = (excused \/ ~saved)
      /\ notice' = notice /\ saved' = saved /\ known' = known /\ handled' = handled
      /\ owed' = owed /\ kind' = kind /\ Spend("faults")
  BY DEF Crash, Environment
<1>2. /\ spent' \in [lapses : Nat, misses : Nat, faults : Nat]
      /\ spent'.lapses = spent.lapses /\ spent'.faults = spent.faults + 1
  BY <1>0, <1>1, SpendType
<1>3. mark' \in Marks /\ ~mark'.unwrapped /\ ~mark'.processed
  BY <1>1 DEF Nothing, Marks
<1>4. pc' \in [Slots -> Place] /\ \A s \in Slots : pc'[s] = "idle"
  BY <1>1 DEF Place
<1>5. TypeOK'
  BY <1>0, <1>1, <1>2, <1>3, <1>4 DEF TypeOK, Marks
<1>6. Shape'
  <2>1. Stations' /\ SweepsDialogs' /\ Announced'
    BY <1>3, <1>4, SlotFacts DEF Stations, SweepsDialogs, Announced
  <2>2. InOrder'
    BY <1>0, <1>1, <1>4, SlotFacts DEF Shape, InOrder
  <2>3. QED BY <1>5, <2>1, <2>2 DEF Shape
<1>7. Kept'
  <2>1. CASE saved
    <3>1. job' # "none"
      BY <1>1, <2>1
    <3>2. QED BY <1>3, <3>1 DEF Kept
  <2>2. CASE ~saved
    BY <1>1, <2>2, KeptIfHanded DEF HandedOver
  <2>3. QED BY <2>1, <2>2
<1>8. Counted'
  <2>1. Pending \in SUBSET Notices /\ Notified \in SUBSET Notices /\ Notified' = Notified
    BY <1>1 DEF Pending, Notified
  <2>2. /\ Cardinality(Pending) \in Nat /\ IsFiniteSet(Pending)
        /\ Cardinality(Notified) \in Nat /\ Cardinality(handled) \in Nat
        /\ spent.faults \in Nat
    BY <1>0, <2>1, Counts DEF TypeOK
  <2>3. Pending' = {}
    BY <1>4, SlotFacts DEF Pending
  <2>4. Cardinality(Pending') = 0
    BY <2>3, FS_EmptySet
  <2>5. PICK w \in {0, 1}, w2 \in {0, 1}, u \in {0, 1}, t \in {0, 1} :
          w = Waiting /\ w2 = Waiting' /\ u = Announcing /\ t = Stale
    BY DEF Waiting, Announcing, Stale
  <2>6. Announcing' = 0 /\ Stale' = 0
    BY <1>1, <1>3 DEF Announcing, Stale
  <2>7. u <= Cardinality(Pending)
    <3>1. CASE mark.unwrapped
      <4>1. PICK n \in Notices : pc[Typed(n)] = "begin"
        BY <1>0, <3>1 DEF Shape, Announced
      <4>2. Pending # {}
        BY <4>1 DEF Pending
      <4>3. Cardinality(Pending) # 0
        BY <2>2, <4>2, FS_EmptySet
      <4>4. QED BY <2>2, <4>3
    <3>2. CASE ~mark.unwrapped
      BY <2>2, <2>5, <3>2 DEF Announcing
    <3>3. QED BY <3>1, <3>2
  <2>8. w2 <= w + t
    <3>1. CASE saved
      <4>1. w = 1 \/ t = 1
        BY <2>5, <3>1 DEF Waiting, Stale
      <4>2. QED BY <4>1
    <3>2. CASE ~saved
      <4>1. w2 = 0
        BY <1>1, <1>4, <2>5, <3>2, SlotFacts DEF Waiting
      <4>2. QED BY <4>1
    <3>3. QED BY <3>1, <3>2
  <2>9. kind # "dialog" /\ spent.lapses = 0 =>
          2 * (Cardinality(handled) + 0 + w2) + 0
            <= 2 * (Cardinality(Notified) + 0) + (spent.faults + 1)
    <3>1. kind # "dialog" /\ spent.lapses = 0 =>
            2 * (Cardinality(handled) + Cardinality(Pending) + w) + t
              <= 2 * (Cardinality(Notified) + u) + spent.faults
      BY <1>0, <2>5 DEF Counted
    <3>2. QED BY <2>2, <2>7, <2>8, <3>1
  <2>10. QED BY <1>1, <1>2, <2>1, <2>4, <2>5, <2>6, <2>9 DEF Counted
<1>9. QED BY <1>6, <1>7, <1>8 DEF IInv

-----------------------------------------------------------------------------
(* The theorems                                                            *)

(* The inductive invariant holds initially ...                             *)
LEMMA InitIInv == Init => IInv
<1> SUFFICES ASSUME Init PROVE IInv
  OBVIOUS
<1>0. Notices \subseteq Nat
  BY EventsAssumption DEF Notices
<1>1. TypeOK
  BY DEF Init, TypeOK, Nothing, Place
<1>2. Stations /\ InOrder /\ Announced /\ SweepsDialogs
  BY SlotFacts DEF Init, Stations, InOrder, Announced, SweepsDialogs, Nothing
<1>3. Kept
  BY SlotFacts DEF Init, Kept, HandedOver, Nothing
<1>4. Counted
  <2>1. handled = {} /\ Pending = {} /\ Notified = {}
    BY SlotFacts DEF Init, Pending, Notified
  <2>2. Cardinality({}) = 0
    BY FS_EmptySet
  <2>3. Waiting = 0 /\ Stale = 0 /\ Announcing = 0 /\ spent.faults = 0
    BY SlotFacts DEF Init, Waiting, Stale, Announcing, Nothing
  <2>4. QED BY <2>1, <2>2, <2>3 DEF Counted
<1>5. QED BY <1>1, <1>2, <1>3, <1>4 DEF IInv, Shape

(* ... is kept by every step, one case per action ...                      *)
LEMMA NextIInv == IInv /\ [Next]_vars => IInv'
<1> SUFFICES ASSUME IInv, [Next]_vars PROVE IInv'
  OBVIOUS
<1>1. CASE UNCHANGED vars
  <2>1. TypeOK'
    BY <1>1 DEF IInv, Shape, TypeOK, vars
  <2>2. QED BY <1>1, <2>1, StillKeeps DEF vars
<1>2. CASE \E n \in Notices : Notify(n)
  BY <1>2, NotifyKeeps
<1>3. CASE Receive
  BY <1>3, RawReceiveKeeps, TypedReceiveKeeps DEF Receive
<1>4. CASE Look
  BY <1>4, FoundKeeps, WaitForCacheKeeps, WaitForRawKeeps, RawArrivedKeeps,
     DegradedEndsKeeps, TaskFindsKeeps, TaskGivesUpKeeps DEF Look
<1>5. CASE ComesDue \/ Show \/ Lapse
  BY <1>5, WaitingKeeps
<1>6. CASE WorkerPick \/ WorkerReschedules
  BY <1>6, WorkerPickKeeps, WorkerReschedulesKeeps
<1>7. CASE SweepStart \/ SweepFetch \/ SweepCheck
  BY <1>7, SweepKeeps
<1>8. CASE \E s \in Slots : Dispatch(s) \/ HandlerRaises(s)
  BY <1>8, EndsKeeps
<1>9. CASE Crash
  BY <1>9, CrashKeeps
<1>10. QED
  BY <1>1, <1>2, <1>3, <1>4, <1>5, <1>6, <1>7, <1>8, <1>9 DEF Next

(* ... and so holds in every reachable state.                              *)
LEMMA AlwaysIInv == Spec => []IInv
  BY InitIInv, NextIInv, PTL DEF Spec

(* What MAX has shown the bridge once is in someone's hands, has a job or  *)
(* is known, but for a fault, whichever of the handlers, the task, the     *)
(* worker and the sweep take it from each other.                           *)
THEOREM KeptTillKnown == Spec => []KeptUntilKnown
<1>1. IInv => KeptUntilKnown
  <2> SUFFICES ASSUME IInv, owed, ~known, ~excused, job = "none"
               PROVE  \E s \in Slots : pc[s] \in {"fetch", "await", "resolve"}
    BY DEF KeptUntilKnown
  <2>1. CASE \E n \in Notices : pc[Typed(n)] \in {"fetch", "await"}
    BY <2>1, SlotFacts
  <2>2. CASE HandedOver
    BY <2>2 DEF HandedOver
  <2>3. QED BY <2>1, <2>2 DEF IInv, Kept
<1>2. QED BY <1>1, AlwaysIInv, PTL

(* However many notifications and crashes there are, live handlers begin   *)
(* to handle a message as often as it was notified of, and half a time     *)
(* more for each fault.                                                    *)
THEOREM HandledAsNotified == Spec => []OnePerNotice
<1>1. IInv => OnePerNotice
  <2> SUFFICES ASSUME IInv, kind # "dialog", spent.lapses = 0
               PROVE  2 * Cardinality(handled) <= 2 * Cardinality(Notified) + spent.faults
    BY DEF OnePerNotice
  <2>1. Pending \in SUBSET Notices /\ Notified \in SUBSET Notices /\ handled \in SUBSET Live
    BY DEF Pending, Notified, IInv, Shape, TypeOK
  <2>2. /\ Cardinality(Pending) \in Nat /\ Cardinality(Notified) \in Nat
        /\ Cardinality(handled) \in Nat /\ spent.faults \in Nat
    BY <2>1, Counts DEF IInv, Shape, TypeOK
  <2>3. 2 * (Cardinality(handled) + Cardinality(Pending) + Waiting) + Stale
          <= 2 * (Cardinality(Notified) + Announcing) + spent.faults
    BY DEF IInv, Counted
  <2>4. PICK w \in {0, 1}, t \in {0, 1}, u \in {0, 1} :
          w = Waiting /\ t = Stale /\ u = Announcing
    BY DEF Waiting, Stale, Announcing
  <2>5. Announcing = 0 \/ (Announcing = 1 /\ Cardinality(Pending) # 0)
    <3>1. CASE mark.unwrapped
      <4>1. PICK n \in Notices : pc[Typed(n)] = "begin"
        BY <3>1 DEF IInv, Shape, Announced
      <4>2. Pending # {}
        BY <4>1 DEF Pending
      <4>3. Cardinality(Pending) # 0
        BY <2>1, <4>2, Counts, FS_EmptySet
      <4>4. QED BY <3>1, <4>3 DEF Announcing
    <3>2. CASE ~mark.unwrapped
      BY <3>2 DEF Announcing
    <3>3. QED BY <3>1, <3>2
  <2>6. 2 * (Cardinality(handled) + Cardinality(Pending) + w) + t
          <= 2 * (Cardinality(Notified) + u) + spent.faults
    BY <2>3, <2>4
  <2>7. u <= Cardinality(Pending)
    BY <2>2, <2>4, <2>5
  <2>8. QED BY <2>2, <2>6, <2>7
<1>2. QED BY <1>1, AlwaysIInv, PTL

=============================================================================
