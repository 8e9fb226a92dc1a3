--------------------------- MODULE MaxEgress_proofs ---------------------------
(***************************************************************************)
(* Theorems about MaxEgress, for every value of its constants: the types,  *)
(* that the route in use is the one a restart restores, that switches are   *)
(* a cooldown apart, and that failovers and returns are earned.            *)
(***************************************************************************)
EXTENDS MaxEgress, TLAPS

(* A cooldown that is still running makes up for the time since the last   *)
(* switch began, in memory and on disk: cleared or lost, it would let the  *)
(* next process switch early.                                              *)
Spaced ==
  /\ s.cooldown + seen.spaced >= Cooldown
  /\ disk.cooldown + seen.spaced >= Cooldown

IInv == TypeOK /\ RouteIsSaved /\ Spaced

(* A distance that grows stays in its range.                               *)
LEMMA OlderType ==
  ASSUME NEW n \in Nat \ {0}, NEW t \in Ago(n)
  PROVE  Older(t, n) \in Ago(n)
  BY EgressAssumption DEF Older, Ago, Lesser

(* Time keeps the types of the controller's dictionary.                    *)
LEMMA AgedType ==
  ASSUME NEW t \in State
  PROVE  /\ Aged(t) \in State
         /\ Aged(t).active = t.active
         /\ Aged(t).cooldown = IF t.cooldown > 0 THEN t.cooldown - 1 ELSE 0
<1>1. /\ Older(t.failed, FailoverAfter) \in Ago(FailoverAfter)
      /\ Older(t.healthy, Stable) \in Ago(Stable)
      /\ Older(t.stay, Residence) \in Ago(Residence)
      /\ Older(t.probed, Gap + 1) \in Ago(Gap + 1)
  <2>1. Gap + 1 \in Nat \ {0}
    BY EgressAssumption DEF Gap
  <2>2. QED
    BY <2>1, OlderType, EgressAssumption DEF State
<1>2. /\ (IF t.cooldown > 0 THEN t.cooldown - 1 ELSE 0) \in 0..Cooldown
      /\ Lesser(t.reminded + 1, ReminderEvery) \in 0..ReminderEvery
  BY EgressAssumption DEF State, Lesser
<1>3. QED
  BY <1>1, <1>2 DEF Aged, State

(* And those of the observations; the distance to the last switch grows by *)
(* one until it is a cooldown.                                             *)
LEMMA AgedSeenType ==
  ASSUME NEW t \in Seen
  PROVE  /\ AgedSeen(t) \in Seen
         /\ AgedSeen(t).spaced = Lesser(t.spaced + 1, Cooldown)
<1>1. /\ Older(t.bad, FailoverAfter) \in Ago(FailoverAfter)
      /\ Older(t.good, Stable) \in Ago(Stable)
      /\ Older(t.looked, Gap + 1) \in Ago(Gap + 1)
  <2>1. Gap + 1 \in Nat \ {0}
    BY EgressAssumption DEF Gap
  <2>2. QED
    BY <2>1, OlderType, EgressAssumption DEF Seen
<1>2. /\ Lesser(t.stayed + 1, Residence) \in 0..Residence
      /\ Lesser(t.spaced + 1, Cooldown) \in 0..Cooldown
  BY EgressAssumption DEF Seen, Lesser
<1>3. QED
  BY <1>1, <1>2 DEF AgedSeen, Seen

(* The distances a step may start anew.                                    *)
LEMMA Anew ==
  /\ 0 \in Ago(FailoverAfter) /\ 0 \in Ago(Stable) /\ 0 \in Ago(Residence)
  /\ None \in Ago(FailoverAfter) /\ None \in Ago(Stable)
  /\ None \in Ago(Residence)
  /\ 0 \in 0..Cooldown /\ Cooldown \in 0..Cooldown
  /\ 0 \in 0..ReminderEvery /\ 0 \in 0..2
  /\ 0 \in 0..Residence
  BY EgressAssumption DEF Ago

(* A look leaves the route and the cooldown alone, and so do its           *)
(* continuations.                                                          *)
LEMMA LookedType ==
  ASSUME s \in State
  PROVE  /\ Looked \in State
         /\ Looked.active = s.active /\ Looked.cooldown = s.cooldown
<1>1. Unproven(s) \in State /\ Unproven(s).active = s.active
      /\ Unproven(s).cooldown = s.cooldown
  <2>1. CASE Since(s.probed, Gap + 1)
    <3>2. Unproven(s) = [s EXCEPT !.failed = None, !.healthy = None,
                                  !.failures = 0]
      BY <2>1 DEF Unproven
    <3>3. QED
      BY <3>2, Anew DEF State
  <2>2. CASE ~Since(s.probed, Gap + 1)
    BY <2>2 DEF Unproven
  <2>3. QED
    BY <2>1, <2>2
<1>2. 0 \in Ago(Gap + 1)
  BY EgressAssumption DEF Ago, Gap
<1>3. QED
  BY <1>1, <1>2 DEF Looked, State

(* A look keeps the types of the observations and no switch begins.         *)
LEMMA SeenLooked ==
  ASSUME seen \in Seen, NEW b \in BOOLEAN, NEW g \in BOOLEAN, LookSeen(b, g)
  PROVE  seen' \in Seen /\ seen'.spaced = seen.spaced
<1>1. 0 \in Ago(FailoverAfter) /\ 0 \in Ago(Stable) /\ 0 \in Ago(Gap + 1)
  BY EgressAssumption DEF Ago, Gap
<1>2. None \in Ago(FailoverAfter) /\ None \in Ago(Stable)
  BY DEF Ago
<1>3. QED
  BY <1>1, <1>2 DEF LookSeen, Seen

(* What every step that is neither a switch nor time does to the           *)
(* invariant's variables.                                                  *)
Quiet ==
  /\ s' \in State /\ disk' \in State
  /\ s'.active = s.active
  /\ disk'.active \in {s.active, disk.active}
  /\ s'.cooldown \in {s.cooldown, Cooldown}
  /\ disk'.cooldown \in {s.cooldown, disk.cooldown, Cooldown}
  /\ seen' \in Seen /\ seen'.spaced = seen.spaced
  /\ route' = route
  /\ pc' \in PC /\ pc # "down"

(* Such a step keeps the route and the spacing.                             *)
LEMMA QuietKeeps ==
  ASSUME IInv, Quiet
  PROVE  RouteIsSaved' /\ Spaced'
<1>1. RouteIsSaved'
  BY DEF IInv, Quiet, RouteIsSaved
<1>2. Spaced'
  <2>1. /\ seen.spaced \in Nat /\ Cooldown \in Nat
        /\ s.cooldown \in Nat /\ disk.cooldown \in Nat
    BY EgressAssumption DEF IInv, TypeOK, Seen, State
  <2>2. Cooldown + seen.spaced >= Cooldown
    BY <2>1
  <2>3. QED
    BY <2>2 DEF IInv, Quiet, Spaced
<1>3. QED
  BY <1>1, <1>2

(* The parts of TypeOK that the steps of a tick leave alone or choose.     *)
Rest ==
  /\ ready' \in BOOLEAN /\ reauth' \in BOOLEAN /\ up' \in [Route -> BOOLEAN]
  /\ fresh' \in BOOLEAN /\ target' \in Route /\ overdue' \in BOOLEAN
  /\ crashes' \in 0..MaxCrashes /\ stalls' \in 0..MaxStalls

(* And, with the rest, the whole invariant.                                 *)
LEMMA QuietTypes ==
  ASSUME IInv, Quiet, Rest
  PROVE  IInv'
<1>1. TypeOK'
  BY DEF IInv, Quiet, Rest, TypeOK
<1>2. QED
  BY <1>1, QuietKeeps DEF IInv

(* A switch starts with a full cooldown, saved before the client closes.   *)
LEMMA BeginKeeps ==
  ASSUME IInv, pc \in {"failing", "weighing"},
         NEW to \in Route, NEW phase \in Phase, Begin(to, phase)
  PROVE  IInv'
<1>1. s \in State /\ seen \in Seen
  BY DEF IInv, TypeOK
<1>2. /\ s' \in State /\ disk' = s' /\ s'.active = s.active
      /\ s'.cooldown = Cooldown
  BY <1>1, Anew DEF Begin, Save, State
<1>3. seen' \in Seen /\ seen'.spaced = 0
  BY <1>1, Anew DEF Begin, Seen
<1>4. TypeOK'
  BY <1>2, <1>3 DEF IInv, TypeOK, Begin, budget, PC
<1>5. RouteIsSaved'
  BY <1>2 DEF IInv, RouteIsSaved, Begin
<1>6. Spaced'
  BY <1>2, <1>3, EgressAssumption DEF Spaced
<1>7. QED
  BY <1>4, <1>5, <1>6 DEF IInv

(* A step of a tick keeps the invariant.                                    *)
LEMMA TickKeeps ==
  ASSUME IInv, TickStep
  PROVE  IInv'
<1> USE DEF IInv
<1>0. s \in State /\ disk \in State /\ seen \in Seen
  BY DEF TypeOK
<1>l. /\ Looked \in State
      /\ Looked.active = s.active /\ Looked.cooldown = s.cooldown
  BY <1>0, LookedType
<1>1. CASE Recover
  <2>1. Quiet
    BY <1>0, <1>1, Anew DEF Recover, Save, Quiet, State, Phase, PC, TypeOK
  <2>2. Rest
    BY <1>1 DEF Recover, Rest, env, tick, budget, TypeOK
  <2>3. QED
    BY <2>1, <2>2, QuietTypes
<1>2. CASE LookAuthBlocked
  <2>1. seen' \in Seen /\ seen'.spaced = seen.spaced
    BY <1>0, <1>2, SeenLooked DEF LookAuthBlocked
  <2>2. pc # "down"
    BY <1>2 DEF LookAuthBlocked, CanLook
  <2>3. Quiet
    BY <1>l, <1>2, <2>1, <2>2, Anew
       DEF LookAuthBlocked, Save, Quiet, State, Phase, PC
  <2>4. Rest
    BY <1>2 DEF LookAuthBlocked, Rest, env, tick, budget, TypeOK
  <2>5. QED
    BY <2>3, <2>4, QuietTypes
<1>3. CASE LookPrimaryWell
  <2>1. seen' \in Seen /\ seen'.spaced = seen.spaced
    <3>1. up[Primary] \in BOOLEAN
      BY DEF TypeOK, Route
    <3>2. QED
      BY <1>0, <1>3, <3>1, SeenLooked DEF LookPrimaryWell
  <2>2. pc # "down"
    BY <1>3 DEF LookPrimaryWell, CanLook
  <2>3. /\ ForgetOutage(Looked) \in State
        /\ ForgetOutage(Looked).active = s.active
        /\ ForgetOutage(Looked).cooldown = s.cooldown
    BY <1>l, Anew DEF ForgetOutage, State, Phase
  <2>4. Quiet
    BY <1>l, <1>3, <2>1, <2>2, <2>3 DEF LookPrimaryWell, Save, Quiet, PC
  <2>5. Rest
    BY <1>3 DEF LookPrimaryWell, Rest, env, tick, budget, TypeOK
  <2>6. QED
    BY <2>4, <2>5, QuietTypes
<1>4. CASE LookPrimaryFailed
  <2>1. seen' \in Seen /\ seen'.spaced = seen.spaced
    BY <1>0, <1>4, SeenLooked DEF LookPrimaryFailed
  <2>2. pc # "down"
    BY <1>4 DEF LookPrimaryFailed, CanLook
  <2> DEFINE t == Failed(Looked)
  <2>3. /\ t \in State /\ t.active = s.active /\ t.cooldown = s.cooldown
    <3>1. Lesser(Looked.failures + 1, 2) \in 0..2
      BY <1>l DEF State, Lesser
    <3>2. QED
      BY <1>l, <3>1, Anew DEF Failed, State, Phase
  <2>4. /\ s' \in State /\ s'.active = s.active /\ s'.cooldown = s.cooldown
        /\ disk' = s' \/ disk' = disk
    <3>1. Announce(t)
      BY <1>4 DEF LookPrimaryFailed
    <3>2. [t EXCEPT !.announced = TRUE] \in State
      BY <2>3 DEF State
    <3> HIDE DEF t
    <3>3. QED
      BY <2>3, <3>1, <3>2 DEF Announce, Save, Keep, State
  <2>5. Quiet
    BY <1>0, <1>4, <2>1, <2>2, <2>4
       DEF LookPrimaryFailed, Quiet, PC, RouteIsSaved
  <2>6. Rest
    BY <1>4 DEF LookPrimaryFailed, Rest, env, tick, budget, TypeOK
  <2>7. QED
    BY <2>5, <2>6, QuietTypes
<1>5. CASE LookFallback
  <2>1. seen' \in Seen /\ seen'.spaced = seen.spaced
    <3>1. up[Primary] \in BOOLEAN
      BY DEF TypeOK, Route
    <3>2. QED
      BY <1>0, <1>5, <3>1, SeenLooked DEF LookFallback
  <2>2. pc # "down"
    BY <1>5 DEF LookFallback, CanLook
  <2> DEFINE t == [Looked EXCEPT !.phase = "fallback"]
  <2>3. t \in State /\ t.active = s.active /\ t.cooldown = s.cooldown
    BY <1>l DEF State, Phase
  <2>4. /\ [t EXCEPT !.healthy = 0] \in State
        /\ [t EXCEPT !.healthy = None] \in State
        /\ [t EXCEPT !.healthy = 0].active = s.active
        /\ [t EXCEPT !.healthy = None].active = s.active
        /\ [t EXCEPT !.healthy = 0].cooldown = s.cooldown
        /\ [t EXCEPT !.healthy = None].cooldown = s.cooldown
    BY <2>3, Anew DEF State
  <2>5. /\ s' \in State /\ s'.active = s.active /\ s'.cooldown = s.cooldown
        /\ disk' = s' \/ disk' = disk
        /\ pc' \in PC
    <3>1. IF ~up[Primary]
          THEN Keep([t EXCEPT !.healthy = None]) /\ pc' = "last"
          ELSE Well(t) /\ pc' = "weighing"
      BY <1>5 DEF LookFallback
    <3> HIDE DEF t
    <3>2. QED
      BY <2>3, <2>4, <3>1 DEF Well, Save, Keep, PC
  <2>6. Quiet
    BY <1>0, <1>5, <2>1, <2>2, <2>5 DEF LookFallback, Quiet
  <2>7. Rest
    <3>1. overdue' \in BOOLEAN
      BY <1>5 DEF LookFallback
    <3>2. QED
      BY <1>5, <3>1 DEF LookFallback, Rest, env, budget, TypeOK
  <2>8. QED
    BY <2>6, <2>7, QuietTypes
<1>6. CASE RecoveryReported
  <2>1. Quiet
    BY <1>0, <1>6, Anew
       DEF RecoveryReported, ForgetOutage, Save, Quiet, State, Phase, PC
  <2>2. Rest
    BY <1>6 DEF RecoveryReported, Rest, env, tick, budget, TypeOK
  <2>3. QED
    BY <2>1, <2>2, QuietTypes
<1>7. CASE FailOver
  BY <1>7, BeginKeeps DEF FailOver, Route, Phase
<1>8. CASE NoRoute \/ KeepWaiting
  <2>1. Quiet
    BY <1>0, <1>8, Anew DEF NoRoute, KeepWaiting, Save, Quiet, State, PC
  <2>2. Rest
    BY <1>8 DEF NoRoute, KeepWaiting, Rest, env, tick, budget, TypeOK
  <2>3. QED
    BY <2>1, <2>2, QuietTypes
<1>9. CASE Return
  BY <1>9, BeginKeeps DEF Return, Route, Phase
<1>10. CASE StayOnFallback \/ Remind \/ NoReminder
  <2>1. Quiet
    BY <1>0, <1>10, Anew
       DEF StayOnFallback, Remind, NoReminder, Save, Keep, Quiet, State, PC
  <2>2. Rest
    BY <1>10 DEF StayOnFallback, Remind, NoReminder, Rest, env, tick, budget,
                 TypeOK
  <2>3. QED
    BY <2>1, <2>2, QuietTypes
<1>11. QED
  BY <1>1, <1>2, <1>3, <1>4, <1>5, <1>6, <1>7, <1>8, <1>9, <1>10 DEF TickStep

(* A step of a switch keeps the invariant: whenever the adapter changes    *)
(* its route, the controller has saved it before anything else happens.    *)
LEMMA SwitchKeeps ==
  ASSUME IInv, SwitchStep \/ NotClosed
  PROVE  IInv'
<1> USE DEF IInv
<1>0. s \in State /\ disk \in State /\ seen \in Seen
  BY DEF TypeOK
<1>p. Previous \in Route
  BY DEF Previous, Route
<1>1. ASSUME NEW r \in Route, pc # "down",
             Save([s EXCEPT !.active = r]), route' = r,
             seen' = [seen EXCEPT !.stayed = 0],
             pc' \in PC, UNCHANGED <<env, fresh, tick, budget>>
      PROVE  IInv'
  <2>1. /\ s' \in State /\ disk' = s' /\ s'.active = r
        /\ s'.cooldown = s.cooldown
    BY <1>0, <1>1 DEF Save, State
  <2>2. seen' \in Seen /\ seen'.spaced = seen.spaced
    BY <1>0, <1>1, Anew DEF Seen
  <2>3. TypeOK'
    BY <1>1, <2>1, <2>2 DEF TypeOK, env, tick, budget
  <2>4. RouteIsSaved'
    BY <1>1, <2>1 DEF RouteIsSaved
  <2>5. Spaced'
    BY <2>1, <2>2 DEF Spaced
  <2>6. QED
    BY <2>3, <2>4, <2>5
<1>2. CASE Closed
  BY <1>1, <1>2 DEF Closed, PC, TypeOK
<1>3. CASE Reverted
  BY <1>1, <1>3, <1>p DEF Reverted, PC
<1>4. CASE ConnectedFallback \/ ConnectedPrimary
  <2>1. Quiet
    <3>1. CASE ConnectedFallback
      BY <1>0, <3>1, Anew
         DEF ConnectedFallback, AfterSwitch, Save, Quiet, State, Phase, PC
    <3>2. CASE ConnectedPrimary
      BY <1>0, <3>2, Anew
         DEF ConnectedPrimary, AfterSwitch, Save, Quiet, State, Phase, PC
    <3>3. QED
      BY <1>4, <3>1, <3>2
  <2>2. Rest
    BY <1>4 DEF ConnectedFallback, ConnectedPrimary, Rest, env, tick, budget,
                TypeOK
  <2>3. QED
    BY <2>1, <2>2, QuietTypes
<1>5. CASE NotConnected
  <2>1. Quiet
    BY <1>0, <1>5 DEF NotConnected, Save, Quiet, State, Phase, PC
  <2>2. Rest
    BY <1>5 DEF NotConnected, Rest, tick, budget, TypeOK
  <2>3. QED
    BY <2>1, <2>2, QuietTypes
<1>6. CASE RolledBack
  <2>1. Quiet
    BY <1>0, <1>6, Anew
       DEF RolledBack, AfterSwitch, Save, Quiet, State, Phase, PC
  <2>2. Rest
    BY <1>6 DEF RolledBack, Rest, env, tick, budget, TypeOK
  <2>3. QED
    BY <2>1, <2>2, QuietTypes
<1>7. CASE NotClosed
  <2>1. Quiet
    BY <1>0, <1>7 DEF NotClosed, Save, Quiet, PC
  <2>2. Rest
    BY <1>7 DEF NotClosed, Rest, env, tick, budget, TypeOK
  <2>3. QED
    BY <2>1, <2>2, QuietTypes
<1>8. QED
  BY <1>2, <1>3, <1>4, <1>5, <1>6, <1>7 DEF SwitchStep

(* Time wears the cooldown down as fast as it puts the last switch behind. *)
LEMMA SecondKeeps ==
  ASSUME IInv, Second
  PROVE  IInv'
<1>0. s \in State /\ disk \in State /\ seen \in Seen
  BY DEF IInv, TypeOK
<1>1. /\ s' \in State /\ s'.active = s.active
      /\ s'.cooldown = IF s.cooldown > 0 THEN s.cooldown - 1 ELSE 0
  BY <1>0, AgedType DEF Second
<1>2. /\ disk' \in State /\ disk'.active = disk.active
      /\ disk'.cooldown = IF disk.cooldown > 0 THEN disk.cooldown - 1 ELSE 0
  BY <1>0, AgedType DEF Second
<1>3. seen' \in Seen /\ seen'.spaced = Lesser(seen.spaced + 1, Cooldown)
  BY <1>0, AgedSeenType DEF Second
<1>4. TypeOK'
  <2>1. stalls' \in 0..MaxStalls
    <3>1. CASE pc = "idle" /\ Due
      BY <3>1, EgressAssumption DEF Second, IInv, TypeOK
    <3>2. CASE ~(pc = "idle" /\ Due)
      BY <3>2 DEF Second, IInv, TypeOK
    <3>3. QED
      BY <3>1, <3>2
  <2>2. QED
    BY <1>1, <1>2, <1>3, <2>1 DEF Second, env, tick, IInv, TypeOK
<1>5. RouteIsSaved'
  BY <1>1, <1>2 DEF Second, IInv, RouteIsSaved
<1>6. Spaced'
  <2>1. /\ seen.spaced \in Nat /\ Cooldown \in Nat
        /\ s.cooldown \in Nat /\ disk.cooldown \in Nat
    BY <1>0, EgressAssumption DEF Seen, State
  <2>2. QED
    BY <1>1, <1>2, <1>3, <2>1 DEF IInv, Spaced, Lesser
<1>7. QED
  BY <1>4, <1>5, <1>6 DEF IInv

(* A crash loses what was not saved, and a start finds the saved route and *)
(* the saved cooldown.                                                     *)
LEMMA ProcessKeeps ==
  ASSUME IInv, Crash \/ Start
  PROVE  IInv'
<1>0. s \in State /\ disk \in State /\ seen \in Seen
  BY DEF IInv, TypeOK
<1>1. CASE Crash
  <2>0. seen' \in Seen /\ seen'.spaced = seen.spaced
    <3>1. seen' = [seen EXCEPT !.torn = @ \/ pc \in {"recovered", "looking"}]
      BY <1>1 DEF Crash
    <3>2. (seen.torn \/ pc \in {"recovered", "looking"}) \in BOOLEAN
      OBVIOUS
    <3>3. QED
      BY <1>0, <3>1, <3>2 DEF Seen
  <2>1. TypeOK'
    <3>1. crashes' \in 0..MaxCrashes
      BY <1>1, EgressAssumption DEF Crash, IInv, TypeOK
    <3>2. UNCHANGED <<s, disk, route, reauth, up, fresh, target, overdue, stalls>>
      BY <1>1 DEF Crash, tick
    <3>3. pc' \in PC /\ ready' \in BOOLEAN
      BY <1>1 DEF Crash, PC
    <3>4. QED
      BY <2>0, <3>1, <3>2, <3>3 DEF IInv, TypeOK
  <2>2. RouteIsSaved' /\ Spaced'
    BY <1>1, <2>0 DEF Crash, IInv, RouteIsSaved, Spaced
  <2>3. QED
    BY <2>1, <2>2 DEF IInv
<1>2. CASE Start
  <2>1. /\ s' \in State /\ s'.active = disk.active
        /\ s'.cooldown = disk.cooldown
    BY <1>0, <1>2, Anew DEF Start, State
  <2>2. seen' \in Seen /\ seen'.spaced = seen.spaced
    BY <1>0, <1>2, Anew DEF Start, Seen
  <2>3. disk.active \in Route
    BY <1>0 DEF State
  <2>4. TypeOK'
    BY <1>2, <2>1, <2>2, <2>3 DEF Start, tick, budget, IInv, TypeOK, PC
  <2>5. RouteIsSaved' /\ Spaced'
    BY <1>2, <2>1, <2>2 DEF Start, IInv, RouteIsSaved, Spaced
  <2>6. QED
    BY <2>4, <2>5 DEF IInv
<1>3. QED
  BY <1>1, <1>2

(* The network and MAX change neither the route nor the cooldown.          *)
LEMMA WorldKeeps ==
  ASSUME IInv, (\E r \in Route : ProbeChanges(r)) \/ ReadyChanges
                 \/ ReauthChanges \/ UNCHANGED vars
  PROVE  IInv'
<1>1. CASE \E r \in Route : ProbeChanges(r)
  <2>1. PICK r \in Route : ProbeChanges(r)
    BY <1>1
  <2>2. up' \in [Route -> BOOLEAN]
    BY <2>1 DEF ProbeChanges, IInv, TypeOK
  <2>3. QED
    BY <2>1, <2>2
       DEF ProbeChanges, tick, budget, IInv, TypeOK, RouteIsSaved, Spaced
<1>2. CASE ReadyChanges
  <2>1. ready' \in BOOLEAN
    BY <1>2 DEF ReadyChanges
  <2>2. QED
    BY <1>2, <2>1
       DEF ReadyChanges, tick, budget, IInv, TypeOK, RouteIsSaved, Spaced
<1>3. CASE ReauthChanges
  <2>1. ready' \in BOOLEAN /\ reauth' \in BOOLEAN
    BY <1>3 DEF ReauthChanges
  <2>2. QED
    BY <1>3, <2>1
       DEF ReauthChanges, tick, budget, IInv, TypeOK, RouteIsSaved, Spaced
<1>4. CASE UNCHANGED vars
  BY <1>4 DEF vars, IInv, TypeOK, RouteIsSaved, Spaced
<1>5. QED
  BY <1>1, <1>2, <1>3, <1>4

(* The first state satisfies the invariant.                                *)
LEMMA InitHolds == Init => IInv
<1> SUFFICES ASSUME Init PROVE IInv
  OBVIOUS
<1>1. NewState \in State
  <2>1. None \in Ago(Gap + 1)
    BY DEF Ago
  <2>2. ReminderEvery \in 0..ReminderEvery
    BY EgressAssumption
  <2>3. QED
    BY <2>1, <2>2, Anew DEF NewState, State, Route, Phase
<1>2. seen \in Seen
  <2>1. None \in Ago(Gap + 1)
    BY DEF Ago
  <2>2. Residence \in 0..Residence
    BY EgressAssumption
  <2>3. QED
    BY <2>1, <2>2, Anew DEF Init, Seen
<1>3. TypeOK
  <2>1. 0 \in 0..MaxCrashes /\ 0 \in 0..MaxStalls
    BY EgressAssumption
  <2>2. disk = s
    BY DEF Init
  <2>3. /\ s \in State /\ pc \in PC /\ route \in Route /\ target \in Route
        /\ crashes \in 0..MaxCrashes /\ stalls \in 0..MaxStalls
        /\ fresh \in BOOLEAN /\ overdue \in BOOLEAN
    BY <1>1, <2>1 DEF Init, PC, Route
  <2>4. ready \in BOOLEAN /\ reauth \in BOOLEAN /\ up \in [Route -> BOOLEAN]
    BY DEF Init
  <2>5. QED
    BY <1>2, <2>2, <2>3, <2>4 DEF TypeOK
<1>4. RouteIsSaved
  BY DEF Init, RouteIsSaved, NewState
<1>5. Spaced
  BY EgressAssumption DEF Init, Spaced, NewState
<1>6. QED
  BY <1>3, <1>4, <1>5 DEF IInv

(* Every step keeps it.                                                    *)
LEMMA NextKeeps == IInv /\ [Next]_vars => IInv'
<1> SUFFICES ASSUME IInv, [Next]_vars PROVE IInv'
  OBVIOUS
<1>1. QED
  BY TickKeeps, SwitchKeeps, SecondKeeps, ProcessKeeps, WorldKeeps DEF Next

(* Every reachable state satisfies the invariant.                          *)
THEOREM Invariance == Spec => []IInv
<1>1. QED
  BY InitHolds, NextKeeps, PTL DEF Spec

(* The dictionary, its file and the controller's variables keep their      *)
(* types.                                                                  *)
THEOREM EgressTypes == Spec => []TypeOK
<1>1. IInv => TypeOK
  BY DEF IInv
<1>2. QED
  BY <1>1, Invariance, PTL

(* The adapter's route is the one the controller believes in and the one a *)
(* restart restores (max_egress.py:129-135, 154-159), at every await.      *)
THEOREM RouteSurvives == Spec => []RouteIsSaved
<1>1. IInv => RouteIsSaved
  BY DEF IInv
<1>2. QED
  BY <1>1, Invariance, PTL

(* Two switches begin at least a cooldown apart, whatever crashes, lost    *)
(* connections and rollbacks lie between them (max_egress.py:126, 164, 198,*)
(* 231, 245).                                                              *)
THEOREM SwitchesApart == Spec => SwitchesAreSpaced
<1>1. IInv /\ [Next]_vars
        => [pc # "closing" /\ pc' = "closing" => seen.spaced >= Cooldown]_vars
  <2> SUFFICES ASSUME IInv, Next, pc # "closing", pc' = "closing"
               PROVE  seen.spaced >= Cooldown
    BY DEF vars
  <2>1. CASE FailOver \/ Return
    <3>1. s.cooldown = 0
      BY <2>1 DEF FailOver, Return, MayFailOver, MayReturn
    <3>2. seen.spaced \in Nat /\ Cooldown \in Nat
      BY EgressAssumption DEF IInv, TypeOK, Seen
    <3>3. QED
      BY <3>1, <3>2 DEF IInv, Spaced
  <2>2. CASE TickStep /\ ~FailOver /\ ~Return
    BY <2>2 DEF TickStep, Recover, LookAuthBlocked, LookPrimaryWell,
                LookPrimaryFailed, LookFallback, RecoveryReported, NoRoute,
                KeepWaiting, StayOnFallback, Remind, NoReminder
  <2>3. CASE SwitchStep \/ NotClosed
    BY <2>3 DEF SwitchStep, NotClosed, Closed, ConnectedFallback,
                ConnectedPrimary, NotConnected, Reverted, RolledBack,
                AfterSwitch
  <2>4. CASE ~TickStep /\ ~SwitchStep /\ ~NotClosed
    BY <2>4 DEF Next, Second, Crash, Start, ProbeChanges, ReadyChanges,
                ReauthChanges
  <2>5. QED
    BY <2>1, <2>2, <2>3, <2>4
<1>2. QED
  BY <1>1, Invariance, PTL DEF Spec, SwitchesAreSpaced

-----------------------------------------------------------------------------
(* Failovers and returns are earned.                                        *)

Switching == {"closing", "connecting", "reverting", "reconnecting"}

(* The route a new process would restore is the one in use, also while the *)
(* process is down.                                                        *)
RouteKept == route = s.active /\ s.active = disk.active

(* The phases of a switch are seen only while one is under way, and after  *)
(* a restart that interrupted one.                                         *)
PhaseFits ==
  /\ pc \in Switching => s.phase \in Moving
  /\ s.phase \in Moving
       => pc \in Switching \cup {"down"} \/ (pc = "idle" /\ fresh)
  /\ disk.phase \in Moving => s.phase \in Moving

(* Which route the controller believes in at each await.                   *)
RouteFits ==
  /\ pc \in {"closing", "reconnecting"} => s.active = Previous
  /\ pc \in {"connecting", "reverting"} => s.active = target
  /\ pc \in {"failing", "recovered"} => s.active = Primary
  /\ pc = "failing" => s.probed = 0
  /\ pc = "weighing" => s.active = Fallback

(* A look that is late for the observer is late for the controller, also   *)
(* for the one that a restart would make of what was saved.                *)
LooksFitOf(t) ==
  IF t.probed = None THEN t.failed = None /\ t.healthy = None
  ELSE seen.looked # None /\ t.probed >= seen.looked
LooksFit == LooksFitOf(s) /\ LooksFitOf(disk)

(* The recovery that is being proved has been seen, and on the fallback.   *)
HealthyFits ==
  /\ s.healthy # None => seen.good # None /\ seen.good >= s.healthy
  /\ s.healthy # None /\ pc # "down"
       => IF pc \in Switching THEN target = Primary ELSE s.active = Fallback

(* Time on the fallback: fallback_since is not set anew by a rollback or a *)
(* restart, but the cooldown is.                                           *)
StayFits(t) ==
  t.active = Fallback /\ t.phase \notin Moving
    => \/ t.stay # None /\ seen.stayed >= t.stay
       \/ t.cooldown + seen.stayed >= Residence

Resided == Residence <= Cooldown => StayFits(s) /\ StayFits(disk)

(* The outage that is being timed has been seen, or the cooldown outlasts  *)
(* what is missing of it, or the next look will forget it: failed_since    *)
(* outlives a return that ended in a restart.                              *)
OutageFitsOf(t) ==
  t.active = Primary /\ t.failed # None /\ t.phase \notin Moving
  /\ ~Since(t.probed, Gap + 1)
    => /\ seen.bad # None
       /\ \/ seen.bad >= t.failed
          \/ t.cooldown + seen.bad >= FailoverAfter

OutageFits ==
  /\ pc \notin {"looking", "recovered"} => OutageFitsOf(s) /\ OutageFitsOf(disk)
  /\ pc \in Switching /\ target = Fallback => Since(seen.bad, FailoverAfter)

Endured == FailoverAfter <= Cooldown /\ ~seen.torn => OutageFits

RecoveredHot ==
  pc = "looking" => s.cooldown = Cooldown /\ disk.cooldown = Cooldown

(* A return under way was earned when it began.                            *)
Earned == Residence <= Cooldown => ReturnIsEarned

Control == RouteKept /\ PhaseFits /\ RouteFits /\ RecoveredHot
Clocks == LooksFit /\ HealthyFits /\ Resided /\ Endured /\ Earned
EInv == IInv /\ Control /\ Clocks

(* The numbers behind the types.                                           *)
LEMMA Numbers ==
  ASSUME IInv
  PROVE  /\ s \in State /\ disk \in State /\ seen \in Seen
         /\ Cooldown \in Nat \ {0} /\ Residence \in Nat \ {0}
         /\ FailoverAfter \in Nat \ {0} /\ Stable \in Nat \ {0}
         /\ Gap + 1 \in Nat \ {0} /\ None \notin Nat
         /\ s.cooldown \in Nat /\ disk.cooldown \in Nat
         /\ seen.stayed \in 0..Residence
         /\ s.failed = None \/ s.failed \in 0..FailoverAfter
         /\ disk.failed = None \/ disk.failed \in 0..FailoverAfter
         /\ seen.bad = None \/ seen.bad \in 0..FailoverAfter
         /\ s.healthy = None \/ s.healthy \in 0..Stable
         /\ seen.good = None \/ seen.good \in 0..Stable
         /\ s.stay = None \/ s.stay \in 0..Residence
         /\ disk.stay = None \/ disk.stay \in 0..Residence
         /\ s.probed = None \/ s.probed \in 0..(Gap + 1)
         /\ disk.probed = None \/ disk.probed \in 0..(Gap + 1)
         /\ seen.looked = None \/ seen.looked \in 0..(Gap + 1)
<1>1. s \in State /\ disk \in State /\ seen \in Seen
  BY DEF IInv, TypeOK
<1>2. Gap + 1 \in Nat \ {0}
  BY EgressAssumption DEF Gap
<1>3. QED
  BY <1>1, <1>2, EgressAssumption DEF State, Seen, Ago

(* What a look keeps of the dictionary, unless it comes too late.          *)
LEMMA LookedFields ==
  ASSUME s \in State
  PROVE  /\ Looked.probed = 0
         /\ Looked.phase = s.phase /\ Looked.stay = s.stay
         /\ Looked.failed = IF Since(s.probed, Gap + 1) THEN None ELSE s.failed
         /\ Looked.healthy = IF Since(s.probed, Gap + 1) THEN None ELSE s.healthy
  BY DEF Looked, Unproven, State

(* What the observer makes of a look.                                      *)
LEMMA SeenFields ==
  ASSUME seen \in Seen, NEW b \in BOOLEAN, NEW g \in BOOLEAN, LookSeen(b, g)
  PROVE  /\ seen'.looked = 0 /\ seen'.stayed = seen.stayed
         /\ seen'.torn = seen.torn
         /\ seen'.bad = IF ~b THEN None
                        ELSE IF seen.bad = None \/ Since(seen.looked, Gap + 1)
                             THEN 0 ELSE seen.bad
         /\ seen'.good = IF ~g THEN None
                         ELSE IF seen.good = None \/ Since(seen.looked, Gap + 1)
                              THEN 0 ELSE seen.good
  BY DEF LookSeen, Seen

(* A look, whatever it finds, keeps the clocks of the controller within    *)
(* what has been seen.                                                     *)
LEMMA LookKeeps ==
  ASSUME EInv, CanLook,
         NEW b \in BOOLEAN, NEW g \in BOOLEAN, LookSeen(b, g),
         s' \in State,
         s'.active = s.active, s'.cooldown = s.cooldown, s'.stay = s.stay,
         s'.probed = 0, s'.phase \notin Moving,
         disk' = s' \/ (disk' = disk /\ (b \/ s.active = Fallback)),
         route' = route,
         pc' \in {"idle", "recovered", "failing", "weighing", "last"},
         pc' \in {"failing", "recovered"} => s.active = Primary,
         pc' = "weighing" => s.active = Fallback,
         s'.healthy # None
           => /\ s.active = Fallback /\ g
              /\ s'.healthy = IF Looked.healthy = None THEN 0
                                                       ELSE Looked.healthy,
         s'.failed # None /\ s.active = Primary /\ pc' # "recovered"
           => b /\ s'.failed = IF Looked.failed = None THEN 0 ELSE Looked.failed
  PROVE  Control' /\ Clocks'
<1> USE DEF EInv
<1>n. /\ s \in State /\ disk \in State /\ seen \in Seen
      /\ pc \in {"idle", "looking"} /\ s.phase \notin Moving
  BY Numbers DEF CanLook, Control, PhaseFits, Switching
<1>a. /\ Primary # Fallback /\ disk.active = s.active /\ s' \in State
      /\ Cooldown \in Nat /\ FailoverAfter \in Nat /\ None \notin Nat
      /\ disk'.cooldown \in {disk.cooldown, s.cooldown}
  BY Numbers, EgressAssumption DEF Control, RouteKept
<1>f. /\ Looked.failed = IF Since(s.probed, Gap + 1) THEN None ELSE s.failed
      /\ Looked.healthy = IF Since(s.probed, Gap + 1) THEN None ELSE s.healthy
  BY <1>n, LookedFields
<1>g. /\ seen'.looked = 0 /\ seen'.stayed = seen.stayed
      /\ seen'.torn = seen.torn
      /\ seen'.bad = IF ~b THEN None
                     ELSE IF seen.bad = None \/ Since(seen.looked, Gap + 1)
                          THEN 0 ELSE seen.bad
      /\ seen'.good = IF ~g THEN None
                      ELSE IF seen.good = None \/ Since(seen.looked, Gap + 1)
                           THEN 0 ELSE seen.good
  BY <1>n, SeenFields
<1>1. Control'
  BY <1>n DEF Control, RouteKept, PhaseFits, RouteFits, RecoveredHot, Switching
<1>l. ASSUME NEW t \in {s, disk}, t.probed = None \/ ~Since(t.probed, Gap + 1)
      PROVE  t.failed # None \/ t.healthy # None => ~Since(seen.looked, Gap + 1)
  BY <1>l, Numbers DEF Clocks, LooksFit, LooksFitOf, Since
<1>2. LooksFit' /\ Earned'
  <2>0. /\ s'.probed = 0 /\ 0 # None /\ seen'.looked = 0
        /\ disk.probed = None \/ disk.probed >= 0
    BY <1>a, <1>g, Numbers
  <2>1. LooksFitOf(s)'
    BY <2>0 DEF LooksFitOf
  <2>2. LooksFitOf(disk)'
    BY <2>0, <2>1 DEF Clocks, LooksFit, LooksFitOf
  <2>3. QED
    BY <2>1, <2>2 DEF LooksFit, Earned, ReturnIsEarned
<1>3. HealthyFits'
  <2> SUFFICES ASSUME s'.healthy # None
               PROVE  seen'.good # None /\ seen'.good >= s'.healthy
    BY DEF HealthyFits, Switching
  <2>1. CASE Looked.healthy = None
    BY <1>g, <2>1, Numbers
  <2>2. CASE Looked.healthy # None
    <3>1. s.healthy # None /\ ~Since(s.probed, Gap + 1)
      BY <1>f, <2>2
    <3>2. /\ ~Since(seen.looked, Gap + 1)
          /\ seen.good # None /\ seen.good >= s.healthy
      BY <1>l, <3>1 DEF Clocks, HealthyFits
    <3>3. QED
      BY <1>f, <1>g, <2>2, <3>2
  <2>3. QED
    BY <2>1, <2>2
<1>4. Resided'
  BY <1>n, <1>g DEF Clocks, Resided, StayFits
<1>5. Endured'
  <2> SUFFICES ASSUME FailoverAfter <= Cooldown, ~seen.torn, pc' # "recovered"
               PROVE  OutageFitsOf(s)' /\ OutageFitsOf(disk)'
    BY <1>g DEF Endured, OutageFits, Switching
  <2>1. ASSUME NEW t \in {s, disk}, b, t.failed # None,
               t.active = Primary, t.phase \notin Moving,
               ~Since(t.probed, Gap + 1)
        PROVE  /\ seen'.bad # None /\ seen'.bad \in 0..FailoverAfter
               /\ seen'.bad >= t.failed \/ t.cooldown + seen'.bad >= FailoverAfter
    <3>1. ~Since(seen.looked, Gap + 1)
      BY <1>l, <2>1
    <3>2. /\ seen'.bad = IF seen.bad = None THEN 0 ELSE seen.bad
          /\ seen'.bad \in 0..FailoverAfter /\ seen'.bad # None
      BY <1>a, <1>g, <2>1, <3>1, Numbers
    <3>3. CASE pc = "looking"
      BY <1>a, <2>1, <3>2, <3>3 DEF Control, RecoveredHot
    <3>4. CASE pc = "idle"
      <4>1. OutageFitsOf(t)
        BY <2>1, <3>4 DEF Clocks, Endured, OutageFits
      <4>2. QED
        BY <2>1, <3>2, <4>1 DEF OutageFitsOf
    <3>5. QED
      BY <1>n, <3>3, <3>4, <3>2
  <2>2. OutageFitsOf(s)'
    <3> SUFFICES ASSUME s'.active = Primary, s'.failed # None
                 PROVE  /\ seen'.bad # None
                        /\ \/ seen'.bad >= s'.failed
                           \/ s'.cooldown + seen'.bad >= FailoverAfter
      BY DEF OutageFitsOf
    <3>1. b /\ s'.failed = IF Looked.failed = None THEN 0 ELSE Looked.failed
      OBVIOUS
    <3>2. CASE Looked.failed = None
      <4>1. seen'.bad \in 0..FailoverAfter
        BY <1>a, <1>g, <3>1, Numbers
      <4>2. QED
        BY <1>a, <3>1, <3>2, <4>1
    <3>3. CASE Looked.failed # None
      <4>1. ~Since(s.probed, Gap + 1) /\ s.failed # None /\ s'.failed = s.failed
        BY <1>f, <3>1, <3>3
      <4>2. QED
        BY <1>n, <2>1, <3>1, <4>1
    <3>4. QED
      BY <3>2, <3>3
  <2>3. OutageFitsOf(disk)'
    <3>1. CASE disk' = s'
      BY <2>2, <3>1 DEF OutageFitsOf
    <3>2. CASE disk' = disk /\ b
      BY <2>1, <3>2 DEF OutageFitsOf
    <3>3. CASE disk' = disk /\ s.active = Fallback
      BY <1>a, <3>3 DEF OutageFitsOf
    <3>4. QED
      BY <3>1, <3>2, <3>3
  <2>4. QED
    BY <2>2, <2>3
<1>6. QED
  BY <1>1, <1>2, <1>3, <1>4, <1>5 DEF Clocks

(* What the four looks find.                                               *)
LEMMA LooksKeep ==
  ASSUME EInv, IInv',
         LookAuthBlocked \/ LookPrimaryWell \/ LookPrimaryFailed \/ LookFallback
  PROVE  EInv'
<1>0. /\ s \in State /\ s' \in State /\ up[Primary] \in BOOLEAN
      /\ TRUE \in BOOLEAN /\ FALSE \in BOOLEAN
  BY DEF EInv, IInv, TypeOK, Route
<1>l. /\ Looked \in State
      /\ Looked.active = s.active /\ Looked.cooldown = s.cooldown
      /\ Looked.probed = 0 /\ Looked.phase = s.phase /\ Looked.stay = s.stay
      /\ Looked.healthy = IF Since(s.probed, Gap + 1) THEN None ELSE s.healthy
  BY <1>0, LookedType, LookedFields
<1>c. CanLook /\ pc \in {"idle", "looking"} /\ s.phase \notin Moving
  BY DEF LookAuthBlocked, LookPrimaryWell, LookPrimaryFailed, LookFallback,
         CanLook, EInv, Control, PhaseFits, Switching
<1>p. s.active = Primary => Looked.healthy = None
  BY <1>l, <1>c, EgressAssumption
     DEF EInv, Clocks, HealthyFits, Switching
<1>1. CASE LookAuthBlocked
  <2>1. /\ s' = [Looked EXCEPT !.phase = "auth_blocked", !.failed = None,
                               !.healthy = None, !.failures = 0]
        /\ disk' = s' /\ LookSeen(FALSE, FALSE) /\ pc' = "idle"
        /\ route' = route
    BY <1>1 DEF LookAuthBlocked, Save
  <2>2. /\ s'.active = s.active /\ s'.cooldown = s.cooldown /\ s'.stay = s.stay
        /\ s'.probed = 0 /\ s'.phase = "auth_blocked"
        /\ s'.healthy = None /\ s'.failed = None
    BY <1>l, <2>1 DEF State
  <2>3. s'.phase \notin Moving
    BY <2>2 DEF Moving
  <2>4. Control' /\ Clocks'
    BY <1>0, <1>c, <2>1, <2>2, <2>3, LookKeeps
  <2>5. QED
    BY <2>4 DEF EInv
<1>2. CASE LookPrimaryWell
  <2>1. /\ LookSeen(FALSE, up[Primary]) /\ s.active = Primary /\ disk' = s'
        /\ \/ s' = Looked /\ pc' = "recovered"
           \/ s' = ForgetOutage(Looked) /\ pc' = "idle"
        /\ route' = route
    <3>1. IF s.announced /\ ready
          THEN Save(Looked) /\ pc' = "recovered"
          ELSE Save(ForgetOutage(Looked)) /\ pc' = "idle"
      BY <1>2 DEF LookPrimaryWell
    <3>2. /\ disk' = s'
          /\ \/ s' = Looked /\ pc' = "recovered"
             \/ s' = ForgetOutage(Looked) /\ pc' = "idle"
      BY <3>1 DEF Save
    <3>3. LookSeen(FALSE, up[Primary]) /\ s.active = Primary
      BY <1>2 DEF LookPrimaryWell
    <3>4. route' = route
      BY <1>2 DEF LookPrimaryWell
    <3>5. QED
      BY <3>2, <3>3, <3>4
  <2>2. /\ s'.active = s.active /\ s'.cooldown = s.cooldown /\ s'.stay = s.stay
        /\ s'.probed = 0 /\ s'.phase \in {s.phase, "primary"}
        /\ s'.healthy = None
        /\ s'.failed = None \/ pc' = "recovered"
    BY <1>l, <1>p, <2>1 DEF State, ForgetOutage
  <2>3. s'.phase \notin Moving
    BY <1>c, <2>2 DEF Moving
  <2>4. Control' /\ Clocks'
    BY <1>0, <1>c, <2>1, <2>2, <2>3, LookKeeps
  <2>5. QED
    BY <2>4 DEF EInv
<1>3. CASE LookPrimaryFailed
  <2>1. /\ LookSeen(TRUE, FALSE) /\ s.active = Primary /\ Announce(Failed(Looked))
        /\ pc' = "failing" /\ route' = route
    BY <1>3 DEF LookPrimaryFailed
  <2> DEFINE t == Failed(Looked)
  <2>2. /\ t.active = s.active /\ t.cooldown = s.cooldown /\ t.stay = s.stay
        /\ t.probed = 0 /\ t.phase = "waiting" /\ t.healthy = None
        /\ t.failed = IF Looked.failed = None THEN 0 ELSE Looked.failed
        /\ t \in State
    <3>1. Lesser(Looked.failures + 1, 2) \in 0..2
      BY <1>l DEF State, Lesser
    <3>2. QED
      BY <1>l, <1>p, <2>1, <3>1, Anew, ZenonT(40) DEF State, Failed, Phase
  <2> HIDE DEF t
  <2>4. /\ s' = t \/ s' = [t EXCEPT !.announced = TRUE]
        /\ disk' = s' \/ disk' = disk
    BY <2>1 DEF t, Announce, Save, Keep
  <2>5. /\ s'.active = s.active /\ s'.cooldown = s.cooldown /\ s'.stay = s.stay
        /\ s'.probed = 0 /\ s'.phase = "waiting" /\ s'.healthy = None
        /\ s'.failed = IF Looked.failed = None THEN 0 ELSE Looked.failed
    BY <1>l, <2>2, <2>4 DEF State
  <2>6. s'.phase \notin Moving
    BY <2>5 DEF Moving
  <2>7. Control' /\ Clocks'
    BY <1>0, <1>c, <2>1, <2>4, <2>5, <2>6, LookKeeps
  <2>8. QED
    BY <2>7 DEF EInv
<1>4. CASE LookFallback
  <2>1. /\ LookSeen(~up[Primary], up[Primary]) /\ s.active = Fallback
        /\ route' = route
    BY <1>4 DEF LookFallback
  <2> DEFINE t == [Looked EXCEPT !.phase = "fallback"]
  <2>2. IF ~up[Primary]
        THEN Keep([t EXCEPT !.healthy = None]) /\ pc' = "last"
        ELSE Well(t) /\ pc' = "weighing"
    BY <1>4 DEF LookFallback
  <2>3. /\ t \in State /\ t.active = s.active /\ t.cooldown = s.cooldown
        /\ t.stay = s.stay /\ t.probed = 0 /\ t.phase = "fallback"
        /\ t.healthy = Looked.healthy
    BY <1>l DEF State, Phase
  <2> HIDE DEF t
  <2>4. /\ s'.active = s.active /\ s'.cooldown = s.cooldown /\ s'.stay = s.stay
        /\ s'.probed = 0 /\ s'.phase = "fallback"
        /\ disk' = s' \/ disk' = disk
        /\ pc' \in {"last", "weighing"}
        /\ s'.healthy # None
             => /\ up[Primary]
                /\ s'.healthy = IF Looked.healthy = None THEN 0
                                                         ELSE Looked.healthy
    BY <2>2, <2>3 DEF State, Well, Keep, Save
  <2>5. s'.phase \notin Moving /\ s.active # Primary
    BY <2>1, <2>4, EgressAssumption DEF Moving
  <2>6. (~up[Primary]) \in BOOLEAN
    BY <1>0
  <2>7. Control' /\ Clocks'
    BY <1>0, <1>c, <2>1, <2>4, <2>5, <2>6, LookKeeps
  <2>8. QED
    BY <2>7 DEF EInv
<1>5. QED
  BY <1>1, <1>2, <1>3, <1>4

(* What a step that neither looks nor lets time pass must do for the       *)
(* clocks: it times nothing that was not timed.                            *)
Saves ==
  /\ s' \in State /\ disk' \in {s', disk}
  /\ s'.probed = s.probed
  /\ s'.healthy \in {None, s.healthy} /\ s'.failed \in {None, s.failed}
  /\ seen'.bad = seen.bad /\ seen'.good = seen.good
  /\ seen'.looked = seen.looked /\ seen'.torn = seen.torn

(* Such a step cannot make the controller's clocks run ahead.              *)
LEMMA SavesFit ==
  ASSUME EInv, Saves
  PROVE  /\ LooksFit'
         /\ s'.healthy # None => seen'.good # None /\ seen'.good >= s'.healthy
<1>1. LooksFit'
  <2>1. LooksFitOf(s)'
    BY DEF EInv, Clocks, Saves, LooksFit, LooksFitOf
  <2>2. LooksFitOf(disk)'
    BY <2>1 DEF EInv, Clocks, Saves, LooksFit, LooksFitOf
  <2>3. QED
    BY <2>1, <2>2 DEF LooksFit
<1>2. s'.healthy # None => seen'.good # None /\ seen'.good >= s'.healthy
  BY DEF EInv, Clocks, Saves, HealthyFits
<1>3. QED
  BY <1>1, <1>2

(* The steps of a tick between the look and the decision.                  *)
LEMMA DecisionsKeep ==
  ASSUME EInv, IInv',
         \/ Recover \/ RecoveryReported \/ NoRoute \/ KeepWaiting
         \/ StayOnFallback \/ Remind \/ NoReminder
  PROVE  EInv'
<1> USE DEF EInv
<1>n. /\ s \in State /\ disk \in State /\ seen \in Seen
      /\ Cooldown \in Nat /\ Residence \in Nat /\ FailoverAfter \in Nat
      /\ seen.stayed \in 0..Residence /\ s.cooldown \in Nat
      /\ seen.bad = None \/ seen.bad \in 0..FailoverAfter
      /\ None \notin Nat /\ 0 \in 0..Cooldown /\ Cooldown \in 0..Cooldown
  BY Numbers, Anew
<1>p. Primary # Fallback
  BY EgressAssumption
<1>1. CASE Recover
  <2>1. /\ s' = [s EXCEPT !.phase = IF s.active = Fallback THEN "fallback"
                                                           ELSE "waiting",
                          !.cooldown = Cooldown]
        /\ disk' = s' /\ pc = "idle" /\ pc' = "looking" /\ seen' = seen
        /\ route' = route /\ target' = target
    BY <1>1 DEF Recover, Save, tick
  <2>2. /\ s'.active = s.active /\ s'.cooldown = Cooldown /\ s'.stay = s.stay
        /\ s'.phase \in {"fallback", "waiting"} /\ s'.probed = s.probed
        /\ s'.healthy = s.healthy /\ s'.failed = s.failed
    BY <1>n, <2>1 DEF State
  <2>3. s' \in State /\ s'.phase \notin Moving
    BY <2>2 DEF Moving, IInv, TypeOK
  <2>4. Control'
    BY <2>1, <2>2, <2>3
       DEF Control, RouteKept, PhaseFits, RouteFits, RecoveredHot, Switching
  <2>5. LooksFit' /\ HealthyFits'
    <3>1. Saves
      BY <2>1, <2>2, <2>3 DEF Saves
    <3>2. /\ LooksFit'
          /\ s'.healthy # None => seen'.good # None /\ seen'.good >= s'.healthy
      BY <2>1, <3>1, SavesFit
    <3>3. QED
      BY <2>1, <2>2, <3>2 DEF Clocks, HealthyFits, Switching
  <2>6. Resided'
    BY <1>n, <2>1, <2>2 DEF Resided, StayFits
  <2>7. Endured' /\ Earned'
    BY <2>1 DEF Endured, OutageFits, Earned, ReturnIsEarned, Switching
  <2>8. QED
    BY <2>4, <2>5, <2>6, <2>7 DEF Clocks
<1>2. CASE RecoveryReported
  <2>1. /\ s' = [ForgetOutage(s) EXCEPT !.announced = FALSE]
        /\ disk' = s' /\ pc = "recovered" /\ pc' = "idle" /\ seen' = seen
        /\ route' = route /\ target' = target
    BY <1>2 DEF RecoveryReported, Save, tick
  <2>2. /\ s'.active = s.active /\ s'.cooldown = s.cooldown /\ s'.stay = s.stay
        /\ s'.phase = "primary" /\ s'.probed = s.probed
        /\ s'.healthy = s.healthy /\ s'.failed = None
    BY <1>n, <2>1 DEF State, ForgetOutage
  <2>3. s' \in State /\ s'.phase \notin Moving
    BY <2>2 DEF Moving, IInv, TypeOK
  <2>4. Control'
    BY <2>1, <2>2, <2>3
       DEF Control, RouteKept, PhaseFits, RouteFits, RecoveredHot, Switching
  <2>5. LooksFit' /\ HealthyFits'
    <3>1. Saves
      BY <2>1, <2>2, <2>3 DEF Saves
    <3>2. /\ LooksFit'
          /\ s'.healthy # None => seen'.good # None /\ seen'.good >= s'.healthy
      BY <2>1, <3>1, SavesFit
    <3>3. QED
      BY <2>1, <2>2, <3>2 DEF Clocks, HealthyFits, Switching
  <2>6. Resided'
    BY <1>p, <2>1, <2>2 DEF Resided, StayFits, Control, RouteFits
  <2>7. Endured' /\ Earned'
    BY <2>1, <2>2 DEF Endured, OutageFits, OutageFitsOf, Earned, ReturnIsEarned, Switching
  <2>8. QED
    BY <2>4, <2>5, <2>6, <2>7 DEF Clocks
<1>3. CASE NoRoute \/ KeepWaiting \/ StayOnFallback \/ Remind \/ NoReminder
  <2>1. /\ \/ s' = s \/ s' = [s EXCEPT !.cooldown = Cooldown]
           \/ s' = [s EXCEPT !.reminded = 0]
        /\ disk' = s' \/ (disk' = disk /\ s' = s)
        /\ pc \in {"failing", "weighing", "last"} /\ pc' \in {"idle", "last"}
        /\ seen' = seen
        /\ route' = route /\ target' = target
    BY <1>3 DEF NoRoute, KeepWaiting, StayOnFallback, Remind, NoReminder,
                Save, Keep, tick
  <2>2. /\ s'.active = s.active /\ s'.stay = s.stay /\ s'.phase = s.phase
        /\ s'.cooldown \in {s.cooldown, Cooldown} /\ s'.probed = s.probed
        /\ s'.healthy = s.healthy /\ s'.failed = s.failed
    BY <1>n, <2>1 DEF State
  <2>3. s' \in State /\ s.phase \notin Moving
    BY <2>1 DEF Switching, Control, PhaseFits, IInv, TypeOK
  <2>4. Control'
    BY <2>1, <2>2, <2>3
       DEF Control, RouteKept, PhaseFits, RouteFits, RecoveredHot, Switching
  <2>5. LooksFit' /\ HealthyFits'
    <3>1. Saves
      BY <2>1, <2>2, <2>3 DEF Saves
    <3>2. /\ LooksFit'
          /\ s'.healthy # None => seen'.good # None /\ seen'.good >= s'.healthy
      BY <2>1, <3>1, SavesFit
    <3>3. QED
      BY <2>1, <2>2, <3>2 DEF Clocks, HealthyFits, Switching
  <2>6. Resided'
    BY <1>n, <2>1, <2>2, <2>3 DEF Clocks, Resided, StayFits
  <2>7. Endured' /\ Earned'
    BY <1>n, <2>1, <2>2, <2>3
       DEF Clocks, Endured, OutageFits, OutageFitsOf, Earned, ReturnIsEarned, Switching
  <2>8. QED
    BY <2>4, <2>5, <2>6, <2>7 DEF Clocks
<1>4. QED
  BY <1>1, <1>2, <1>3

(* A switch begins: the failover's outage has lasted, and the return's     *)
(* recovery and stay have.                                                 *)
LEMMA BeginningKeeps ==
  ASSUME EInv, IInv', FailOver \/ Return
  PROVE  EInv'
<1> USE DEF EInv
<1>n. /\ s \in State /\ disk \in State /\ seen \in Seen
      /\ Cooldown \in Nat /\ Residence \in Nat /\ FailoverAfter \in Nat
      /\ Stable \in Nat
      /\ seen.stayed \in 0..Residence /\ s.cooldown \in Nat
      /\ s.failed = None \/ s.failed \in 0..FailoverAfter
      /\ seen.bad = None \/ seen.bad \in 0..FailoverAfter
      /\ s.healthy = None \/ s.healthy \in 0..Stable
      /\ seen.good = None \/ seen.good \in 0..Stable
      /\ s.stay = None \/ s.stay \in 0..Residence
      /\ None \notin Nat
  BY Numbers
<1>p. Primary # Fallback
  BY EgressAssumption
<1>1. ASSUME NEW to \in Route, NEW phase \in Moving, Begin(to, phase),
             pc \in {"failing", "weighing"}
      PROVE  /\ s'.active = s.active /\ s'.phase = phase /\ s'.probed = s.probed
             /\ s'.healthy = s.healthy /\ s'.failed = s.failed
             /\ disk' = s' /\ target' = to /\ pc' = "closing"
             /\ seen'.bad = seen.bad /\ seen'.good = seen.good
             /\ seen'.stayed = seen.stayed /\ seen'.looked = seen.looked
             /\ route' = route /\ s' \in State /\ Saves
  <2>1. /\ s' = [s EXCEPT !.phase = phase, !.cooldown = Cooldown]
        /\ disk' = s' /\ target' = to /\ pc' = "closing"
        /\ seen' = [seen EXCEPT !.spaced = 0]
        /\ route' = route /\ s' \in State
    BY <1>1 DEF Begin, Save, IInv, TypeOK
  <2>2. QED
    BY <1>n, <1>1, <2>1 DEF State, Seen, Saves
<1>2. CASE FailOver
  <2>1. /\ pc = "failing" /\ Begin(Fallback, "switching")
        /\ Since(s.failed, FailoverAfter) /\ s.cooldown = 0
    BY <1>2 DEF FailOver, MayFailOver
  <2>2. s.active = Primary /\ s.phase \notin Moving /\ s.healthy = None
    BY <1>p, <2>1 DEF Control, RouteFits, PhaseFits, Clocks, HealthyFits, Switching
  <2>3. /\ s'.active = s.active /\ s'.phase = "switching" /\ s'.probed = s.probed
        /\ s'.healthy = s.healthy /\ s'.failed = s.failed
        /\ disk' = s' /\ target' = Fallback /\ pc' = "closing"
        /\ seen'.bad = seen.bad /\ seen'.good = seen.good
        /\ route' = route /\ s' \in State /\ Saves
    BY <1>1, <2>1 DEF Moving, Route
  <2>4. Control'
    BY <1>p, <2>2, <2>3
       DEF Control, RouteKept, PhaseFits, RouteFits, RecoveredHot, Switching,
           Previous, Moving
  <2>5. LooksFit' /\ HealthyFits'
    BY <2>2, <2>3, SavesFit DEF HealthyFits
  <2>6. Resided' /\ Earned'
    BY <1>p, <2>3 DEF Resided, StayFits, Moving, Earned, ReturnIsEarned
  <2>7. Endured'
    <3> SUFFICES ASSUME FailoverAfter <= Cooldown, ~seen.torn
                 PROVE  Since(seen.bad, FailoverAfter)
      BY <2>3 DEF Endured, OutageFits, OutageFitsOf, Moving, Since, Saves
    <3>1. /\ seen.bad # None
          /\ \/ seen.bad >= s.failed
             \/ s.cooldown + seen.bad >= FailoverAfter
      <4>1. s.probed = 0 /\ ~Since(s.probed, Gap + 1)
        BY <2>1, Numbers DEF Control, RouteFits, Since
      <4>2. OutageFitsOf(s)
        BY <2>1 DEF Clocks, Endured, OutageFits
      <4>3. QED
        BY <2>1, <2>2, <4>1, <4>2 DEF OutageFitsOf, Since
    <3>2. QED
      BY <1>n, <2>1, <3>1 DEF Since
  <2>8. QED
    BY <2>4, <2>5, <2>6, <2>7 DEF Clocks
<1>3. CASE Return
  <2>1. /\ pc = "weighing" /\ Begin(Primary, "returning")
        /\ Since(s.healthy, Stable)
        /\ s.stay = None \/ Since(s.stay, Residence)
        /\ s.cooldown = 0
    BY <1>3 DEF Return, MayReturn
  <2>2. s.active = Fallback /\ s.phase \notin Moving
    BY <2>1 DEF Control, RouteFits, PhaseFits, Switching
  <2>3. /\ s'.active = s.active /\ s'.phase = "returning" /\ s'.probed = s.probed
        /\ s'.healthy = s.healthy /\ s'.failed = s.failed
        /\ disk' = s' /\ target' = Primary /\ pc' = "closing"
        /\ seen'.bad = seen.bad /\ seen'.good = seen.good
        /\ seen'.stayed = seen.stayed
        /\ route' = route /\ s' \in State /\ Saves
    BY <1>1, <2>1 DEF Moving, Route
  <2>4. Control'
    BY <1>p, <2>2, <2>3
       DEF Control, RouteKept, PhaseFits, RouteFits, RecoveredHot, Switching,
           Previous, Moving
  <2>5. LooksFit' /\ HealthyFits'
    BY <2>2, <2>3, SavesFit DEF HealthyFits
  <2>6. Resided' /\ Endured'
    BY <1>p, <2>2, <2>3 DEF Resided, StayFits, Moving, Endured, OutageFits,
                           OutageFitsOf
  <2>7. Earned'
    <3> SUFFICES ASSUME Residence <= Cooldown
                 PROVE  Since(seen.good, Stable) /\ seen.stayed >= Residence
      BY <2>3 DEF Earned, ReturnIsEarned, Since
    <3>1. Since(seen.good, Stable)
      BY <1>n, <2>1 DEF Clocks, HealthyFits, Since
    <3>2. \/ s.stay # None /\ seen.stayed >= s.stay
          \/ s.cooldown + seen.stayed >= Residence
      BY <2>2 DEF Clocks, Resided, StayFits
    <3>3. QED
      BY <1>n, <2>1, <3>1, <3>2 DEF Since
  <2>8. QED
    BY <2>4, <2>5, <2>6, <2>7 DEF Clocks
<1>4. QED
  BY <1>2, <1>3

(* The steps of a switch: the route is saved before the next await, and a  *)
(* switch that ends leaves either a new stay or a full cooldown.           *)
LEMMA SwitchesKeep ==
  ASSUME EInv, IInv', SwitchStep \/ NotClosed
  PROVE  EInv'
<1> USE DEF EInv
<1>n. /\ s \in State /\ s' \in State /\ disk \in State /\ seen \in Seen
      /\ Cooldown \in Nat /\ Residence \in Nat /\ FailoverAfter \in Nat
      /\ seen.stayed \in 0..Residence /\ s.cooldown \in Nat
      /\ s.failed = None \/ s.failed \in 0..FailoverAfter
      /\ seen.bad = None \/ seen.bad \in 0..FailoverAfter
      /\ None \notin Nat
  BY Numbers DEF IInv, TypeOK
<1>p. Primary # Fallback /\ target \in Route /\ Previous \in Route \ {target}
  BY EgressAssumption DEF Previous, Route, IInv, TypeOK
<1>1. CASE Closed \/ Reverted
  <2>1. PICK to \in Route :
          /\ s' = [s EXCEPT !.active = to] /\ disk' = s' /\ route' = to
          /\ seen' = [seen EXCEPT !.stayed = 0]
          /\ target' = target
          /\ \/ pc = "closing" /\ pc' = "connecting" /\ to = target
             \/ pc = "reverting" /\ pc' = "reconnecting" /\ to = Previous
    BY <1>1, <1>p DEF Closed, Reverted, Save, tick
  <2>2. /\ s'.active = to /\ s'.cooldown = s.cooldown
        /\ s'.phase = s.phase /\ s'.probed = s.probed
        /\ s'.healthy = s.healthy /\ s'.failed = s.failed
        /\ seen'.bad = seen.bad /\ seen'.good = seen.good
        /\ seen'.looked = seen.looked
    BY <1>n, <2>1 DEF State, Seen
  <2>3. s.phase \in Moving
    BY <2>1 DEF Control, PhaseFits, Switching
  <2>4. Control'
    BY <2>1, <2>2, <2>3
       DEF Control, RouteKept, PhaseFits, RouteFits, RecoveredHot, Switching,
           Previous
  <2>5. LooksFit' /\ HealthyFits'
    <3>1. Saves
      BY <1>n, <2>1, <2>2 DEF Saves
    <3>2. /\ LooksFit'
          /\ s'.healthy # None => seen'.good # None /\ seen'.good >= s'.healthy
      BY <2>1, <3>1, SavesFit
    <3>3. QED
      BY <2>1, <2>2, <3>2 DEF Clocks, HealthyFits, Switching
  <2>6. Resided' /\ Earned'
    BY <2>1, <2>2, <2>3 DEF Resided, StayFits, Earned, ReturnIsEarned
  <2>7. Endured'
    BY <2>1, <2>2, <2>3
       DEF Clocks, Endured, OutageFits, OutageFitsOf, Switching, Since
  <2>8. QED
    BY <2>4, <2>5, <2>6, <2>7 DEF Clocks
<1>2. CASE ConnectedFallback \/ ConnectedPrimary
  <2>1. /\ pc = "connecting" /\ pc' \in {"last", "idle"}
        /\ disk' = s' /\ seen' = seen /\ route' = route
        /\ target' = target
        /\ \/ target = Fallback
              /\ s' = [s EXCEPT !.phase = "fallback", !.healthy = None,
                                !.stay = 0, !.reminded = 0]
           \/ target = Primary
              /\ s' = [s EXCEPT !.phase = "primary", !.healthy = None,
                                !.stay = None, !.failed = None, !.failures = 0,
                                !.announced = FALSE]
    BY <1>2 DEF ConnectedFallback, ConnectedPrimary, AfterSwitch, Save, tick,
                budget
  <2>2. /\ s'.active = s.active /\ s'.probed = s.probed /\ s'.healthy = None
        /\ s'.phase \in {"fallback", "primary"}
        /\ target = Fallback => s'.stay = 0 /\ s'.failed = s.failed
        /\ target = Primary => s'.failed = None
    BY <1>n, <1>p, <2>1 DEF State
  <2>3. s'.phase \notin Moving /\ s.active = target
    BY <2>1, <2>2 DEF Moving, Control, RouteFits
  <2>4. Control'
    BY <2>1, <2>2, <2>3
       DEF Control, RouteKept, PhaseFits, RouteFits, RecoveredHot, Switching
  <2>5. LooksFit' /\ HealthyFits'
    <3>1. Saves
      BY <1>n, <1>p, <2>1, <2>2 DEF Saves, Route
    <3>2. LooksFit'
      BY <2>1, <3>1, SavesFit
    <3>3. QED
      BY <2>2, <3>2 DEF HealthyFits
  <2>6. Resided'
    BY <1>n, <1>p, <2>1, <2>2, <2>3 DEF Resided, StayFits, Route
  <2>7. Endured' /\ Earned'
    BY <1>p, <2>1, <2>2, <2>3
       DEF Endured, OutageFits, OutageFitsOf, Earned, ReturnIsEarned, Switching, Route
  <2>8. QED
    BY <2>4, <2>5, <2>6, <2>7 DEF Clocks
<1>3. CASE NotConnected \/ NotClosed
  <2>1. /\ s' = s \/ s' = [s EXCEPT !.phase = "rollback"]
        /\ disk' = s' /\ seen' = seen /\ route' = route
        /\ target' = target
        /\ \/ pc = "connecting" /\ pc' = "reverting"
           \/ pc \in {"closing", "reverting"} /\ pc' = "down"
    BY <1>3 DEF NotConnected, NotClosed, Save, tick
  <2>2. /\ s'.active = s.active /\ s'.probed = s.probed
        /\ s'.healthy = s.healthy /\ s'.failed = s.failed
        /\ s'.phase \in {s.phase, "rollback"}
    BY <1>n, <2>1 DEF State
  <2>3. s'.phase \in Moving
    BY <2>1, <2>2 DEF Moving, Control, PhaseFits, Switching
  <2>4. Control'
    BY <2>1, <2>2, <2>3
       DEF Control, RouteKept, PhaseFits, RouteFits, RecoveredHot, Switching
  <2>5. LooksFit' /\ HealthyFits'
    <3>1. Saves
      BY <1>n, <2>1, <2>2 DEF Saves
    <3>2. /\ LooksFit'
          /\ s'.healthy # None => seen'.good # None /\ seen'.good >= s'.healthy
      BY <2>1, <2>3, <3>1, SavesFit
    <3>3. QED
      BY <2>1, <2>2, <3>2 DEF Clocks, HealthyFits, Switching
  <2>6. Resided' /\ Earned'
    BY <2>1, <2>3 DEF Resided, StayFits, Earned, ReturnIsEarned
  <2>7. Endured'
    BY <2>1, <2>2, <2>3
       DEF Clocks, Endured, OutageFits, OutageFitsOf, Switching, Since
  <2>8. QED
    BY <2>4, <2>5, <2>6, <2>7 DEF Clocks
<1>4. CASE RolledBack
  <2>1. /\ pc = "reconnecting" /\ pc' \in {"last", "idle"}
        /\ s' = [s EXCEPT !.phase = IF Previous = Fallback THEN "fallback"
                                                           ELSE "waiting",
                          !.healthy = None, !.cooldown = Cooldown]
        /\ disk' = s' /\ seen' = seen /\ route' = route
        /\ target' = target
    BY <1>4 DEF RolledBack, AfterSwitch, Save, tick
  <2>2. /\ s'.active = s.active /\ s'.probed = s.probed /\ s'.healthy = None
        /\ s'.failed = s.failed /\ s'.cooldown = Cooldown
        /\ s'.phase \in {"fallback", "waiting"}
    BY <1>n, <2>1 DEF State
  <2>3. s'.phase \notin Moving /\ s.active = Previous
    BY <2>1, <2>2 DEF Moving, Control, RouteFits
  <2>4. Control'
    BY <2>1, <2>2, <2>3
       DEF Control, RouteKept, PhaseFits, RouteFits, RecoveredHot, Switching
  <2>5. LooksFit' /\ HealthyFits'
    <3>1. Saves
      BY <1>n, <2>1, <2>2 DEF Saves
    <3>2. LooksFit'
      BY <2>1, <3>1, SavesFit
    <3>3. QED
      BY <2>2, <3>2 DEF HealthyFits
  <2>6. Resided'
    BY <1>n, <2>1, <2>2 DEF Resided, StayFits
  <2>7. Endured' /\ Earned'
    <3>1. ASSUME FailoverAfter <= Cooldown, ~seen.torn, s.active = Primary
          PROVE  Since(seen.bad, FailoverAfter)
      BY <1>p, <2>1, <2>3, <3>1
         DEF Clocks, Endured, OutageFits, Switching, Route
    <3>2. QED
      BY <1>n, <2>1, <2>2, <3>1
         DEF Endured, OutageFits, OutageFitsOf, Earned, ReturnIsEarned, Switching, Since
  <2>8. QED
    BY <2>4, <2>5, <2>6, <2>7 DEF Clocks
<1>5. QED
  BY <1>1, <1>2, <1>3, <1>4 DEF SwitchStep

(* What time does to the clocks.                                           *)
LEMMA AgedFields ==
  ASSUME NEW t \in State
  PROVE  /\ Aged(t).active = t.active /\ Aged(t).phase = t.phase
         /\ Aged(t).failed = Older(t.failed, FailoverAfter)
         /\ Aged(t).healthy = Older(t.healthy, Stable)
         /\ Aged(t).stay = Older(t.stay, Residence)
         /\ Aged(t).probed = Older(t.probed, Gap + 1)
         /\ Aged(t).cooldown = IF t.cooldown > 0 THEN t.cooldown - 1 ELSE 0
  BY DEF Aged, State

(* And to the observations.                                                *)
LEMMA AgedSeenFields ==
  ASSUME NEW t \in Seen
  PROVE  /\ AgedSeen(t).bad = Older(t.bad, FailoverAfter)
         /\ AgedSeen(t).good = Older(t.good, Stable)
         /\ AgedSeen(t).looked = Older(t.looked, Gap + 1)
         /\ AgedSeen(t).stayed = Lesser(t.stayed + 1, Residence)
         /\ AgedSeen(t).torn = t.torn
  BY DEF AgedSeen, Seen

(* Two distances grow alike.                                               *)
LEMMA OlderKeepsOrder ==
  ASSUME NEW n \in Nat, NEW a \in 0..n, NEW b \in 0..n, a >= b
  PROVE  /\ Older(a, n) # None /\ Older(a, n) >= Older(b, n)
         /\ a >= n => Older(a, n) >= n
         /\ Older(a, n) \in 0..n /\ Older(b, n) \in 0..n
  BY EgressAssumption DEF Older, Lesser

(* A cooldown wears down no faster than what it makes up for grows.        *)
LEMMA CooldownMakesUp ==
  ASSUME NEW n \in Nat, NEW a \in 0..n, NEW c \in Nat, c + a >= n
  PROVE  (IF c > 0 THEN c - 1 ELSE 0) + Lesser(a + 1, n) >= n
  BY DEF Lesser

(* Time passes.                                                            *)
LEMMA TimeKeeps ==
  ASSUME EInv, IInv', Second
  PROVE  EInv'
<1> USE DEF EInv
<1>n. /\ s \in State /\ disk \in State /\ seen \in Seen
      /\ Cooldown \in Nat /\ Residence \in Nat /\ FailoverAfter \in Nat
      /\ Stable \in Nat
      /\ seen.stayed \in 0..Residence
      /\ s.cooldown \in Nat /\ disk.cooldown \in Nat
      /\ s.failed = None \/ s.failed \in 0..FailoverAfter
      /\ seen.bad = None \/ seen.bad \in 0..FailoverAfter
      /\ s.healthy = None \/ s.healthy \in 0..Stable
      /\ seen.good = None \/ seen.good \in 0..Stable
      /\ s.stay = None \/ s.stay \in 0..Residence
      /\ disk.stay = None \/ disk.stay \in 0..Residence
      /\ None \notin Nat
  BY Numbers
<1>1. /\ s' = Aged(s) /\ disk' = Aged(disk) /\ seen' = AgedSeen(seen)
      /\ route' = route /\ pc' = pc /\ fresh' = fresh /\ target' = target
      /\ pc \notin {"looking", "recovered", "failing"}
  BY DEF Second, tick
<1>2. /\ s'.active = s.active /\ s'.phase = s.phase
      /\ s'.failed = Older(s.failed, FailoverAfter)
      /\ s'.healthy = Older(s.healthy, Stable)
      /\ s'.stay = Older(s.stay, Residence)
      /\ s'.probed = Older(s.probed, Gap + 1)
      /\ s'.cooldown = IF s.cooldown > 0 THEN s.cooldown - 1 ELSE 0
  BY <1>n, <1>1, AgedFields
<1>3. /\ disk'.active = disk.active /\ disk'.phase = disk.phase
      /\ disk'.stay = Older(disk.stay, Residence)
      /\ disk'.cooldown = IF disk.cooldown > 0 THEN disk.cooldown - 1 ELSE 0
  BY <1>n, <1>1, AgedFields
<1>4. /\ seen'.bad = Older(seen.bad, FailoverAfter)
      /\ seen'.good = Older(seen.good, Stable)
      /\ seen'.looked = Older(seen.looked, Gap + 1)
      /\ seen'.stayed = Lesser(seen.stayed + 1, Residence)
      /\ seen'.torn = seen.torn
  BY <1>n, <1>1, AgedSeenFields
<1>5. Control'
  BY <1>1, <1>2, <1>3
     DEF Control, RouteKept, PhaseFits, RouteFits, RecoveredHot, Switching,
         Previous
<1>6. LooksFit'
  <2>1. ASSUME NEW t \in {s, disk}
        PROVE  LooksFitOf(Aged(t))'
    <3>1. /\ Aged(t).failed = Older(t.failed, FailoverAfter)
          /\ Aged(t).healthy = Older(t.healthy, Stable)
          /\ Aged(t).probed = Older(t.probed, Gap + 1)
      BY <1>n, AgedFields
    <3>2. LooksFitOf(t) /\ Gap + 1 \in Nat
      BY Numbers DEF Clocks, LooksFit
    <3>3. CASE t.probed = None
      BY <1>4, <3>1, <3>2, <3>3 DEF LooksFitOf, Older
    <3>4. CASE t.probed # None
      <4>1. /\ t.probed \in 0..(Gap + 1) /\ seen.looked \in 0..(Gap + 1)
            /\ t.probed >= seen.looked
        BY <3>2, <3>4, Numbers DEF LooksFitOf
      <4>2. /\ Older(t.probed, Gap + 1) # None /\ Older(seen.looked, Gap + 1) # None
            /\ Older(t.probed, Gap + 1) >= Older(seen.looked, Gap + 1)
        BY <1>n, <3>2, <4>1, OlderKeepsOrder
      <4>3. QED
        BY <1>4, <3>1, <4>2 DEF LooksFitOf
    <3>5. QED
      BY <3>3, <3>4
  <2>2. QED
    BY <1>1, <2>1 DEF LooksFit, LooksFitOf
<1>7. HealthyFits'
  <2>1. s'.healthy # None => s.healthy # None
    BY <1>2 DEF Older
  <2>2. s'.healthy # None => seen'.good # None /\ seen'.good >= s'.healthy
    <3> SUFFICES ASSUME s'.healthy # None
                 PROVE  seen'.good # None /\ seen'.good >= s'.healthy
      OBVIOUS
    <3>1. /\ s.healthy \in 0..Stable /\ seen.good \in 0..Stable
          /\ seen.good >= s.healthy
      BY <1>n, <2>1 DEF Clocks, HealthyFits
    <3>2. QED
      BY <1>n, <1>2, <1>4, <3>1, OlderKeepsOrder
  <2>3. QED
    BY <1>1, <1>2, <2>1, <2>2 DEF Clocks, HealthyFits
<1>8. ASSUME NEW t \in State, t.cooldown \in Nat,
             t.stay = None \/ t.stay \in 0..Residence, StayFits(t)
      PROVE  StayFits(Aged(t))'
  <2>1. /\ Aged(t).active = t.active /\ Aged(t).phase = t.phase
        /\ Aged(t).stay = Older(t.stay, Residence)
        /\ Aged(t).cooldown = IF t.cooldown > 0 THEN t.cooldown - 1 ELSE 0
    BY AgedFields
  <2>2. CASE t.stay # None /\ seen.stayed >= t.stay
    <3>1. Older(t.stay, Residence) # None
      BY <1>n, <1>8, <2>2, OlderKeepsOrder
    <3>2. Lesser(seen.stayed + 1, Residence) >= Older(t.stay, Residence)
      BY <1>n, <1>8, <2>2 DEF Older, Lesser
    <3>3. QED
      BY <1>4, <2>1, <3>1, <3>2 DEF StayFits
  <2>3. CASE t.cooldown + seen.stayed >= Residence
    <3>1. (IF t.cooldown > 0 THEN t.cooldown - 1 ELSE 0)
            + Lesser(seen.stayed + 1, Residence) >= Residence
      BY <1>n, <1>8, <2>3, CooldownMakesUp
    <3>2. QED
      BY <1>4, <2>1, <3>1 DEF StayFits
  <2>4. CASE ~(t.active = Fallback /\ t.phase \notin Moving)
    BY <2>1, <2>4 DEF StayFits
  <2>5. QED
    BY <1>8, <2>2, <2>3, <2>4 DEF StayFits
<1>9. Resided'
  BY <1>n, <1>1, <1>8 DEF Clocks, Resided
<1>10. Earned'
  <2> SUFFICES ASSUME Residence <= Cooldown, pc = "closing", target = Primary
               PROVE  Since(seen'.good, Stable) /\ seen'.stayed >= Residence
    BY <1>1 DEF Earned, ReturnIsEarned, Since
  <2>1. Since(seen.good, Stable) /\ seen.stayed >= Residence
    BY DEF Clocks, Earned, ReturnIsEarned
  <2>2. QED
    BY <1>n, <1>4, <2>1 DEF Since, Older, Lesser
<1>11. Endured'
  <2> SUFFICES ASSUME FailoverAfter <= Cooldown, ~seen.torn
               PROVE  OutageFits'
    BY <1>4 DEF Endured
  <2>0. OutageFits
    BY DEF Clocks, Endured
  <2>1. ASSUME NEW t \in {s, disk}
        PROVE  OutageFitsOf(Aged(t))'
    <3>1. /\ Aged(t).active = t.active /\ Aged(t).phase = t.phase
          /\ Aged(t).failed = Older(t.failed, FailoverAfter)
          /\ Aged(t).probed = Older(t.probed, Gap + 1)
          /\ Aged(t).cooldown = IF t.cooldown > 0 THEN t.cooldown - 1 ELSE 0
      BY <1>n, AgedFields
    <3> SUFFICES ASSUME t.active = Primary, Aged(t).failed # None,
                        t.phase \notin Moving, ~Since(Aged(t).probed, Gap + 1)
                 PROVE  /\ seen'.bad # None
                        /\ \/ seen'.bad >= Aged(t).failed
                           \/ Aged(t).cooldown + seen'.bad >= FailoverAfter
      BY <3>1 DEF OutageFitsOf
    <3>2. t.failed # None
      BY <3>1 DEF Older
    <3>3. ~Since(t.probed, Gap + 1)
      BY <3>1, Numbers DEF Since, Older, Lesser
    <3>4. /\ seen.bad # None
          /\ seen.bad >= t.failed \/ t.cooldown + seen.bad >= FailoverAfter
      BY <1>1, <2>0, <3>2, <3>3 DEF OutageFits, OutageFitsOf
    <3>5. /\ t.failed \in 0..FailoverAfter /\ seen.bad \in 0..FailoverAfter
          /\ t.cooldown \in Nat
          /\ seen'.bad = Lesser(seen.bad + 1, FailoverAfter)
          /\ seen'.bad # None
      <4>1. t.failed \in 0..FailoverAfter /\ seen.bad \in 0..FailoverAfter
        BY <3>2, <3>4, Numbers
      <4>2. seen'.bad = Lesser(seen.bad + 1, FailoverAfter)
        BY <1>4, <3>4 DEF Older
      <4>3. seen'.bad \in 0..FailoverAfter
        BY <1>n, <4>1, <4>2 DEF Lesser
      <4>4. QED
        BY <1>n, <4>1, <4>2, <4>3
    <3>6. CASE seen.bad >= t.failed
      BY <1>n, <1>4, <3>1, <3>5, <3>6, OlderKeepsOrder
    <3>7. CASE t.cooldown + seen.bad >= FailoverAfter
      BY <1>n, <3>1, <3>5, <3>7, CooldownMakesUp
    <3>8. QED
      BY <3>4, <3>5, <3>6, <3>7
  <2>2. ASSUME pc \in Switching, target = Fallback
        PROVE  Since(seen'.bad, FailoverAfter)
    <3>1. Since(seen.bad, FailoverAfter)
      BY <2>0, <2>2 DEF OutageFits
    <3>2. QED
      BY <1>n, <1>4, <3>1 DEF Since, Older, Lesser
  <2>3. OutageFitsOf(s)' /\ OutageFitsOf(disk)'
    BY <1>1, <2>1 DEF OutageFitsOf
  <2>4. QED
    BY <1>1, <2>2, <2>3 DEF OutageFits, Since
<1>12. QED
  BY <1>5, <1>6, <1>7, <1>9, <1>10, <1>11 DEF Clocks

(* A crash and a start: recovery is proved anew, and the stay goes on from *)
(* what was saved.                                                         *)
LEMMA ProcessFits ==
  ASSUME EInv, IInv', Crash \/ Start
  PROVE  EInv'
<1> USE DEF EInv
<1>n. s \in State /\ disk \in State /\ seen \in Seen
  BY Numbers
<1>1. CASE Crash
  <2>1. /\ s' = s /\ disk' = disk /\ route' = route
        /\ seen' = [seen EXCEPT !.torn = @ \/ pc \in {"recovered", "looking"}]
        /\ target' = target
        /\ pc' = "down" /\ pc # "down"
    BY <1>1 DEF Crash, tick
  <2>2. /\ seen'.bad = seen.bad /\ seen'.good = seen.good
        /\ seen'.looked = seen.looked /\ seen'.stayed = seen.stayed
        /\ ~seen'.torn => ~seen.torn /\ pc \notin {"recovered", "looking"}
    BY <1>n, <2>1 DEF Seen
  <2>3. Control'
    BY <2>1 DEF Control, RouteKept, PhaseFits, RouteFits, RecoveredHot,
                Switching
  <2>4. LooksFit'
    BY <2>1, <2>2 DEF Clocks, LooksFit, LooksFitOf
  <2>5. HealthyFits' /\ Resided'
    BY <2>1, <2>2 DEF Clocks, HealthyFits, Resided, StayFits
  <2>6. Endured' /\ Earned'
    BY <2>1, <2>2 DEF Clocks, Endured, OutageFits, OutageFitsOf, Switching,
                      Earned, ReturnIsEarned
  <2>7. QED
    BY <2>3, <2>4, <2>5, <2>6 DEF Clocks
<1>2. CASE Start
  <2>1. /\ s' = [disk EXCEPT !.healthy = None] /\ disk' = disk
        /\ route' = disk.active /\ pc = "down" /\ pc' = "idle" /\ fresh'
        /\ seen' = [seen EXCEPT !.stayed = IF route = disk.active THEN @ ELSE 0,
                                !.good = None]
        /\ target' = target
    BY <1>2 DEF Start, tick
  <2>2. route = disk.active /\ s.active = disk.active
    BY DEF Control, RouteKept
  <2>3. /\ s'.active = disk.active /\ s'.phase = disk.phase
        /\ s'.probed = disk.probed /\ s'.healthy = None
        /\ s'.failed = disk.failed /\ s'.stay = disk.stay
        /\ s'.cooldown = disk.cooldown
    BY <1>n, <2>1 DEF State
  <2>4. /\ seen'.looked = seen.looked /\ seen'.stayed = seen.stayed
        /\ seen'.bad = seen.bad /\ seen'.torn = seen.torn
    BY <1>n, <2>1, <2>2 DEF Seen
  <2>5. Control'
    BY <2>1, <2>3
       DEF Control, RouteKept, PhaseFits, RouteFits, RecoveredHot, Switching
  <2>6. LooksFit'
    BY <2>1, <2>3, <2>4 DEF Clocks, LooksFit, LooksFitOf
  <2>7. HealthyFits'
    BY <2>3 DEF HealthyFits
  <2>8. Resided' /\ Earned'
    BY <2>1, <2>3, <2>4
       DEF Clocks, Resided, StayFits, Earned, ReturnIsEarned
  <2>9. Endured'
    BY <2>1, <2>3, <2>4 DEF Clocks, Endured, OutageFits, OutageFitsOf, Switching
  <2>10. QED
    BY <2>5, <2>6, <2>7, <2>8, <2>9 DEF Clocks
<1>3. QED
  BY <1>1, <1>2

(* The network and MAX touch none of this.                                 *)
LEMMA WorldFits ==
  ASSUME EInv, IInv',
         (\E r \in Route : ProbeChanges(r)) \/ ReadyChanges
           \/ ReauthChanges \/ UNCHANGED vars
  PROVE  EInv'
<1>1. /\ s' = s /\ disk' = disk /\ route' = route /\ pc' = pc
      /\ fresh' = fresh /\ target' = target
      /\ seen' = seen
  BY DEF ProbeChanges, ReadyChanges, ReauthChanges, vars, tick
<1>2. Control'
  BY <1>1 DEF EInv, Control, RouteKept, PhaseFits, RouteFits, RecoveredHot,
              Previous
<1>3. Clocks'
  BY <1>1 DEF EInv, Clocks, LooksFit, LooksFitOf, HealthyFits, Resided,
              StayFits, Endured, OutageFits, OutageFitsOf, Earned, ReturnIsEarned
<1>4. QED
  BY <1>2, <1>3 DEF EInv

(* Nothing has been seen or timed at first.                                *)
LEMMA EarnedAtFirst == Init => EInv
<1> SUFFICES ASSUME Init PROVE EInv
  OBVIOUS
<1>1. /\ s = NewState /\ disk = NewState /\ route = Primary
      /\ pc = "idle" /\ seen.looked = None
      /\ NewState.active = Primary /\ NewState.phase = "primary"
      /\ NewState.failed = None /\ NewState.healthy = None
      /\ NewState.probed = None
  BY DEF Init, NewState
<1>2. Primary # Fallback
  BY EgressAssumption
<1>3. Control
  BY <1>1 DEF Control, RouteKept, PhaseFits, RouteFits, RecoveredHot,
              Switching, Moving
<1>4. Clocks
  BY <1>1, <1>2 DEF Clocks, LooksFit, LooksFitOf, HealthyFits, Resided, StayFits,
                    Endured, OutageFits, OutageFitsOf, Earned, ReturnIsEarned,
                    Switching
<1>5. QED
  BY <1>3, <1>4, InitHolds DEF EInv

(* What was earned stays within what was seen, in every reachable state.   *)
LEMMA EarnedAlways == Spec => []EInv
<1>1. EInv /\ [Next]_vars => EInv'
  <2> SUFFICES ASSUME EInv, [Next]_vars PROVE EInv'
    OBVIOUS
  <2>1. IInv'
    BY NextKeeps DEF EInv
  <2>2. CASE TickStep
    BY <2>1, <2>2, LooksKeep, DecisionsKeep, BeginningKeeps DEF TickStep
  <2>3. CASE SwitchStep \/ NotClosed
    BY <2>1, <2>3, SwitchesKeep
  <2>4. CASE Second
    BY <2>1, <2>4, TimeKeeps
  <2>5. CASE Crash \/ Start
    BY <2>1, <2>5, ProcessFits
  <2>6. CASE (\E r \in Route : ProbeChanges(r)) \/ ReadyChanges
               \/ ReauthChanges \/ UNCHANGED vars
    BY <2>1, <2>6, WorldFits
  <2>7. QED
    BY <2>2, <2>3, <2>4, <2>5, <2>6 DEF Next
<1>2. QED
  BY <1>1, EarnedAtFirst, PTL DEF Spec

(* A failover begins only after looks, none of them late, that have found  *)
(* the primary down and MAX offline all along for failover_after_seconds   *)
(* (max_egress.py:216-233), whatever rollbacks, crashes and restarts came  *)
(* before, unless a crash fell into the report of an outage's end or of a  *)
(* restart (max_egress.py:199, 217), and provided the cooldown is at least *)
(* as long, as in the loader's defaults and config.yaml: failed_since      *)
(* outlives a return that ended in a restart, and then only the cooldown   *)
(* makes the next failover wait.                                           *)
THEOREM FailoversAreEarned ==
  Spec => [](FailoverAfter <= Cooldown => FailoverIsEarned)
<1>1. EInv => (FailoverAfter <= Cooldown => FailoverIsEarned)
  BY DEF EInv, Clocks, Endured, OutageFits, FailoverIsEarned, Switching
<1>2. QED
  BY <1>1, EarnedAlways, PTL

(* A return begins only when the primary has been found well for           *)
(* recovery_stable_seconds and the client has had the fallback for         *)
(* minimum_residence_seconds (max_egress.py:243-245), over crashes,        *)
(* restarts and rollbacks, provided the cooldown is at least as long as    *)
(* the residence, as in the loader's defaults and config.yaml: a rollback  *)
(* to the fallback does not set fallback_since anew.                       *)
THEOREM ReturnsAreEarned ==
  Spec => [](Residence <= Cooldown => ReturnIsEarned)
<1>1. EInv => (Residence <= Cooldown => ReturnIsEarned)
  BY DEF EInv, Clocks, Earned
<1>2. QED
  BY <1>1, EarnedAlways, PTL

=============================================================================
