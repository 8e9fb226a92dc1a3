------------------------------- MODULE MaxEgress -------------------------------
(***************************************************************************)
(* MaxEgressController: which of two network routes the MAX client uses.   *)
(* The watchdog calls tick(), which probes the routes and, when the        *)
(* primary has failed long enough, moves the client to the fallback, and   *)
(* back when the primary has been well long enough.                        *)
(*                                                                         *)
(* s is the controller's dictionary, disk its JSON file.  tick() runs in   *)
(* pieces: at every await the process may die, and s is then read back as  *)
(* it was last saved; _event saves before it sends anything.               *)
(*                                                                         *)
(* Times are distances from now, saturated where the code stops comparing: *)
(*   failed, healthy, stay, probed, reminded   how long ago, or None       *)
(*   cooldown                                  how long still              *)
(* Time passes between ticks, while a client is closed or connected, and   *)
(* while the process is down; probes and messages take none.               *)
(***************************************************************************)
EXTENDS Naturals

CONSTANTS Primary, Fallback, None,
          Interval,       \* probe_interval_seconds
          FailoverAfter,  \* failover_after_seconds
          Stable,         \* recovery_stable_seconds
          Residence,      \* minimum_residence_seconds
          Cooldown,       \* retry_cooldown_seconds
          ReminderEvery,  \* four hours
          MaxCrashes,     \* crashes that may happen
          MaxStalls       \* times the watchdog may be late for a probe

ASSUME EgressAssumption ==
  /\ Primary # Fallback
  /\ None \notin Nat
  /\ {Interval, FailoverAfter, Stable, Residence, Cooldown, ReminderEvery}
       \subseteq Nat \ {0}
  /\ MaxCrashes \in Nat
  /\ MaxStalls \in Nat

Route == {Primary, Fallback}
Gap == 3 * Interval   \* a longer monitoring gap proves nothing

VARIABLES
  s, disk,
  route,    \* the profile of the adapter
  ready,    \* MaxAdapter.is_ready()
  reauth,   \* the last issue asks for a new login
  up,       \* what a probe of each route would say
  pc,       \* where tick() waits
  fresh,    \* the first tick of this process is still to come
  target,   \* the route of the switch under way
  overdue,  \* a reminder was due when the tick began
  crashes, stalls,
  seen      \* what really happened, read by no code

vars == <<s, disk, route, ready, reauth, up, pc, fresh, target, overdue,
          crashes, stalls, seen>>
tick == <<target, overdue>>
env == <<ready, reauth, up>>
budget == <<crashes, stalls>>

Phase == {"primary", "waiting", "switching", "fallback", "returning",
          "rollback", "auth_blocked"}
Moving == {"switching", "returning", "rollback"}
Ago(n) == 0..n \cup {None}

State == [active: Route, phase: Phase,
          failed: Ago(FailoverAfter), healthy: Ago(Stable), stay: Ago(Residence),
          cooldown: 0..Cooldown, probed: Ago(Gap + 1),
          reminded: 0..ReminderEvery, failures: 0..2, announced: BOOLEAN]

(* bad and good: for how long every look at the primary has found it       *)
(* failed, or well; looked: since the last look; stayed: how long the      *)
(* adapter has had its route; spaced: since a switch was last begun; torn: *)
(* a crash kept the controller from forgetting an outage whose end it told *)
(* of, or from the look that follows the report of a restart.              *)
Seen == [bad: Ago(FailoverAfter), good: Ago(Stable), looked: Ago(Gap + 1),
         stayed: 0..Residence, spaced: 0..Cooldown, torn: BOOLEAN]

PC == {"idle", "looking", "recovered", "failing", "weighing", "last",
       "closing", "connecting", "reverting", "reconnecting", "down"}

TypeOK ==
  /\ s \in State /\ disk \in State
  /\ route \in Route
  /\ ready \in BOOLEAN /\ reauth \in BOOLEAN
  /\ up \in [Route -> BOOLEAN]
  /\ pc \in PC
  /\ fresh \in BOOLEAN
  /\ target \in Route
  /\ overdue \in BOOLEAN
  /\ crashes \in 0..MaxCrashes
  /\ stalls \in 0..MaxStalls
  /\ seen \in Seen

NewState ==
  [active |-> Primary, phase |-> "primary", failed |-> None, healthy |-> None,
   stay |-> None, cooldown |-> 0, probed |-> None, reminded |-> ReminderEvery,
   failures |-> 0, announced |-> FALSE]

Init ==
  /\ s = NewState /\ disk = NewState
  /\ route = Primary
  /\ ready \in BOOLEAN /\ reauth = FALSE
  /\ up \in [Route -> BOOLEAN]
  /\ pc = "idle" /\ fresh = TRUE /\ target = Primary
  /\ overdue = FALSE
  /\ crashes = 0 /\ stalls = 0
  /\ seen = [bad |-> None, good |-> None, looked |-> None,
             stayed |-> Residence, spaced |-> Cooldown, torn |-> FALSE]

-----------------------------------------------------------------------------
Since(t, n) == t # None /\ t >= n
Lesser(a, b) == IF a <= b THEN a ELSE b
Older(t, n) == IF t = None THEN None ELSE Lesser(t + 1, n)

Due == fresh \/ s.probed = None \/ Since(s.probed, Interval)

(* _event and the end of tick() save what they leave.                      *)
Save(t) == s' = t /\ disk' = t
Keep(t) == s' = t /\ disk' = disk

(* The first tick after a restart in the middle of a switch.  The adapter  *)
(* was already put on the saved route before its first client.             *)
Recover ==
  /\ pc = "idle" /\ fresh /\ s.phase \in Moving
  /\ Save([s EXCEPT !.phase = IF s.active = Fallback THEN "fallback"
                                                     ELSE "waiting",
                    !.cooldown = Cooldown])
  /\ pc' = "looking"
  /\ UNCHANGED <<route, env, fresh, tick, budget, seen>>

Unproven(t) ==
  IF Since(t.probed, Gap + 1)
  THEN [t EXCEPT !.failed = None, !.healthy = None, !.failures = 0]
  ELSE t

(* What every look at the primary found: the first tick of a process       *)
(* proves nothing about recovery.                                          *)
LookSeen(bad, good) ==
  LET known == ~Since(seen.looked, Gap + 1)
  IN  seen' = [seen EXCEPT
        !.bad = IF ~bad THEN None ELSE IF @ = None \/ ~known THEN 0 ELSE @,
        !.good = IF ~good THEN None ELSE IF @ = None \/ ~known THEN 0 ELSE @,
        !.looked = 0]

CanLook ==
  \/ pc = "idle" /\ Due /\ ~(fresh /\ s.phase \in Moving)
  \/ pc = "looking"

Looked == [Unproven(s) EXCEPT !.probed = 0]

(* MAX wants a new login: no route will help.                              *)
LookAuthBlocked ==
  /\ CanLook /\ reauth
  /\ Save([Looked EXCEPT !.phase = "auth_blocked", !.failed = None,
                         !.healthy = None, !.failures = 0])
  /\ LookSeen(FALSE, FALSE)
  /\ pc' = "idle" /\ fresh' = FALSE
  /\ UNCHANGED <<route, env, tick, budget>>

(* On the primary, and it answers or MAX is online.  An announced outage   *)
(* that ended is reported first, and only then forgotten.                  *)
ForgetOutage(t) == [t EXCEPT !.failed = None, !.failures = 0, !.phase = "primary"]

LookPrimaryWell ==
  /\ CanLook /\ ~reauth /\ s.active = Primary
  /\ up[Primary] \/ ready
  /\ LookSeen(FALSE, up[Primary])
  /\ IF s.announced /\ ready
     THEN Save(Looked) /\ pc' = "recovered"
     ELSE Save(ForgetOutage(Looked)) /\ pc' = "idle"
  /\ fresh' = FALSE
  /\ UNCHANGED <<route, env, tick, budget>>

(* Variant: the outage is reported to be over but not forgotten.           *)
ReportedOnly ==
  /\ pc = "recovered"
  /\ Save([s EXCEPT !.announced = FALSE, !.phase = "primary"])
  /\ pc' = "idle"
  /\ UNCHANGED <<route, env, fresh, tick, budget, seen>>

RecoveryReported ==
  /\ pc = "recovered"
  /\ Save([ForgetOutage(s) EXCEPT !.announced = FALSE])
  /\ pc' = "idle"
  /\ UNCHANGED <<route, env, fresh, tick, budget, seen>>

(* Variant: each failure starts the outage anew.                           *)
FailedAnew(t) == [t EXCEPT !.failed = 0, !.failures = Lesser(@ + 1, 2),
                           !.phase = "waiting"]

(* The second failure in a row is announced.                               *)
Announce(t) ==
  IF t.failures >= 2 /\ ~t.announced THEN Save([t EXCEPT !.announced = TRUE])
                                      ELSE Keep(t)

Failed(t) == [t EXCEPT !.failed = IF @ = None THEN 0 ELSE @,
                       !.failures = Lesser(@ + 1, 2), !.phase = "waiting"]

(* On the primary, and neither it nor MAX answers.                         *)
LookPrimaryFailed ==
  /\ CanLook /\ ~reauth /\ s.active = Primary
  /\ ~up[Primary] /\ ~ready
  /\ LookSeen(TRUE, FALSE)
  /\ Announce(Failed(Looked))
  /\ pc' = "failing" /\ fresh' = FALSE
  /\ UNCHANGED <<route, env, tick, budget>>

Well(t) == IF t.healthy = None THEN Save([t EXCEPT !.healthy = 0]) ELSE Keep(t)

(* On the fallback.                                                        *)
LookFallback ==
  /\ CanLook /\ ~reauth /\ s.active = Fallback
  /\ LookSeen(~up[Primary], up[Primary])
  /\ overdue' = (s.reminded >= ReminderEvery)
  /\ LET t == [Looked EXCEPT !.phase = "fallback"]
     IN  IF ~up[Primary]
         THEN Keep([t EXCEPT !.healthy = None]) /\ pc' = "last"
         ELSE Well(t) /\ pc' = "weighing"
  /\ fresh' = FALSE
  /\ UNCHANGED <<route, env, target, budget>>

-----------------------------------------------------------------------------
(* The decision, and _switch                                               *)

Begin(to, phase) ==
  /\ Save([s EXCEPT !.phase = phase, !.cooldown = Cooldown])
  /\ target' = to
  /\ pc' = "closing"
  /\ ready' = FALSE
  /\ seen' = [seen EXCEPT !.spaced = 0]
  /\ UNCHANGED <<route, reauth, up, fresh, overdue, budget>>

MayFailOver == Since(s.failed, FailoverAfter) /\ s.cooldown = 0

(* Variant: the primary is taken back as soon as it answers.               *)
MayReturnSoon == s.healthy # None /\ s.cooldown = 0

MayReturn ==
  /\ Since(s.healthy, Stable)
  /\ s.stay = None \/ Since(s.stay, Residence)
  /\ s.cooldown = 0

FailOver ==
  /\ pc = "failing" /\ MayFailOver /\ up[Fallback]
  /\ Begin(Fallback, "switching")

(* Both routes are down: the next attempt waits for the cooldown.          *)
NoRoute ==
  /\ pc = "failing" /\ MayFailOver /\ ~up[Fallback]
  /\ Save([s EXCEPT !.cooldown = Cooldown])
  /\ pc' = "idle"
  /\ UNCHANGED <<route, env, fresh, tick, budget, seen>>

KeepWaiting ==
  /\ pc = "failing" /\ ~MayFailOver
  /\ Save(s)
  /\ pc' = "idle"
  /\ UNCHANGED <<route, env, fresh, tick, budget, seen>>

Return ==
  /\ pc = "weighing" /\ MayReturn
  /\ Begin(Primary, "returning")

StayOnFallback ==
  /\ pc = "weighing" /\ ~MayReturn
  /\ Keep(s)
  /\ pc' = "last"
  /\ UNCHANGED <<route, env, fresh, tick, budget, seen>>

(* Variant: the new route is not saved.                                    *)
ClosedUnsaved ==
  /\ pc = "closing"
  /\ route' = target
  /\ Keep([s EXCEPT !.active = target])
  /\ seen' = [seen EXCEPT !.stayed = 0]
  /\ pc' = "connecting"
  /\ UNCHANGED <<env, fresh, tick, budget>>

(* adapter.switch_egress: the old client is closed, the route is set, and  *)
(* the controller saves it.                                                *)
Closed ==
  /\ pc = "closing"
  /\ route' = target
  /\ Save([s EXCEPT !.active = target])
  /\ seen' = [seen EXCEPT !.stayed = 0]
  /\ pc' = "connecting"
  /\ UNCHANGED <<env, fresh, tick, budget>>

(* The old client did not close: the process is restarted.                 *)
NotClosed ==
  /\ pc \in {"closing", "reverting"}
  /\ Save(s)
  /\ pc' = "down"
  /\ UNCHANGED <<route, env, fresh, tick, budget, seen>>

(* The branch that began the switch goes on: after a return, the probe of  *)
(* the fallback and the reminder; after a failover, the end of the tick.   *)
AfterSwitch == pc' = IF target = Primary THEN "last" ELSE "idle"

ConnectedFallback ==
  /\ pc = "connecting" /\ target = Fallback
  /\ ready /\ ~reauth
  /\ Save([s EXCEPT !.phase = "fallback", !.healthy = None, !.stay = 0,
                    !.reminded = 0])
  /\ AfterSwitch
  /\ UNCHANGED <<route, env, fresh, tick, budget, seen>>

ConnectedPrimary ==
  /\ pc = "connecting" /\ target = Primary
  /\ ready /\ ~reauth
  /\ Save([s EXCEPT !.phase = "primary", !.healthy = None, !.stay = None,
                    !.failed = None, !.failures = 0, !.announced = FALSE])
  /\ AfterSwitch
  /\ UNCHANGED <<route, env, fresh, tick, budget, seen>>

(* No connection in time, or MAX wants a login: back to where we were.     *)
NotConnected ==
  /\ pc = "connecting" /\ (~ready \/ reauth)
  /\ Save([s EXCEPT !.phase = "rollback"])
  /\ pc' = "reverting"
  /\ ready' = FALSE
  /\ UNCHANGED <<route, reauth, up, fresh, tick, budget, seen>>

Previous == IF target = Primary THEN Fallback ELSE Primary

Reverted ==
  /\ pc = "reverting"
  /\ route' = Previous
  /\ Save([s EXCEPT !.active = Previous])
  /\ seen' = [seen EXCEPT !.stayed = 0]
  /\ pc' = "reconnecting"
  /\ UNCHANGED <<env, fresh, tick, budget>>

(* Variants: nothing keeps the next attempt away; a phase no one knows.    *)
RolledBackHot ==
  /\ pc = "reconnecting"
  /\ Save([s EXCEPT !.phase = IF Previous = Fallback THEN "fallback"
                                                     ELSE "waiting",
                    !.healthy = None, !.cooldown = 0])
  /\ AfterSwitch
  /\ UNCHANGED <<route, env, fresh, tick, budget, seen>>

(* _wait_ready ends, whatever it found.                                    *)
RolledBack ==
  /\ pc = "reconnecting"
  /\ Save([s EXCEPT !.phase = IF Previous = Fallback THEN "fallback"
                                                     ELSE "waiting",
                    !.healthy = None, !.cooldown = Cooldown])
  /\ AfterSwitch
  /\ UNCHANGED <<route, env, fresh, tick, budget, seen>>

(* The end of the fallback branch: a reminder is due every four hours.     *)
Remind ==
  /\ pc = "last" /\ overdue
  /\ Save([s EXCEPT !.reminded = 0])
  /\ pc' = "idle"
  /\ UNCHANGED <<route, env, fresh, tick, budget, seen>>

NoReminder ==
  /\ pc = "last" /\ ~overdue
  /\ Save(s)
  /\ pc' = "idle"
  /\ UNCHANGED <<route, env, fresh, tick, budget, seen>>

TickStep ==
  \/ Recover
  \/ LookAuthBlocked \/ LookPrimaryWell \/ LookPrimaryFailed \/ LookFallback
  \/ RecoveryReported
  \/ FailOver \/ NoRoute \/ KeepWaiting
  \/ Return \/ StayOnFallback \/ Remind \/ NoReminder

SwitchStep ==
  \/ Closed \/ ConnectedFallback \/ ConnectedPrimary \/ NotConnected
  \/ Reverted \/ RolledBack

-----------------------------------------------------------------------------
(* Time, the network and the process                                       *)

Aged(t) ==
  [t EXCEPT !.failed = Older(@, FailoverAfter), !.healthy = Older(@, Stable),
            !.stay = Older(@, Residence), !.probed = Older(@, Gap + 1),
            !.cooldown = IF @ > 0 THEN @ - 1 ELSE 0,
            !.reminded = Lesser(@ + 1, ReminderEvery)]

AgedSeen(t) ==
  [t EXCEPT !.bad = Older(@, FailoverAfter), !.good = Older(@, Stable),
            !.looked = Older(@, Gap + 1),
            !.stayed = Lesser(@ + 1, Residence),
            !.spaced = Lesser(@ + 1, Cooldown)]

(* The watchdog wakes often enough to be in time for every probe, but for  *)
(* MaxStalls times, when the machine or the event loop stands still.       *)
Second ==
  /\ \/ pc \in {"closing", "connecting", "reverting", "reconnecting", "down"}
     \/ pc = "idle" /\ ~Due
     \/ pc = "idle" /\ Due /\ stalls < MaxStalls
  /\ stalls' = IF pc = "idle" /\ Due THEN stalls + 1 ELSE stalls
  /\ s' = Aged(s) /\ disk' = Aged(disk) /\ seen' = AgedSeen(seen)
  /\ UNCHANGED <<route, env, pc, fresh, tick, crashes>>

ProbeChanges(r) ==
  /\ up' = [up EXCEPT ![r] = ~@]
  /\ UNCHANGED <<s, disk, route, ready, reauth, pc, fresh, tick, budget, seen>>

(* No client is online while one is being closed or the process is down.   *)
ReadyChanges ==
  /\ pc \notin {"closing", "reverting", "down"}
  /\ ready' = ~ready
  /\ ready' => ~reauth
  /\ UNCHANGED <<s, disk, route, reauth, up, pc, fresh, tick, budget, seen>>

(* MAX refuses the session, or the operator has logged in again.           *)
ReauthChanges ==
  /\ reauth' = ~reauth
  /\ ready' = (ready /\ ~reauth')
  /\ UNCHANGED <<s, disk, route, up, pc, fresh, tick, budget, seen>>

Crash ==
  /\ pc # "down"
  /\ crashes < MaxCrashes
  /\ crashes' = crashes + 1
  /\ pc' = "down"
  /\ ready' = FALSE
  /\ seen' = [seen EXCEPT !.torn = @ \/ pc \in {"recovered", "looking"}]
  /\ UNCHANGED <<s, disk, route, reauth, up, fresh, tick, stalls>>

(* The file is read, recovery is to be proved anew, and the adapter gets   *)
(* the saved route before its first client.                                *)
Start ==
  /\ pc = "down"
  /\ s' = [disk EXCEPT !.healthy = None]
  /\ route' = disk.active
  /\ seen' = [seen EXCEPT !.stayed = IF route = disk.active THEN @ ELSE 0,
                          !.good = None]
  /\ pc' = "idle" /\ fresh' = TRUE /\ ready' = FALSE
  /\ UNCHANGED <<disk, reauth, up, tick, budget>>

Next ==
  \/ TickStep \/ SwitchStep \/ NotClosed
  \/ Second \/ Crash \/ Start
  \/ (\E r \in Route : ProbeChanges(r)) \/ ReadyChanges \/ ReauthChanges

Spec == Init /\ [][Next]_vars

(* The watchdog calls again, time passes, a switch ends one way or the     *)
(* other, and a stopped process is started.                                *)
Fairness ==
  /\ WF_vars(TickStep) /\ WF_vars(SwitchStep)
  /\ WF_vars(Second) /\ WF_vars(Start)

FairSpec == Spec /\ Fairness

-----------------------------------------------------------------------------
(* Properties                                                              *)

(* The route in use is the one the controller believes in, and the one a   *)
(* restart would restore, at every await of a switch.                      *)
RouteIsSaved ==
  pc # "down" => route = s.active /\ s.active = disk.active

(* A failover begins only when every look for FailoverAfter seconds, none  *)
(* of them late, has found the primary down and MAX offline, whatever      *)
(* returns, rollbacks, crashes and restarts came before; but for a crash   *)
(* while the end of an outage or a restart was being reported.             *)
FailoverIsEarned ==
  ~seen.torn /\ pc = "closing" /\ target = Fallback
    => Since(seen.bad, FailoverAfter)

(* Stated by the runbook: the outage has lasted without a break, over      *)
(* restarts too.                                                           *)
FailoverNeedsOutage ==
  pc = "closing" /\ target = Fallback => Since(seen.bad, FailoverAfter)

(* A return begins only when every look for Stable seconds has found the   *)
(* primary well and the client has had the fallback for Residence seconds, *)
(* restarts and rollbacks included.                                        *)
ReturnIsEarned ==
  pc = "closing" /\ target = Primary
    => Since(seen.good, Stable) /\ seen.stayed >= Residence

(* Two switches are Cooldown seconds apart, over restarts and rollbacks.   *)
SwitchesAreSpaced ==
  [][pc # "closing" /\ pc' = "closing" => seen.spaced >= Cooldown]_vars

(* When the primary and MAX on it stay down while the fallback answers,    *)
(* the client is put on the fallback, or on its way there, again and again *)
(* whatever restarts and rollbacks came before.                            *)
FailsOver ==
  <>[](~up[Primary] /\ up[Fallback] /\ ~reauth /\ ~(ready /\ route = Primary))
    => []<>(route = Fallback \/ (pc = "closing" /\ target = Fallback))
===============================================================================
