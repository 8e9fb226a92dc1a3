------------------------------ MODULE MaxWatchdog ------------------------------
(***************************************************************************)
(* What the bridge does about a lost connection to MAX: the adapter        *)
(* reports its issue, the watchdog task polls the connection, probes the   *)
(* egress, warns, and in the end restarts the process; the supervisor      *)
(* starts failed workers again; and the health store keeps, over all of    *)
(* it, what the owner is shown and which alert is news.                    *)
(*                                                                         *)
(* The store writes without waiting, so a report is one step.  Sending an  *)
(* alert, probing and polling wait, and the connection may come and go.    *)
(***************************************************************************)
EXTENDS Integers

CONSTANTS Modes,         \* home, direct (the manual policy) or auto
          AlertAfter, SelfHealGrace, StartupGrace, Cooldown, ProbeInterval,
          MaxTime,       \* of the clock
          MaxLosses,     \* of the connection
          MaxFailures      \* crashes, failures of the worker

ASSUME WatchdogAssumption ==
  /\ Modes \subseteq {"home", "direct", "auto"}
  /\ AlertAfter \in Nat \ {0}
  /\ {SelfHealGrace, StartupGrace, Cooldown, ProbeInterval} \subseteq Nat
  /\ {MaxTime, MaxLosses, MaxFailures} \subseteq Nat

VARIABLES
  mode,      \* fallback_policy, and the route under the manual one
  worker,    \* the process's: down with it, starting, running, backoff
  now,
  link,      \* MaxAdapter.is_ready
  issue,     \* the adapter's last issue
  announced, \* the issue its handlers were last told of
  probed,    \* the adapter's last probe
  health,    \* health_state.json
  healFile,  \* max_egress_self_heal.json: when, if it can be read
  watch,     \* the watchdog task
  owed,      \* alerts that were decided on and are not yet sent
  told,      \* operators were warned since MAX was last ready
  lapsed,    \* a warning was lost since then, with the task that sent it
  downSince, \* MAX is offline since
  unseen,    \* it was ready meanwhile and no poll has seen it
  healed,    \* when a self-heal was last decided
  mishaps      \* the bounds

adapter == <<link, issue, announced>>
history == <<told, lapsed, downSince, unseen>>
watchdogVars == <<mode, worker, now, adapter, probed, health, healFile, watch, owed,
          history, healed, mishaps>>

Never == -1
NoCode == "none"
NoIssue == [code |-> NoCode, stamp |-> 0]
Manual == mode # "auto"

Asleep == [pc |-> "sleep", since |-> Never, elapsed |-> 0, alerted |-> FALSE,
           pending |-> FALSE, lastProbe |-> Never]

WatchdogInit ==
  /\ mode \in Modes
  /\ worker = "starting" /\ now = 0
  /\ link = FALSE /\ issue = NoCode /\ announced = NoCode
  /\ probed = NoCode
  /\ health = [status |-> "starting", issue |-> NoIssue, runtime |-> "recovering"]
  /\ healFile = Never /\ healed = Never
  /\ watch = Asleep
  /\ owed = {} /\ told = FALSE /\ lapsed = FALSE /\ unseen = FALSE
  /\ downSince = 0
  /\ mishaps = [losses |-> 0, faults |-> 0]

MaxMishaps == [losses |-> MaxLosses, faults |-> MaxFailures]
Mishap(what) ==
  mishaps[what] < MaxMishaps[what] /\ mishaps' = [mishaps EXCEPT ![what] = @ + 1]

-----------------------------------------------------------------------------
(* RuntimeHealthStore, its max_link.  An issue's signature holds its code  *)
(* and, where the summary names it, for how long MAX has been offline.     *)

Degraded(h, code, stamp) ==
  [h EXCEPT !.status = "degraded", !.issue = [code |-> code, stamp |-> stamp]]

IsNews(h, code, stamp) == h.issue # [code |-> code, stamp |-> stamp]

Healthy(h) == [h EXCEPT !.status = "healthy", !.issue = NoIssue]

-----------------------------------------------------------------------------
(* The adapter, and the two handlers of run_bridge_worker.                 *)

(* All of on_start up to the "recovered" alert.                            *)
ConnectKeepsSignature ==
  /\ worker = "running" /\ ~link
  /\ link' = TRUE /\ issue' = NoCode
  /\ health' = Healthy(health)
  /\ owed' = IF Manual /\ health.issue # NoIssue THEN owed \cup {"recovered"} ELSE owed
  /\ told' = FALSE /\ lapsed' = FALSE
  /\ unseen' = (watch.since # Never)
  /\ UNCHANGED <<mode, worker, now, announced, probed, healFile, watch, downSince,
                 healed, mishaps>>
Connect ==
  /\ worker = "running" /\ ~link
  /\ link' = TRUE /\ issue' = NoCode /\ announced' = NoCode
  /\ health' = Healthy(health)
  /\ owed' = IF Manual /\ health.issue # NoIssue THEN owed \cup {"recovered"} ELSE owed
  /\ told' = FALSE /\ lapsed' = FALSE
  /\ unseen' = (watch.since # Never)
  /\ UNCHANGED <<mode, worker, now, probed, healFile, watch, downSince, healed, mishaps>>

Lose ==
  /\ link /\ Mishap("losses")
  /\ link' = FALSE /\ downSince' = now
  /\ UNCHANGED <<mode, worker, now, issue, announced, probed, health, healFile,
                 watch, owed, told, lapsed, unseen, healed>>

(* An error that is no known issue changes nothing here; an issue the      *)
(* handlers were just told of is not told again.                           *)
StartFails(kind) ==
  /\ worker = "running" /\ ~link
  /\ issue' = kind /\ announced' = kind
  /\ IF announced = kind THEN UNCHANGED <<health, owed>>
     ELSE /\ health' = Degraded(health, kind, 0)
          /\ owed' = IF IsNews(health, kind, 0) /\ (Manual \/ kind = "reauth")
                     THEN owed \cup {"issue"} ELSE owed
  /\ UNCHANGED <<mode, worker, now, link, probed, healFile, watch, history,
                 healed, mishaps>>

Send(alert) ==
  /\ alert \in owed /\ owed' = owed \ {alert}
  /\ told' = (told \/ alert = "issue")
  /\ UNCHANGED <<mode, worker, now, adapter, probed, health, healFile, watch, lapsed,
                 downSince, unseen, healed, mishaps>>

-----------------------------------------------------------------------------
(* run_max_watchdog.                                                       *)

RestartAllowed == healFile = Never \/ now - healFile >= Cooldown

PersistManual == healFile' = IF Manual THEN now ELSE healFile

Persist == healFile' = now

(* Decided on, written down and reported in one step; the restart follows  *)
(* the alert.                                                              *)
Heal(w) ==
  /\ Persist /\ healed' = now
  /\ health' = IF Manual THEN Degraded(health, "self_heal", w.elapsed) ELSE health
  /\ watch' = [w EXCEPT !.pc = IF Manual /\ ~IsNews(health, "self_heal", w.elapsed)
                               THEN "exit" ELSE "heal"]

SeesReadyButAlerted ==
  /\ watch' = [Asleep EXCEPT !.alerted = watch.alerted]
  /\ unseen' = FALSE

SeesReady ==
  /\ watch' = Asleep
  /\ unseen' = FALSE

(* What a poll does with a probe it made, or with none.                    *)
Decide(w, fresh, h) ==
  LET probe == IF fresh # NoCode THEN fresh ELSE probed
      home == mode = "home"
      waits == home /\ probe = "bad" /\ w.elapsed < StartupGrace
      pends == home /\ probe = "ok" /\ w.elapsed < SelfHealGrace /\ RestartAllowed
      down == IF fresh = "bad" /\ w.elapsed >= StartupGrace
              THEN Degraded(h, "egress_unavailable", 0) ELSE h
  IN CASE w.alerted \/ w.elapsed < AlertAfter -> health' = down /\ watch' = w
       [] ~w.alerted /\ w.elapsed >= AlertAfter /\ waits ->
            health' = Degraded(down, "startup_wait", w.elapsed) /\ watch' = w
       [] ~w.alerted /\ w.elapsed >= AlertAfter /\ pends ->
            /\ health' = IF w.pending THEN down ELSE Degraded(down, "pending", w.elapsed)
            /\ watch' = [w EXCEPT !.pending = TRUE]
       [] OTHER ->
            IF issue # NoCode THEN health' = down /\ watch' = [w EXCEPT !.alerted = TRUE]
            ELSE /\ health' = Degraded(down, "link_offline", w.elapsed)
                 /\ watch' = [w EXCEPT !.alerted = TRUE,
                                       !.pc = IF IsNews(down, "link_offline", w.elapsed)
                                              THEN "tell" ELSE "sleep"]

Polls == worker = "running" /\ watch.pc = "sleep"

Noticed == LET since == IF watch.since = Never THEN now ELSE watch.since
           IN [watch EXCEPT !.since = since, !.elapsed = now - since]

ProbeDue == mode = "home" /\ (watch.lastProbe = Never \/ now - watch.lastProbe >= ProbeInterval)

PollReady ==
  /\ Polls /\ Manual /\ link
  /\ SeesReady
  /\ UNCHANGED <<mode, worker, now, adapter, probed, health, healFile, owed, told,
                 lapsed, downSince, healed, mishaps>>

PollOffline ==
  /\ Polls /\ Manual /\ ~link
  /\ IF ProbeDue
     THEN watch' = [Noticed EXCEPT !.pc = "probe", !.lastProbe = now] /\ UNCHANGED health
     ELSE Decide(Noticed, NoCode, health)
  /\ UNCHANGED <<mode, worker, now, adapter, probed, healFile, owed, history,
                 healed, mishaps>>

(* The probe takes a while; what the poll measured before it, it keeps.    *)
Probed(found) ==
  /\ watch.pc = "probe"
  /\ probed' = found
  /\ LET w == [watch EXCEPT !.pc = "sleep"]
     IN IF found = "ok" /\ w.elapsed >= SelfHealGrace /\ RestartAllowed THEN Heal(w)
        ELSE Decide(w, found, health) /\ UNCHANGED <<healFile, healed>>
  /\ UNCHANGED <<mode, worker, now, adapter, owed, history, mishaps>>

AutoHealthAlways(primary, phase) ==
  IF link /\ primary THEN Healthy(health)
  ELSE Degraded(health, IF link \/ phase = "waiting" THEN "egress_managed"
                        ELSE "egress_offline", 0)

(* Under the auto policy the controller's tick comes first; what it leaves *)
(* is read at once.  MaxEgress has the tick.                               *)
AutoHealth(primary, phase) ==
  IF issue = "reauth" THEN health
  ELSE IF link /\ primary THEN Healthy(health)
  ELSE Degraded(health, IF link \/ phase = "waiting" THEN "egress_managed"
                        ELSE "egress_offline", 0)

PollAuto(primary, phase, found) ==
  /\ Polls /\ mode = "auto"
  /\ probed' = found
  /\ unseen' = FALSE
  /\ IF ~link /\ found = "ok" /\ phase # "auth_blocked"
     THEN IF Noticed.elapsed >= SelfHealGrace /\ RestartAllowed
          THEN /\ Persist /\ healed' = now
               /\ watch' = [Noticed EXCEPT !.pc = "heal"]
          ELSE watch' = Noticed /\ UNCHANGED <<healFile, healed>>
     ELSE watch' = Asleep /\ UNCHANGED <<healFile, healed>>
  /\ health' = AutoHealth(primary, phase)
  /\ UNCHANGED <<mode, worker, now, adapter, owed, told, lapsed, downSince, mishaps>>

Tell ==
  /\ watch.pc = "tell"
  /\ watch' = [watch EXCEPT !.pc = "sleep"]
  /\ told' = TRUE
  /\ UNCHANGED <<mode, worker, now, adapter, probed, health, healFile, owed, lapsed,
                 downSince, unseen, healed, mishaps>>

-----------------------------------------------------------------------------
(* The worker, the supervisor and the process.                             *)

Stop(then) ==
  /\ worker' = then
  /\ link' = FALSE /\ issue' = NoCode /\ announced' = NoCode /\ probed' = NoCode
  /\ downSince' = IF link THEN now ELSE downSince
  /\ watch' = Asleep /\ owed' = {} /\ unseen' = FALSE

(* os._exit, after the alert and whether or not MAX is back meanwhile.     *)
Exit ==
  /\ watch.pc \in {"heal", "exit"}
  /\ Stop("down")
  /\ told' = (told \/ watch.pc = "heal") /\ lapsed' = (lapsed \/ "issue" \in owed)
  /\ UNCHANGED <<mode, now, health, healFile, healed, mishaps>>

Crash ==
  /\ worker # "down" /\ Mishap("faults")
  /\ Stop("down")
  /\ lapsed' = (lapsed \/ "issue" \in owed \/ watch.pc \in {"tell", "heal"})
  /\ UNCHANGED <<mode, now, health, healFile, told, healed>>

(* The file is written in place: a crash there leaves one that no process  *)
(* can read.                                                               *)
TornWrite ==
  /\ \/ watch.pc = "probe" /\ watch.elapsed >= SelfHealGrace
     \/ Polls /\ mode = "auto" /\ ~link /\ Noticed.elapsed >= SelfHealGrace
  /\ RestartAllowed
  /\ Mishap("faults")
  /\ Stop("down")
  /\ healFile' = Never
  /\ lapsed' = (lapsed \/ "issue" \in owed)
  /\ UNCHANGED <<mode, now, health, told, healed>>

ProcessStarts ==
  /\ worker = "down" /\ worker' = "starting"
  /\ health' = [health EXCEPT !.runtime = "recovering"]
  /\ UNCHANGED <<mode, now, adapter, probed, healFile, watch, owed, history, healed, mishaps>>

WorkerRuns ==
  /\ worker = "starting" /\ worker' = "running"
  /\ health' = [health EXCEPT !.runtime = "healthy"]
  /\ UNCHANGED <<mode, now, adapter, probed, healFile, watch, owed, history, healed, mishaps>>

(* One task's error ends them all.                                         *)
WorkerFails ==
  /\ worker \in {"starting", "running"} /\ Mishap("faults")
  /\ Stop("backoff")
  /\ health' = [health EXCEPT !.runtime = "degraded"]
  /\ lapsed' = (lapsed \/ "issue" \in owed \/ watch.pc \in {"tell", "heal"})
  /\ UNCHANGED <<mode, now, healFile, told, healed>>

WorkerRestarts ==
  /\ worker = "backoff" /\ worker' = "starting"
  /\ health' = [health EXCEPT !.runtime = "recovering"]
  /\ UNCHANGED <<mode, now, adapter, probed, healFile, watch, owed, history, healed, mishaps>>

-----------------------------------------------------------------------------
(* /status makes a probe of its own.                                       *)
Status(found) ==
  /\ worker = "running" /\ mode = "home"
  /\ probed' = found
  /\ UNCHANGED <<mode, worker, now, adapter, health, healFile, watch, owed, history,
                 healed, mishaps>>

Second ==
  /\ now < MaxTime /\ now' = now + 1
  /\ UNCHANGED <<mode, worker, adapter, probed, health, healFile, watch, owed,
                 history, healed, mishaps>>

WatchdogNext ==
  \/ Connect \/ Lose \/ PollReady \/ PollOffline \/ Tell \/ Exit
  \/ Crash \/ TornWrite \/ ProcessStarts \/ WorkerRuns \/ WorkerFails \/ WorkerRestarts
  \/ Second
  \/ \E found \in {"ok", "bad"} : Probed(found) \/ Status(found)
  \/ \E kind \in {"fault", "reauth"} : StartFails(kind)
  \/ \E alert \in {"issue", "recovered"} : Send(alert)
  \/ \E primary \in BOOLEAN, phase \in {"primary", "waiting", "auth_blocked"},
        found \in {"ok", "bad"} : PollAuto(primary, phase, found)

WatchdogSpec == WatchdogInit /\ [][WatchdogNext]_watchdogVars

-----------------------------------------------------------------------------
(* Properties.                                                             *)

(* Self-heals are decided on at least the cooldown apart, in whichever     *)
(* process, and though a crash may spoil the file that says so.            *)
RestartsAreSpaced ==
  [][healed' # healed /\ healed # Never => now - healed >= Cooldown]_watchdogVars

HasPolled(elapsed) ==
  /\ worker = "running" /\ watch.pc = "sleep" /\ ~link /\ ~unseen
  /\ watch.elapsed >= elapsed

(* Whatever was suppressed, and whichever of the adapter and the watchdog  *)
(* left it to the other: by the end of the threshold and the two graces an *)
(* outage has been told to the operators, unless a crash took the alert.   *)
LongOutageIsTold ==
  Manual /\ HasPolled(AlertAfter) /\ HasPolled(StartupGrace) /\ HasPolled(SelfHealGrace)
    => told \/ lapsed \/ "issue" \in owed

(* An outage that the watchdog has seen for that long is not shown healthy.*)
HealthIsHonest == HasPolled(AlertAfter) => health.status = "degraded"

(* Under the auto policy a need to log in again stays on show.             *)
ReauthIsNotMasked ==
  mode = "auto" /\ issue = "reauth" => health.issue.code = "reauth"

(* docs/roadmap.md:46: "health/status degraded если MAX недоступен > 60    *)
(* секунд", which a poll has had the time to see.                          *)
DegradedWhenDown ==
  [][worker = "running" /\ watch.pc = "sleep" /\ watch.since # Never /\ watch'.since # Never
       /\ ~link /\ watch'.pc = "sleep" /\ watch'.elapsed # watch.elapsed
       /\ now - downSince >= AlertAfter /\ watch'.elapsed >= AlertAfter
     => health'.status = "degraded"]_watchdogVars
=============================================================================
