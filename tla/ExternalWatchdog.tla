---------------------------- MODULE ExternalWatchdog ----------------------------
(***************************************************************************)
(* The watchdog on another host.  Once a tick its loop looks at the bridge *)
(* over SSH, falls back on the last push it was sent, counts what it finds *)
(* and tells the owner.  Pushes are taken by a thread of their own.  A     *)
(* lock keeps a hand-run --once and the owner's check out of the cycle;    *)
(* the counters live in the memory of the loop and in a file.              *)
(***************************************************************************)
EXTENDS Integers, FiniteSets

CONSTANTS Watched,     \* the rules followed here, of Rules
          FailAfter,   \* looks in a row that make an alert, for each of them
          Conditions,  \* what a probe of the bridge's host may find
          Well,        \* the first of them
          StatusEvery, PushMaxAge, MaxSkew, DedupTtl,          \* in ticks
          MaxFlight,   \* pushes under way
          MaxChanges,  \* of the world
          MaxLapses   \* runs of --once, restarts of the observer, files not
                       \* written and messages not confirmed, together

HostRules == {"ssh_probe_failed", "container_down", "container_unhealthy",
              "heartbeat_stale", "disk_low", "status_api_unreachable"}
StatusRules == {"overall_degraded", "subsystem_issue", "alert_outbox_backlog",
                "queue_backlog", "egress_mode_unexpected"}
Rules == {"push_stale", "host_unreachable"} \cup HostRules \cup StatusRules

(* What a probe sees, and what the status API answers: the issue of the    *)
(* MAX link, another subsystem's, messages left in the outbox, an old item *)
(* in a queue, the route, and whether the controller of the routes works.  *)
Condition ==
  [running : BOOLEAN, healthy : BOOLEAN, beats : BOOLEAN, space : BOOLEAN,
   answers : BOOLEAN, link : {"ok", "degraded", "reauth"}, other : BOOLEAN,
   outbox : BOOLEAN, backlog : BOOLEAN, route : {"expected", "fallback", "other"},
   controller : {"off", "manages", "late"}]

ASSUME WatchdogAssumption ==
  /\ Watched \subseteq Rules
  /\ FailAfter \in [Watched -> Nat \ {0}]
  /\ Well \in Conditions /\ Conditions \subseteq Condition
  /\ {StatusEvery, PushMaxAge, MaxSkew, DedupTtl} \subseteq Nat \ {0}
  /\ {MaxFlight, MaxChanges, MaxLapses} \subseteq Nat

VARIABLES
  host, ssh,    \* reachable, and its probe answers
  bridge,       \* one of Conditions
  telegram,     \* reachable from the observer
  flight,       \* pushes under way, each with its age
  push,         \* push.json
  mem, disk,    \* the counters of the loop and of state.json
  once,         \* those a hand-run --once has loaded, or NoCopy
  due,          \* the loop has not looked in this tick
  unpolled,     \* ticks since the status API was last asked
  out,          \* messages of this tick
  heard,        \* ticks since the owner was last alerted, for each rule
  early,        \* rules alerted of again before DedupTtl was over
  steady,       \* ticks since the container last started or stopped
  spent         \* the bounds

world == <<host, ssh, bridge, telegram>>
observerVars == <<host, ssh, bridge, telegram, flight, push, mem, disk, once, due,
          unpolled, out, heard, early, steady, spent>>

NoPush == [sent |-> MaxSkew + 2, received |-> PushMaxAge + 1, probe |-> Well]
NoCopy == [loaded |-> FALSE]

Fresh == [fails |-> [r \in Watched |-> 0],
          since |-> [r \in Watched |-> DedupTtl],
          recovered |-> {}]

(* How old what a push says may be when it is last believed.               *)
Window == MaxSkew + PushMaxAge

Up(n, top) == IF n < top THEN n + 1 ELSE n

ObserverInit ==
  /\ host = TRUE /\ ssh = TRUE /\ telegram = TRUE
  /\ bridge = Well
  /\ flight = {} /\ push = NoPush
  /\ mem = Fresh /\ disk = Fresh /\ once = NoCopy
  /\ due = TRUE /\ unpolled = StatusEvery
  /\ out = {}
  /\ heard = [r \in Watched |-> DedupTtl]
  /\ steady = Window + 1
  /\ early = {}
  /\ spent = [changes |-> 0, once |-> 0, restarts |-> 0, faults |-> 0]

Afford(what) ==
  IF what = "changes" THEN spent.changes < MaxChanges
  ELSE spent.once + spent.restarts + spent.faults < MaxLapses
Spend(what) == spent' = [spent EXCEPT ![what] = @ + 1]

-----------------------------------------------------------------------------
(* What a look finds, and the rules it says nothing about.                 *)

PushIsStale == push.received > PushMaxAge

(* The probe of a look, as a set: over SSH, else the last push while it is *)
(* fresh, else none.                                                       *)
Probe == IF ~host THEN {}
         ELSE IF ssh THEN {bridge}
         ELSE IF PushIsStale THEN {} ELSE {push.probe}

(* A push always carries the answer of the status API.                     *)
HasStatus(p, asked) == p.answers /\ (asked \/ ~ssh)

StatusFinds(p) ==
  LET managed == p.controller = "manages"
      finds == [overall_degraded |-> p.other \/ (p.link # "ok" /\ ~managed),
                subsystem_issue |-> \/ p.other \/ p.link = "reauth"
                                    \/ p.link = "degraded" /\ ~managed
                                    \/ p.controller = "late",
                alert_outbox_backlog |-> p.outbox,
                queue_backlog |-> p.backlog,
                egress_mode_unexpected |-> \/ p.route = "other"
                                           \/ p.route = "fallback" /\ ~managed]
  IN {r \in StatusRules : finds[r]}

ProbeFinds(p, asked) ==
  (IF p.space THEN {} ELSE {"disk_low"})
  \cup IF ~p.running THEN {"container_down"}
       ELSE (IF p.healthy THEN {} ELSE {"container_unhealthy"})
            \cup (IF p.beats THEN {} ELSE {"heartbeat_stale"})
            \cup (IF HasStatus(p, asked) THEN StatusFinds(p)
                  ELSE IF asked THEN {"status_api_unreachable"} ELSE {})

ProbeSkips(p, asked) ==
  IF ~p.running
  THEN {"container_unhealthy", "heartbeat_stale", "status_api_unreachable"}
       \cup StatusRules
  ELSE IF HasStatus(p, asked) THEN {}
       ELSE StatusRules \cup (IF asked THEN {} ELSE {"status_api_unreachable"})

Found(asked) ==
  (IF PushIsStale THEN {"push_stale"} ELSE {})
  \cup (IF host THEN {} ELSE {"host_unreachable"})
  \cup (IF host /\ ~ssh THEN {"ssh_probe_failed"} ELSE {})
  \cup UNION {ProbeFinds(p, asked) : p \in Probe}

Skipped(asked) ==
  IF ~host THEN HostRules \cup StatusRules
  ELSE IF Probe = {} THEN (HostRules \ {"ssh_probe_failed"}) \cup StatusRules
  ELSE UNION {ProbeSkips(p, asked) : p \in Probe}

-----------------------------------------------------------------------------
CountForgetsSkipped(m, asked) ==
  [r \in Watched |-> IF r \in Found(asked) \ Skipped(asked)
                     THEN Up(m.fails[r], FailAfter[r]) ELSE 0]

(* One cycle with the counters m: a rule alerts while its count is full,   *)
(* and recovers at the first look that does not find it.                   *)

Count(m, asked) ==
  [r \in Watched |-> IF r \in Skipped(asked) THEN m.fails[r]
                     ELSE IF r \in Found(asked)
                          THEN Up(m.fails[r], FailAfter[r]) ELSE 0]

NewAlerts(m, asked) ==
  {r \in Watched : /\ r \in Found(asked) \ Skipped(asked)
                   /\ Count(m, asked)[r] = FailAfter[r]
                   /\ m.since[r] = DedupTtl}

Recoveries(m, asked) ==
  {r \in Watched : /\ r \notin Found(asked) \cup Skipped(asked)
                   /\ m.fails[r] = FailAfter[r]
                   /\ r \notin m.recovered}

Messages(m, asked) ==
  ({"alert"} \X NewAlerts(m, asked)) \cup ({"recovery"} \X Recoveries(m, asked))

(* What is not confirmed is not marked as sent.                            *)
After(m, asked, confirmed) ==
  [fails |-> Count(m, asked),
   since |-> [r \in Watched |->
                IF confirmed /\ r \in NewAlerts(m, asked) THEN 0 ELSE m.since[r]],
   recovered |-> m.recovered
                   \cup (IF confirmed THEN Recoveries(m, asked) ELSE {})]

(* Telegram may take a message whose answer never comes.                   *)
Tell(m, asked, confirmed, unsure) ==
  /\ confirmed = telegram
  /\ unsure => ~telegram
  /\ out' = out \cup (IF confirmed \/ unsure THEN Messages(m, asked) ELSE {})
  /\ LET told == IF confirmed \/ unsure THEN NewAlerts(m, asked) ELSE {}
     IN /\ heard' = [r \in Watched |-> IF r \in told THEN 0 ELSE heard[r]]
        /\ early' = early \cup {r \in told : heard[r] < DedupTtl}

Faulty(happens) ==
  IF happens THEN Afford("faults") /\ Spend("faults") ELSE UNCHANGED spent

CycleSavesFirst ==
  /\ due
  /\ \E unsaved, unsure \in BOOLEAN :
       LET asked == unpolled >= StatusEvery
       IN /\ ~(unsaved /\ unsure)
          /\ Tell(mem, asked, telegram, unsure)
          /\ mem' = After(mem, asked, telegram)
          /\ disk' = IF unsaved THEN disk ELSE After(mem, asked, FALSE)
          /\ unpolled' = IF asked THEN 0 ELSE unpolled
          /\ Faulty(unsaved \/ unsure)
  /\ due' = FALSE
  /\ UNCHANGED <<world, flight, push, once, steady>>

(* The loop of the process.  A file that cannot be written is not noticed. *)
Cycle ==
  /\ due
  /\ \E unsaved, unsure \in BOOLEAN :
       LET asked == unpolled >= StatusEvery
           next == After(mem, asked, telegram)
       IN /\ ~(unsaved /\ unsure)
          /\ Tell(mem, asked, telegram, unsure)
          /\ mem' = next
          /\ disk' = IF unsaved THEN disk ELSE next
          /\ unpolled' = IF asked THEN 0 ELSE unpolled
          /\ Faulty(unsaved \/ unsure)
  /\ due' = FALSE
  /\ UNCHANGED <<world, flight, push, once, steady>>

(* The owner's check, or a --once, has the lock, which is not waited for.   *)
Skip ==
  /\ due
  /\ due' = FALSE
  /\ UNCHANGED <<world, flight, push, mem, disk, once, unpolled, out,
                 heard, early, steady, spent>>

(* --once reads the file before it takes the lock, and asks for the status.*)
OnceLoads ==
  /\ once = NoCopy /\ Afford("once") /\ Spend("once")
  /\ once' = [loaded |-> TRUE, copy |-> disk]
  /\ UNCHANGED <<world, flight, push, mem, disk, due, unpolled, out,
                 heard, early, steady>>

OnceRuns ==
  /\ once # NoCopy
  /\ once' = NoCopy
  /\ \/ UNCHANGED <<out, heard, early, disk>>  \* the lock is taken
     \/ /\ Tell(once.copy, TRUE, telegram, FALSE)
        /\ disk' = After(once.copy, TRUE, telegram)
  /\ UNCHANGED <<world, flight, push, mem, due, unpolled, steady, spent>>

(* The observer's container starts again; push.json is its own file.       *)
Restart ==
  /\ Afford("restarts") /\ Spend("restarts")
  /\ mem' = disk /\ unpolled' = StatusEvery
  /\ due' = TRUE
  /\ UNCHANGED <<world, flight, push, disk, once, out, heard, early, steady>>

-----------------------------------------------------------------------------
(* The other direction: the host sends what it probes.                     *)

Send ==
  /\ host /\ Cardinality(flight) < MaxFlight
  /\ flight' = flight \cup {[age |-> 0, probe |-> bridge]}
  /\ flight' # flight
  /\ UNCHANGED <<world, push, mem, disk, once, due, unpolled, out,
                 heard, early, steady, spent>>

AnyTime(p) == TRUE
InTime(p) == p.age <= MaxSkew
IsNews(p) == p.age < push.sent

(* The push that arrives need not be the oldest, or the youngest.          *)
Receive(p) ==
  /\ p \in flight
  /\ flight' = flight \ {p}
  /\ push' = IF InTime(p) /\ IsNews(p)
             THEN [sent |-> p.age, received |-> 0, probe |-> p.probe]
             ELSE push
  /\ UNCHANGED <<world, mem, disk, once, due, unpolled, out, heard, early,
                 steady, spent>>

(* The world, and its time: a tick is one poll of the loop.                *)
Change ==
  /\ Afford("changes") /\ Spend("changes")
  /\ \/ host' = ~host /\ UNCHANGED <<ssh, bridge, telegram, steady>>
     \/ ssh' = ~ssh /\ UNCHANGED <<host, bridge, telegram, steady>>
     \/ telegram' = ~telegram /\ UNCHANGED <<host, ssh, bridge, steady>>
     \/ /\ bridge' \in Conditions \ {bridge}
        /\ steady' = IF bridge'.running # bridge.running THEN 0 ELSE steady
        /\ UNCHANGED <<host, ssh, telegram>>
  /\ UNCHANGED <<flight, push, mem, disk, once, due, unpolled, out, heard, early>>

Aged(m) == [m EXCEPT !.since = [r \in Watched |-> Up(@[r], DedupTtl)],
                     !.recovered = {}]

Tick ==
  /\ ~due /\ once = NoCopy
  /\ due' = TRUE /\ out' = {}
  /\ mem' = Aged(mem) /\ disk' = Aged(disk)
  /\ flight' = {[p EXCEPT !.age = Up(@, MaxSkew + 1)] : p \in flight}
  /\ push' = [push EXCEPT !.sent = Up(@, MaxSkew + 2),
                          !.received = Up(@, PushMaxAge + 1)]
  /\ unpolled' = Up(unpolled, StatusEvery)
  /\ heard' = [r \in Watched |-> Up(heard[r], DedupTtl)]
  /\ steady' = Up(steady, Window + 1)
  /\ UNCHANGED <<world, once, early, spent>>

ObserverNext ==
  \/ Cycle \/ Skip \/ OnceLoads \/ OnceRuns \/ Restart
  \/ Send \/ Change \/ Tick
  \/ \E p \in flight : Receive(p)

ObserverSpec == ObserverInit /\ [][ObserverNext]_observerVars

(* Time passes, the loop looks, and checks do not fill every poll.         *)
ObserverFairSpec ==
  /\ ObserverSpec
  /\ WF_observerVars(Tick) /\ WF_observerVars(Skip) /\ SF_observerVars(Cycle)
  /\ WF_observerVars(OnceRuns)

-----------------------------------------------------------------------------
(* Properties.                                                             *)

(* Messages that say the container stopped, or runs again, are about a     *)
(* state it was in no longer ago than a push may be late and then believed.*)
MessagesAreRecent ==
  /\ <<"alert", "container_down">> \in out => ~bridge.running \/ steady <= Window
  /\ <<"recovery", "container_down">> \in out => bridge.running \/ steady <= Window

(* The owner is not alerted of a rule again before the time set for it is  *)
(* over, whatever recovers, restarts or is not known in between; unless a  *)
(* file was not written, an answer was lost, or --once was run.            *)
AlertsAreSpaced == spent.faults = 0 /\ spent.once = 0 => early = {}

(* As docs/runbooks/watchdog.md:301 has it, --once beside the running loop *)
(* makes no second copy of a message.                                      *)
OnceAddsNoCopy == spent.faults = 0 => early = {}

(* A container that stays down, and a login that stays lost whatever the   *)
(* controller of the routes does, are told, and told again, while the host *)
(* answers and Telegram takes it.                                          *)
Watching == host /\ ssh /\ telegram
LoginIsLost == bridge.running /\ bridge.answers /\ bridge.link = "reauth"
Told(r) == <<"alert", r>> \in out
ProblemsAreReported ==
  /\ <>[](Watching /\ ~bridge.running) => []<>Told("container_down")
  /\ <>[](Watching /\ LoginIsLost) => []<>Told("subsystem_issue")
=============================================================================
