----------------------------- MODULE MaxConnection -----------------------------
(***************************************************************************)
(* The connection to MAX: the lifecycle that makes one client after        *)
(* another, the switch that moves it to another egress route, the gate     *)
(* that every call to MAX passes, and the session file with its backups.   *)
(*                                                                         *)
(* A switch closes the gate, waits for the calls inside it, cancels those  *)
(* that take too long, stops the lifecycle, closes the client, and opens   *)
(* the gate under a new generation.  When any of it fails the process is   *)
(* restarted.  When the worker fails, as by a close that fails between two *)
(* clients, the supervisor starts another in the same process, and what    *)
(* the first could not close lives on.  All of this runs while connections *)
(* drop, sends force a reconnect, and calls wait at the gate with the      *)
(* client they were given.                                                 *)
(***************************************************************************)
EXTENDS Integers, FiniteSets

CONSTANTS Calls,        \* calls to MAX, each made again and again
          Download,     \* one of them: a download, which has no client
          Clients,
          None,
          MaxSwitches,
          MaxDrops,     \* lost connections, failed starts, forced reconnects
          MaxDamages,   \* of the session file
          MaxReauths,
          MaxFaults,    \* failures of the worker, restarts of the process
          MaxStrays     \* clients left alive that nobody has any more

ASSUME ConnectionAssumption ==
  /\ Download \in Calls
  /\ None \notin Clients
  /\ IsFiniteSet(Clients)
  /\ Cardinality(Clients) > MaxStrays + 1
  /\ {MaxSwitches, MaxDrops, MaxDamages, MaxReauths, MaxFaults, MaxStrays}
       \subseteq Nat

Routes == {"primary", "fallback"}

VARIABLES
  auto,     \* fallback_policy is "auto", not "manual"
  up,       \* a worker runs
  gate,     \* OperationGate: open, generation
  call,     \* what each call is doing, for whom, admitted under which route
  client,   \* connection.client
  started,  \* connection.started
  port,     \* the clients that were made
  life,     \* the lifecycle task; stuck: the close at the worker's end hangs
  switch,   \* switch_egress
  resume,   \* the adapter may start a lifecycle
  route,    \* of the backend and of the downloads
  file,     \* session.db
  snap,     \* the newest backup
  accepted, \* the token MAX accepts
  seen,     \* the newest token that has connected
  spent     \* the bounds

session == <<file, snap, accepted, seen>>
vars == <<auto, up, gate, call, client, started, port, life, switch, resume,
          route, session, spent>>

-----------------------------------------------------------------------------
Away == [st |-> "none", route |-> "primary", gen |-> 0]
Stray == [Away EXCEPT !.st = "stray"]
NoCall == [pc |-> "idle", gen |-> 0, route |-> "primary"]

(* An adapter before its start.                                            *)
NewAdapter ==
  /\ gate = [open |-> TRUE, gen |-> 0]
  /\ client = None /\ started = FALSE
  /\ switch = "idle" /\ resume = TRUE

Fresh ==
  /\ NewAdapter
  /\ call = [o \in Calls |-> NoCall]
  /\ port = [c \in Clients |-> Away]
  /\ life = "off"

Bounds == [switches |-> MaxSwitches, drops |-> MaxDrops, damages |-> MaxDamages,
           reauths |-> MaxReauths, faults |-> MaxFaults, strays |-> MaxStrays]

(* A session imported from the first version of the library has an auth    *)
(* table; one that was made by the second has not.                         *)
Init ==
  /\ auto \in BOOLEAN
  /\ up = TRUE
  /\ Fresh
  /\ route = "primary"
  /\ \E old \in BOOLEAN :
       file = [state |-> "good", auth |-> IF old THEN 1 ELSE 0,
               login |-> IF old THEN 0 ELSE 1]
  /\ snap = None
  /\ accepted = 1
  /\ seen = 0
  /\ spent = [w \in DOMAIN Bounds |-> 0]

Spend(S) ==
  /\ \A w \in S : spent[w] < Bounds[w]
  /\ spent' = [w \in DOMAIN Bounds |-> spent[w] + (IF w \in S THEN 1 ELSE 0)]

-----------------------------------------------------------------------------
(* MaxSessionStore                                                         *)

IsValid(f) == f.state = "good" /\ f.auth > 0

(* A damaged header is rebuilt when the auth row can be read; a file that  *)
(* is still no valid session makes room for the newest backup.             *)
Recovered(f) ==
  LET repaired == [f EXCEPT !.state = "good"]
  IN CASE IsValid(f) -> f
       [] ~IsValid(f) /\ f.state = "header" /\ IsValid(repaired) -> repaired
       [] OTHER -> IF snap = None THEN f ELSE snap

(* A copy is kept when its auth row differs from the newest copy's.        *)
Backup(f) ==
  IF IsValid(f) /\ (snap = None \/ snap.auth # f.auth) THEN f ELSE snap

Token(f) ==
  CASE f.state # "good" -> 0
    [] f.state = "good" /\ f.login > 0 -> f.login
    [] OTHER -> f.auth

Damage ==
  /\ Spend({"damages"})
  /\ \E s \in {"header", "unreadable", "missing"} : file' = [file EXCEPT !.state = s]
  /\ UNCHANGED <<auto, up, gate, call, client, started, port, life, switch,
                 resume,
                 route, snap, accepted, seen>>

(* MAX drops the token; the owner stops the bridge and logs in by SMS.     *)
Reauth ==
  /\ ~up
  /\ port' = [c \in Clients |-> Away] /\ call' = [o \in Calls |-> NoCall]
  /\ life' = "off"
  /\ Spend({"reauths"})
  /\ file.state \in {"good", "missing"}
  /\ accepted' = accepted + 1
  /\ file' = [state |-> "good", login |-> accepted + 1,
              auth |-> IF file.state = "good" THEN file.auth ELSE 0]
  /\ UNCHANGED <<auto, up, gate, client, started, switch, resume, route, snap,
                 seen>>

-----------------------------------------------------------------------------
(* MaxLifecycleService.start, inside MaxAdapter.start.                     *)

Strays == {c \in Clients : port[c].st = "stray"}
Live == Strays \cup {c \in Clients : port[c].st \in {"new", "up"}}
InUse == {client} \cup Live

Gone(c) == [port EXCEPT ![c] = Away]

Launch ==
  /\ up /\ life = "off" /\ resume
  /\ life' = "loop"
  /\ UNCHANGED <<auto, up, gate, call, client, started, port, switch, resume,
                 route,
                 session, spent>>

(* What becomes of a client that is dropped without a close.  One whose    *)
(* start had raised may live on.                                           *)
Dropped(after) ==
  \/ after = Away /\ UNCHANGED spent
  \/ client \in Live /\ after = Stray /\ Spend({"strays"})

(* The session is recovered and a client made without an await.  Under the *)
(* manual policy it takes the place of one that nobody has closed.         *)
MakeClient ==
  /\ life = "loop"
  /\ gate.open
  /\ file' = Recovered(file)
  /\ \E after \in {Away, Stray} :
       LET c == CHOOSE c \in Clients : c \notin InUse
           last == IF client = None THEN port ELSE [port EXCEPT ![client] = after]
       IN /\ Dropped(after)
          /\ client' = c
          /\ port' = [last EXCEPT ![c] = [st |-> "new", route |-> route, gen |-> gate.gen]]
  /\ life' = "starting"
  /\ UNCHANGED <<auto, up, gate, call, started, switch, resume, route, snap,
                 accepted, seen>>

(* The library reads the token, and writes an imported one back.           *)
Login ==
  /\ life = "starting"
  /\ client # None /\ port[client].st = "new"
  /\ IF Token(file) = accepted
     THEN /\ port' = [port EXCEPT ![client].st = "up"]
          /\ file' = [file EXCEPT !.login = accepted]
          /\ UNCHANGED life
     ELSE life' = "ending" /\ UNCHANGED <<port, file>>
  /\ UNCHANGED <<auto, up, gate, call, client, started, switch, resume, route,
                 snap,
                 accepted, seen, spent>>

(* _on_start                                                               *)
OnStart ==
  /\ life = "starting"
  /\ client # None /\ port[client].st = "up"
  /\ started' = TRUE
  /\ snap' = Backup(file)
  /\ seen' = accepted
  /\ life' = "up"
  /\ UNCHANGED <<auto, up, gate, call, client, port, switch, resume, route, file,
                 accepted, spent>>

(* _on_disconnect                                                          *)
Drop ==
  /\ client # None /\ port[client].st = "up"
  /\ Spend({"drops"})
  /\ port' = [port EXCEPT ![client].st = "lost"]
  /\ started' = FALSE
  /\ UNCHANGED <<auto, up, gate, call, client, life, switch, resume, route,
                 session>>

(* The ping loop closes a silent client, and tells nobody.                 *)
PingsFail ==
  /\ client # None /\ port[client].st = "up"
  /\ Spend({"drops"})
  /\ port' = [port EXCEPT ![client].st = "lost"]
  /\ UNCHANGED <<auto, up, gate, call, client, started, life, switch, resume,
                 route, session>>

(* A start that fails leaves a client that was never closed.               *)
StartRaised ==
  /\ life = "starting"
  /\ Spend({"drops"})
  /\ life' = "ending"
  /\ UNCHANGED <<auto, up, gate, call, client, started, port, switch, resume,
                 route, session>>

(* _force_reconnect_after_transport_error, outside the gate; a close that  *)
(* fails leaves a connection that is up and counts for nothing.            *)
ForceReconnect ==
  /\ up /\ client # None
  /\ Spend({"drops"})
  /\ started' = FALSE
  /\ \E closes \in BOOLEAN :
       port' = IF closes /\ port[client].st = "up" THEN [port EXCEPT ![client].st = "lost"]
               ELSE port
  /\ UNCHANGED <<auto, up, gate, call, client, life, switch, resume, route,
                 session>>

StartReturned ==
  /\ life \in {"starting", "up"}
  /\ client = None \/ port[client].st = "lost"
  /\ life' = "ending"
  /\ UNCHANGED <<auto, up, gate, call, client, started, port, switch, resume,
                 route,
                 session, spent>>

(* Variant: the next client is made without closing the last one.          *)
LeaveLast ==
  /\ life = "ending"
  /\ client' = None /\ started' = FALSE
  /\ life' = "sleep"
  /\ UNCHANGED <<auto, up, gate, call, port, switch, resume, route, session,
                 spent>>

(* A close that raises or is not back in five seconds fails the worker     *)
(* instead (WorkerDies).  Under the manual policy nothing is closed.      *)
CloseLast ==
  /\ life = "ending"
  /\ IF auto THEN /\ port' = IF client = None THEN port ELSE Gone(client)
                  /\ client' = None
             ELSE UNCHANGED <<port, client>>
  /\ started' = FALSE
  /\ life' = "sleep"
  /\ UNCHANGED <<auto, up, gate, call, switch, resume, route, session, spent>>

Reconnect ==
  /\ life = "sleep"
  /\ life' = "loop"
  /\ UNCHANGED <<auto, up, gate, call, client, started, port, switch, resume,
                 route,
                 session, spent>>

-----------------------------------------------------------------------------
(* OperationGate.run.  Under the manual policy no call asks the gate: it   *)
(* is open and its generation the same for ever.                           *)

Others == UNCHANGED <<auto, up, gate, client, started, port, life, switch, resume,
                      route, session>>

(* A call is made on the client of the moment, a download on none.         *)
Begin(o) ==
  /\ up /\ call[o].pc = "idle"
  /\ o = Download \/ client # None
  /\ call' = [call EXCEPT ![o] =
                IF o = Download THEN [NoCall EXCEPT !.pc = "wait"]
                ELSE [pc |-> "wait", gen |-> port[client].gen,
                      route |-> port[client].route]]
  /\ UNCHANGED spent /\ Others

(* Variant: the generation is not asked for.                               *)
AdmitAny(o) ==
  /\ call[o].pc = "wait" /\ gate.open
  /\ call' = [call EXCEPT ![o].pc = "in",
                          ![o].route = IF o = Download THEN route ELSE @]
  /\ UNCHANGED spent /\ Others

Admit(o) ==
  /\ call[o].pc = "wait" /\ gate.open
  /\ call' = [call EXCEPT ![o] =
                IF o = Download THEN [@ EXCEPT !.pc = "in", !.route = route]
                ELSE IF @.gen = gate.gen THEN [@ EXCEPT !.pc = "in"]
                ELSE NoCall]
  /\ UNCHANGED spent /\ Others

(* It ends, or its caller gives up.                                        *)
End(o) ==
  /\ call[o].pc # "idle"
  /\ call' = [call EXCEPT ![o] = NoCall]
  /\ UNCHANGED spent /\ Others

Inside == {o \in Calls : call[o].pc \in {"in", "cancelled"}}

-----------------------------------------------------------------------------
(* MaxAdapter.switch_egress, which only the controller calls.              *)

StartSwitch ==
  /\ auto
  /\ up /\ switch = "idle"
  /\ Spend({"switches"})
  /\ resume' = FALSE
  /\ gate' = [gate EXCEPT !.open = FALSE]
  /\ switch' = "drain"
  /\ UNCHANGED <<auto, up, call, client, started, port, life, route, session>>

Drained ==
  /\ switch = "drain" /\ Inside = {}
  /\ switch' = "stop"
  /\ UNCHANGED <<auto, up, gate, call, client, started, port, life, resume, route,
                 session, spent>>

(* Variant: drain waits as long as it takes.                               *)
DrainWaits == FALSE /\ UNCHANGED vars

DrainTimeout ==
  /\ switch = "drain"
  /\ \E o \in Calls : call[o].pc = "in"
  /\ call' = [o \in Calls |->
                IF call[o].pc = "in" THEN [call[o] EXCEPT !.pc = "cancelled"] ELSE call[o]]
  /\ UNCHANGED <<auto, up, gate, client, started, port, life, switch, resume,
                 route,
                 session, spent>>

(* The lifecycle is cancelled; the adapter waits to start another.         *)
StopLifecycle ==
  /\ switch = "stop"
  /\ life' = "off"
  /\ started' = FALSE
  /\ switch' = "close"
  /\ UNCHANGED <<auto, up, gate, call, client, port, resume, route, session,
                 spent>>

(* Variant: the adapter is not told to go on.                              *)
FinishSilently ==
  /\ switch = "close"
  /\ port' = IF client = None THEN port ELSE Gone(client)
  /\ client' = None
  /\ \E r \in Routes \ {route} : route' = r
  /\ gate' = [open |-> TRUE, gen |-> gate.gen + 1]
  /\ switch' = "idle"
  /\ UNCHANGED <<auto, up, call, started, life, resume, session, spent>>

FinishSwitch ==
  /\ switch = "close"
  /\ port' = IF client = None THEN port ELSE Gone(client)
  /\ client' = None
  /\ \E r \in Routes \ {route} : route' = r
  /\ gate' = [open |-> TRUE, gen |-> gate.gen + 1]
  /\ resume' = TRUE
  /\ switch' = "idle"
  /\ UNCHANGED <<auto, up, call, started, life, session, spent>>

-----------------------------------------------------------------------------
(* The next worker has an adapter of its own.                              *)
Renewed ==
  /\ up' = FALSE
  /\ gate' = [open |-> TRUE, gen |-> 0]
  /\ client' = None /\ started' = FALSE
  /\ switch' = "idle" /\ resume' = TRUE
  /\ UNCHANGED <<auto, route, session>>

(* A task of the worker raises, the lifecycle's failed close among them:   *)
(* the others are cancelled and the adapter is closed, which swallows what *)
(* the close raises and waits for it as long as it takes.  Then comes a    *)
(* new adapter.  A call of the old one may go on.                          *)
WorkerDies ==
  /\ up
  /\ Renewed
  /\ \E after \in {Away, Stray} :
       /\ port' = [c \in Clients |-> CASE c = client -> after
                                       [] c # client /\ c \in Strays -> Stray
                                       [] OTHER -> Away]
       /\ \/ after = Away /\ Spend({"faults"})
          \/ after = Stray /\ client \in Live /\ Spend({"faults", "strays"})
  /\ life' \in IF client = None THEN {"off"} ELSE {"off", "stuck"}
  /\ \E on \in SUBSET {o \in Calls : call[o].pc \in {"in", "cancelled", "adrift"}} :
       call' = [o \in Calls |->
                  IF o \in on THEN [NoCall EXCEPT !.pc = "adrift", !.route = call[o].route]
                  ELSE NoCall]

(* A client that nobody has ends.  If it is of this adapter, its           *)
(* _on_disconnect speaks of the connection that is up.                     *)
StrayEnds(c) ==
  /\ c \in Strays
  /\ port' = Gone(c)
  /\ started' \in IF auto THEN {started} ELSE {started, FALSE}
  /\ UNCHANGED <<auto, up, gate, call, client, life, switch, resume, route,
                 session, spent>>

(* A drain, a stop or a close that fails a switch ends the process, as do  *)
(* the self-heal of the watchdog and a crash.                              *)
Fall ==
  /\ Renewed
  /\ call' = [o \in Calls |-> NoCall]
  /\ port' = [c \in Clients |-> Away]
  /\ life' = "off"

Restart == Spend({"faults"}) /\ Fall

(* The watchdog restarts a process that stays offline on a working route;  *)
(* here it does so where nothing else would end the connection.            *)
SelfHeal ==
  /\ up /\ life = "up" /\ ~started /\ switch = "idle"
  /\ port[client].st = "up"
  /\ Fall
  /\ UNCHANGED spent

(* The supervisor or docker starts a worker.  restore_egress: the durable  *)
(* route, before the first client; the manual policy has only one.         *)
Boot ==
  /\ ~up /\ life = "off"
  /\ up' = TRUE
  /\ route' \in IF auto THEN Routes ELSE {route}
  /\ UNCHANGED <<auto, gate, call, client, started, port, life, switch, resume,
                 session, spent>>

LifeStep ==
  \/ Launch \/ MakeClient \/ Login \/ OnStart \/ StartReturned
  \/ CloseLast \/ Reconnect

SwitchStep == Drained \/ DrainTimeout \/ StopLifecycle \/ FinishSwitch

Next ==
  \/ LifeStep \/ SwitchStep \/ Boot \/ SelfHeal
  \/ \E o \in Calls : Begin(o) \/ Admit(o) \/ End(o)
  \/ StartSwitch \/ Drop \/ PingsFail \/ StartRaised \/ ForceReconnect
  \/ Damage \/ Reauth \/ Restart \/ WorkerDies
  \/ \E c \in Clients : StrayEnds(c)

Spec == Init /\ [][Next]_vars

(* A cancelled call ends, or the drain raises and the process with it; the *)
(* others may take for ever.  The supervisor starts the worker again and   *)
(* docker the process.                                                     *)
FairSpec ==
  /\ Spec
  /\ WF_vars(LifeStep) /\ WF_vars(SwitchStep) /\ WF_vars(Boot) /\ WF_vars(SelfHeal)
  /\ \A o \in Calls :
       WF_vars(Admit(o)) /\ WF_vars(call[o].pc = "cancelled" /\ End(o))

-----------------------------------------------------------------------------
(* Properties                                                              *)

Ready ==
  /\ gate.open /\ started
  /\ client # None /\ port[client].st = "up"

(* The bridge has one client alive, whoever closes, drops, forces or       *)
(* switches meanwhile; beside it only those it was left with by a worker   *)
(* that failed and could not close its own, or under the manual policy by  *)
(* a client that was replaced without a close.                             *)
OneClient == Cardinality(Live) <= 1 + spent.strays

(* While the gate is open, no call is under way on a route that was left,  *)
(* neither on the client of that route nor as a download; save a call of a *)
(* worker that failed.                                                     *)
CallsKeepToTheRoute ==
  gate.open => \A o \in Inside : call[o].route = route

(* No call waits at the gate for good, whatever calls before it do.        *)
CallsEnd ==
  \A o \in Calls : call[o].pc = "wait" ~> call[o].pc # "wait"

(* After the last fault MAX is connected again and stays so, unless neither *)
(* the session nor its newest copy holds a token that MAX accepts, or the  *)
(* close at the end of a failed worker never returns.                      *)
ComesBack ==
  <>[](Ready \/ Token(Recovered(file)) # accepted \/ life = "stuck")

(* What lifecycle.py and the runbook of the failover say; no run, for they *)
(* do not hold once a worker has failed.                                   *)
NoSecondClient == auto => Cardinality(Live) <= 1
NobodyStaysBehind ==
  gate.open => \A o \in Calls :
    call[o].pc \in {"in", "cancelled", "adrift"} => call[o].route = route

(* What is restored is the session that connected last.                    *)
RestoredIsFresh == Token(file) = 0 \/ Token(file) >= seen
===============================================================================
