--------------------------- MODULE Connection_proofs ---------------------------
(* The connection to MAX, and what the bridge does when it is lost.        *)
EXTENDS MaxConnection, MaxWatchdog, FiniteSetTheorems, TLAPS

-----------------------------------------------------------------------------
(* The connection to MAX, for every set of calls and every number of       *)
(* switches, drops, damages, failed workers and restarts: there is one     *)
(* client beside those that were left alive, and no call of the worker     *)
(* that runs is on a route that was left.  The session file plays no part. *)

(* The inductive invariant                                                 *)

Port == [st: {"none", "new", "up", "lost", "stray"}, route: Routes, gen: Nat]
Call == [pc: {"idle", "wait", "in", "cancelled", "adrift"}, gen: Nat, route: Routes]

TypeOK ==
  /\ up \in BOOLEAN
  /\ gate \in [open: BOOLEAN, gen: Nat]
  /\ call \in [Calls -> Call]
  /\ client \in Clients \cup {None}
  /\ started \in BOOLEAN
  /\ port \in [Clients -> Port]
  /\ life \in {"off", "loop", "starting", "up", "ending", "sleep", "stuck"}
  /\ switch \in {"idle", "drain", "stop", "close"}
  /\ resume \in BOOLEAN
  /\ route \in Routes

(* Of a worker only its strays are left, and calls that nobody waits for;  *)
(* nothing outlives the process.                                           *)
DownIsFresh ==
  ~up => /\ NewAdapter /\ life \in {"off", "stuck"}
         /\ \A c \in Clients : port[c] \in {Away, Stray}
         /\ \A o \in Calls : call[o].pc \in {"idle", "adrift"} /\ call[o].gen = 0

(* Gate, switch and permission to go on change hands together; what a      *)
(* switch has drained stays drained until it opens the gate.               *)
SwitchFits ==
  /\ gate.open <=> switch = "idle"
  /\ resume <=> switch = "idle"
  /\ switch \in {"stop", "close"} => Inside = {}

(* The connection belongs to the lifecycle, or to the switch that has      *)
(* stopped it; only its client is alive, and the strays that were counted. *)
ClientIsOwned ==
  /\ switch = "close" => life = "off"
  /\ \A c \in Clients : port[c].st \in {"new", "up"} => c = client
  /\ client # None => port[client].st # "stray"
StraysAreCounted ==
  /\ spent \in [DOMAIN Bounds -> Nat]
  /\ spent.strays <= MaxStrays
  /\ Cardinality(Strays) <= spent.strays

(* A generation stands for one route: what carries the gate's generation   *)
(* was made under the route of now.                                        *)
RouteOfGeneration ==
  /\ \A c \in Clients : port[c].gen <= gate.gen
  /\ \A o \in Calls : call[o].gen <= gate.gen
  /\ client # None /\ port[client].gen = gate.gen => port[client].route = route
  /\ \A o \in Calls \ {Download} :
       call[o].pc \in {"wait", "in", "cancelled"} /\ call[o].gen = gate.gen
         => call[o].route = route
  /\ \A o \in Inside : call[o].route = route

Core == TypeOK /\ DownIsFresh /\ SwitchFits /\ ClientIsOwned /\ RouteOfGeneration
IInv == Core /\ StraysAreCounted

-----------------------------------------------------------------------------
(* The values before a call and before a client.                           *)
LEMMA NoCallType == NoCall \in Call /\ NoCall.pc = "idle" /\ NoCall.gen = 0
  BY DEF NoCall, Call, Routes

LEMMA AwayType ==
  /\ Away \in Port /\ Away.st = "none" /\ Away.gen = 0
  /\ Stray \in Port /\ Stray.st = "stray" /\ Stray.gen = 0
  BY DEF Away, Stray, Port, Routes

(* A client that goes on, is lost or is greeted keeps route and generation *)
LEMMA PortMoves ==
  ASSUME TypeOK, client \in Clients,
         \/ UNCHANGED port
         \/ port' = [port EXCEPT ![client].st = "up"]
         \/ port' = [port EXCEPT ![client].st = "lost"]
  PROVE  /\ port' \in [Clients -> Port]
         /\ \A d \in Clients \ {client} : port'[d] = port[d]
         /\ port'[client].gen = port[client].gen
         /\ port'[client].route = port[client].route
         /\ port'[client].st \in {port[client].st, "up", "lost"}
<1>1. port[client] \in Port
  BY DEF TypeOK
<1>2. ASSUME NEW new \in Port, port' = [port EXCEPT ![client] = new],
             new.gen = port[client].gen, new.route = port[client].route,
             new.st \in {"up", "lost"}
      PROVE  /\ port' \in [Clients -> Port]
             /\ \A d \in Clients \ {client} : port'[d] = port[d]
             /\ port'[client].gen = port[client].gen
             /\ port'[client].route = port[client].route
             /\ port'[client].st \in {"up", "lost"}
  BY <1>2 DEF TypeOK
<1>3. CASE UNCHANGED port
  BY <1>3 DEF TypeOK
<1>4. ASSUME NEW s \in {"up", "lost"}, port' = [port EXCEPT ![client].st = s]
      PROVE  /\ port' \in [Clients -> Port]
             /\ \A d \in Clients \ {client} : port'[d] = port[d]
             /\ port'[client].gen = port[client].gen
             /\ port'[client].route = port[client].route
             /\ port'[client].st \in {"up", "lost"}
  <2>1. /\ [port[client] EXCEPT !.st = s] \in Port
        /\ [port[client] EXCEPT !.st = s].st = s
        /\ [port[client] EXCEPT !.st = s].gen = port[client].gen
        /\ [port[client] EXCEPT !.st = s].route = port[client].route
    BY <1>1 DEF Port
  <2>2. QED BY <1>2, <1>4, <2>1
<1>5. QED BY <1>3, <1>4

(* There is a client that nobody uses when one is made: alive are at most  *)
(* the connection's and the strays.                                        *)
LEMMA LiveOnes ==
  ASSUME IInv
  PROVE  /\ IsFiniteSet(Strays) /\ IsFiniteSet(Live) /\ Live \subseteq Clients
         /\ Live \subseteq Strays \cup {client}
         /\ IsFiniteSet(Strays \cup {client})
         /\ Cardinality(Strays \cup {client}) <= 1 + spent.strays
         /\ Cardinality(Live) <= 1 + spent.strays
<1>1. Strays \subseteq Clients /\ Live \subseteq Clients
  BY DEF Strays, Live
<1>2. IsFiniteSet(Strays) /\ IsFiniteSet(Live)
  BY <1>1, FS_Subset, ConnectionAssumption
<1>3. Live \subseteq Strays \cup {client}
  BY DEF Live, IInv, Core, ClientIsOwned
<1>4. /\ IsFiniteSet(Strays \cup {client})
      /\ \/ Cardinality(Strays \cup {client}) = Cardinality(Strays)
         \/ Cardinality(Strays \cup {client}) = Cardinality(Strays) + 1
  BY <1>2, FS_AddElement
<1>5. /\ Cardinality(Strays) \in Nat /\ Cardinality(Live) \in Nat
      /\ spent.strays \in Nat /\ Cardinality(Strays) <= spent.strays
  BY <1>2, FS_CardinalityType DEF IInv, StraysAreCounted, Bounds
<1>6. Cardinality(Live) <= Cardinality(Strays \cup {client})
  BY <1>3, <1>4, FS_Subset
<1>7. QED BY <1>1, <1>2, <1>3, <1>4, <1>5, <1>6

LEMMA UnusedClient == ASSUME IInv PROVE \E c \in Clients : c \notin InUse
<1>1. SUFFICES ASSUME Clients \subseteq InUse PROVE FALSE
  OBVIOUS
<1>2. Clients \subseteq Strays \cup {client}
  BY <1>1, LiveOnes DEF InUse
<1>3. Cardinality(Clients) <= Cardinality(Strays \cup {client})
  BY <1>2, LiveOnes, FS_Subset
<1>4. Cardinality(Clients) <= 1 + MaxStrays
  <2>1. PICK n \in Nat : n = spent.strays /\ n <= MaxStrays
    BY DEF IInv, StraysAreCounted, Bounds
  <2>2. PICK k : k = Cardinality(Strays \cup {client}) /\ k <= 1 + n /\ k \in Nat
    BY <2>1, LiveOnes, FS_CardinalityType
  <2>3. PICK m : m = Cardinality(Clients) /\ m \in Nat
    BY FS_CardinalityType, ConnectionAssumption
  <2>4. QED BY <1>3, <2>1, <2>2, <2>3, ConnectionAssumption
<1>5. Cardinality(Clients) \in Nat /\ MaxStrays \in Nat
  BY FS_CardinalityType, ConnectionAssumption
<1>6. QED BY <1>4, <1>5, ConnectionAssumption

-----------------------------------------------------------------------------
(* A restart leaves nothing.                                               *)
LEMMA FreshKeeps ==
  ASSUME Fresh', up' \in BOOLEAN, route' \in Routes PROVE Core'
<1> USE NoCallType, AwayType DEF NewAdapter
<1>1. TypeOK'
  BY DEF Fresh, TypeOK
<1>2. DownIsFresh'
  BY DEF DownIsFresh, Fresh
<1>3. \A o \in Calls : call'[o] = NoCall
  BY DEF Fresh
<1>4. \A c \in Clients : port'[c] = Away
  BY DEF Fresh
<1>5. SwitchFits'
  BY <1>3 DEF SwitchFits, Fresh, Inside
<1>6. ClientIsOwned'
  BY <1>4 DEF ClientIsOwned, Fresh
<1>7. RouteOfGeneration'
  BY <1>3, <1>4 DEF RouteOfGeneration, Fresh, Inside
<1>8. QED BY <1>1, <1>2, <1>5, <1>6, <1>7 DEF Core

(* The lifecycle                                                           *)
LEMMA LifeStepKeeps ==
  ASSUME IInv, LifeStep \/ StartRaised PROVE Core'
<1> USE DEF IInv, Core
<1>1. up
  BY DEF DownIsFresh, LifeStep, StartRaised, Launch, MakeClient, Login,
         OnStart, StartReturned, CloseLast, Reconnect
<1>2. UNCHANGED <<up, gate, call, switch, resume, route>>
  BY DEF LifeStep, StartRaised, Launch, MakeClient, Login, OnStart,
         StartReturned, CloseLast, Reconnect
<1>3. DownIsFresh' /\ SwitchFits'
  BY <1>1, <1>2 DEF DownIsFresh, SwitchFits, Inside
<1>4. /\ \A o \in Calls : call'[o].gen <= gate'.gen
      /\ \A o \in Calls \ {Download} :
           call'[o].pc \in {"wait", "in", "cancelled"} /\ call'[o].gen = gate'.gen
             => call'[o].route = route'
      /\ \A o \in Inside' : call'[o].route = route'
  BY <1>2 DEF RouteOfGeneration, Inside
<1>5. CASE Launch \/ Reconnect \/ StartReturned \/ StartRaised
  <2>1. UNCHANGED <<client, started, port>>
    BY <1>5 DEF Launch, Reconnect, StartReturned, StartRaised
  <2>2. TypeOK'
    BY <1>2, <1>5, <2>1 DEF TypeOK, Launch, Reconnect, StartReturned, StartRaised
  <2>3. ClientIsOwned'
    BY <1>2, <1>5, <2>1
       DEF ClientIsOwned, SwitchFits, TypeOK, Launch, Reconnect, StartReturned,
           StartRaised
  <2>4. RouteOfGeneration'
    BY <1>2, <1>4, <2>1 DEF RouteOfGeneration
  <2>5. QED BY <1>3, <2>2, <2>3, <2>4
<1>6. CASE MakeClient
  <2>1. PICK c \in Clients, after \in {Away, Stray} :
          /\ c \notin InUse /\ client' = c
          /\ port' = [(IF client = None THEN port ELSE [port EXCEPT ![client] = after])
                        EXCEPT ![c] = [st |-> "new", route |-> route, gen |-> gate.gen]]
    BY <1>6, UnusedClient DEF MakeClient
  <2>2. life = "loop" /\ life' = "starting" /\ switch = "idle"
    BY <1>6 DEF MakeClient, SwitchFits
  <2>3. [st |-> "new", route |-> route, gen |-> gate.gen] \in Port
    BY DEF TypeOK, Port
  <2>4. /\ port' \in [Clients -> Port]
        /\ port'[c].st = "new" /\ port'[c].route = route /\ port'[c].gen = gate.gen
        /\ \A d \in Clients \ {c} : port'[d] = IF d = client THEN after ELSE port[d]
    BY <2>1, <2>3, AwayType, ConnectionAssumption DEF TypeOK
  <2>5. TypeOK'
    BY <1>2, <1>6, <2>1, <2>4 DEF TypeOK, MakeClient
  <2>6. ClientIsOwned'
    BY <1>2, <2>1, <2>2, <2>4, AwayType, ConnectionAssumption DEF ClientIsOwned
  <2>7. RouteOfGeneration'
    <3>1. \A d \in Clients : port'[d].gen <= gate'.gen
      BY <1>2, <2>4, AwayType DEF RouteOfGeneration, TypeOK
    <3>2. QED BY <1>2, <1>4, <2>1, <2>4, <3>1 DEF RouteOfGeneration
  <2>8. QED BY <1>3, <2>5, <2>6, <2>7
<1>7. CASE Login \/ OnStart
  <2>1. UNCHANGED client /\ client \in Clients /\ switch # "close"
    BY <1>7 DEF Login, OnStart, TypeOK, ClientIsOwned
  <2>2. /\ port' \in [Clients -> Port]
        /\ \A d \in Clients \ {client} : port'[d] = port[d]
        /\ port'[client].gen = port[client].gen
        /\ port'[client].route = port[client].route
        /\ port'[client].st \in {port[client].st, "up", "lost"}
    BY <1>7, <2>1, PortMoves DEF Login, OnStart
  <2>3. TypeOK'
    BY <1>2, <1>7, <2>1, <2>2 DEF TypeOK, Login, OnStart
  <2>4. ClientIsOwned'
    BY <1>2, <1>7, <2>1, <2>2 DEF ClientIsOwned, Login, OnStart
  <2>5. RouteOfGeneration'
    BY <1>2, <1>4, <2>1, <2>2 DEF RouteOfGeneration
  <2>6. QED BY <1>3, <2>3, <2>4, <2>5
<1>8. CASE CloseLast
  <2>1. life' = "sleep" /\ started' = FALSE /\ switch # "close"
    BY <1>8 DEF CloseLast, ClientIsOwned
  <2>2. CASE UNCHANGED <<port, client>>
    BY <1>2, <1>3, <1>4, <2>1, <2>2 DEF TypeOK, ClientIsOwned, RouteOfGeneration
  <2>3. CASE client' = None /\ port' = IF client = None THEN port ELSE Gone(client)
    <3>1. /\ port' \in [Clients -> Port]
          /\ \A d \in Clients : port'[d] = IF d = client THEN Away ELSE port[d]
      BY <2>3, AwayType, ConnectionAssumption DEF Gone, TypeOK
    <3>2. TypeOK'
      BY <1>2, <2>1, <2>3, <3>1 DEF TypeOK
    <3>3. ClientIsOwned'
      BY <1>2, <2>1, <2>3, <3>1, AwayType DEF ClientIsOwned
    <3>4. \A d \in Clients : port'[d].gen <= gate'.gen
      BY <1>2, <3>1, AwayType DEF RouteOfGeneration, TypeOK
    <3>5. RouteOfGeneration'
      BY <1>4, <2>3, <3>4 DEF RouteOfGeneration
    <3>6. QED BY <1>3, <3>2, <3>3, <3>5
  <2>4. QED BY <1>8, <2>2, <2>3 DEF CloseLast
<1>9. QED BY <1>5, <1>6, <1>7, <1>8 DEF LifeStep

(* Connections drop, pings fail, sends force a reconnect, files break.     *)
LEMMA EnvironmentKeeps ==
  ASSUME IInv, \/ Drop \/ PingsFail \/ ForceReconnect \/ Damage \/ Reauth
               \/ \E c \in Clients : StrayEnds(c)
  PROVE  Core'
<1> USE DEF IInv, Core
<1>1. CASE Damage
  BY <1>1
     DEF Damage, TypeOK, DownIsFresh, NewAdapter, SwitchFits, Inside,
         ClientIsOwned, RouteOfGeneration
<1>4. CASE Reauth
  <2>1. Fresh' /\ up' \in BOOLEAN /\ route' \in Routes
    BY <1>4 DEF Reauth, DownIsFresh, Fresh, NewAdapter, TypeOK
  <2>2. QED BY <2>1, FreshKeeps
<1>5. ASSUME NEW c \in Clients, StrayEnds(c) PROVE Core'
  <2>1. /\ UNCHANGED <<up, gate, call, client, life, switch, resume, route>>
        /\ c \in Strays /\ started' \in BOOLEAN /\ (~started => ~started')
    BY <1>5 DEF StrayEnds, TypeOK
  <2>2. /\ port' \in [Clients -> Port] /\ c # client
        /\ \A d \in Clients : port'[d] = IF d = c THEN Away ELSE port[d]
    BY <1>5, <2>1, AwayType, ConnectionAssumption
       DEF StrayEnds, Gone, TypeOK, Strays, ClientIsOwned
  <2>3. TypeOK' /\ SwitchFits'
    BY <2>1, <2>2 DEF TypeOK, SwitchFits, Inside
  <2>4. DownIsFresh'
    BY <2>1, <2>2 DEF DownIsFresh, NewAdapter, TypeOK
  <2>5. ClientIsOwned'
    BY <2>1, <2>2, AwayType, ConnectionAssumption DEF ClientIsOwned, TypeOK
  <2>6. RouteOfGeneration'
    BY <2>1, <2>2, AwayType, ConnectionAssumption
       DEF RouteOfGeneration, Inside, TypeOK
  <2>7. QED BY <2>3, <2>4, <2>5, <2>6
<1>2. CASE Drop \/ PingsFail \/ ForceReconnect
  <2>1. /\ UNCHANGED <<up, gate, call, client, life, switch, resume, route>>
        /\ client \in Clients /\ up /\ started' \in BOOLEAN
    BY <1>2 DEF Drop, PingsFail, ForceReconnect, TypeOK, DownIsFresh, NewAdapter
  <2>2. port' = port \/ port' = [port EXCEPT ![client].st = "lost"]
    BY <1>2 DEF Drop, PingsFail, ForceReconnect
  <2>3. /\ port' \in [Clients -> Port]
        /\ \A d \in Clients \ {client} : port'[d] = port[d]
        /\ port'[client].gen = port[client].gen
        /\ port'[client].route = port[client].route
        /\ port'[client].st \in {port[client].st, "up", "lost"}
    BY <2>1, <2>2, PortMoves
  <2>4. TypeOK'
    BY <2>1, <2>3 DEF TypeOK
  <2>5. DownIsFresh' /\ SwitchFits'
    BY <2>1 DEF DownIsFresh, SwitchFits, Inside
  <2>6. ClientIsOwned'
    BY <2>1, <2>3 DEF ClientIsOwned
  <2>7. RouteOfGeneration'
    BY <2>1, <2>3 DEF RouteOfGeneration, Inside
  <2>8. QED BY <2>4, <2>5, <2>6, <2>7
<1>3. QED BY <1>1, <1>2, <1>4, <1>5

(* The gate                                                                *)
LEMMA CallStepKeeps ==
  ASSUME IInv, NEW o \in Calls, Begin(o) \/ Admit(o) \/ End(o) PROVE Core'
<1> USE DEF IInv, Core
<1>1. UNCHANGED <<up, gate, client, started, port, life, switch, resume, route>>
  BY DEF Begin, Admit, End, Others
<1>0. /\ NoCall \in Call /\ NoCall.pc = "idle" /\ NoCall.gen <= gate.gen
      /\ [NoCall EXCEPT !.pc = "wait"] \in Call
      /\ [NoCall EXCEPT !.pc = "wait"].pc = "wait"
      /\ [NoCall EXCEPT !.pc = "wait"].gen <= gate.gen
  BY DEF TypeOK, NoCall, Call, Routes
<1>2. up \/ End(o)
  BY DEF Begin, Admit, DownIsFresh
<1>3. ClientIsOwned'
  BY <1>1 DEF ClientIsOwned
<1>4. ASSUME NEW new \in Call, call' = [call EXCEPT ![o] = new],
             new.gen <= gate.gen, up \/ new = NoCall,
             \/ new.pc = "idle"
             \/ new.pc = "wait"
             \/ new.pc = "in" /\ gate.open /\ new.route = route,
             new.pc # "idle" /\ o # Download /\ new.gen = gate.gen
               => new.route = route
      PROVE  Core'
  <2>1. call'[o] = new /\ \A p \in Calls \ {o} : call'[p] = call[p]
    BY <1>4 DEF TypeOK
  <2>2. TypeOK'
    BY <1>1, <1>4 DEF TypeOK
  <2>3. SwitchFits'
    BY <1>1, <1>4, <2>1 DEF SwitchFits, Inside
  <2>4. RouteOfGeneration'
    BY <1>1, <1>4, <2>1 DEF RouteOfGeneration, Inside
  <2>5. DownIsFresh'
    BY <1>1, <1>4, <2>1, NoCallType DEF DownIsFresh, NewAdapter
  <2>6. QED BY <1>3, <2>2, <2>3, <2>4, <2>5
<1>5. CASE End(o)
  BY <1>0, <1>4, <1>5 DEF End
<1>6. CASE Begin(o)
  <2>1. CASE o = Download
    BY <1>0, <1>4, <1>6, <2>1 DEF Begin
  <2>2. CASE o # Download
    <3> DEFINE new == [pc |-> "wait", gen |-> port[client].gen,
                       route |-> port[client].route]
    <3>1. client \in Clients /\ client # None
      BY <1>6, <2>2 DEF Begin, TypeOK
    <3>2. new \in Call
      BY <3>1 DEF Call, TypeOK, Port
    <3>3. new.gen <= gate.gen /\ (new.gen = gate.gen => new.route = route)
      BY <3>1 DEF RouteOfGeneration
    <3>4. call' = [call EXCEPT ![o] = new] /\ new.pc = "wait"
      BY <1>6, <2>2 DEF Begin
    <3> HIDE DEF new
    <3>5. up
      BY <1>6 DEF Begin
    <3>6. QED BY <1>4, <3>2, <3>3, <3>4, <3>5
  <2>3. QED BY <2>1, <2>2
<1>7. CASE Admit(o)
  <2>1. call[o] \in Call /\ call[o].pc = "wait" /\ gate.open /\ up
    BY <1>7 DEF Admit, TypeOK, DownIsFresh
  <2>2. CASE o = Download
    <3> DEFINE new == [call[o] EXCEPT !.pc = "in", !.route = route]
    <3>1. /\ new \in Call /\ new.pc = "in" /\ new.route = route
          /\ new.gen = call[o].gen
      BY <2>1 DEF Call, TypeOK
    <3>2. call' = [call EXCEPT ![o] = new]
      BY <1>7, <2>2 DEF Admit
    <3> HIDE DEF new
    <3>3. QED BY <1>4, <2>1, <2>2, <3>1, <3>2 DEF RouteOfGeneration
  <2>3. CASE o # Download /\ call[o].gen = gate.gen
    <3> DEFINE new == [call[o] EXCEPT !.pc = "in"]
    <3>1. /\ new \in Call /\ new.pc = "in" /\ new.route = call[o].route
          /\ new.gen = call[o].gen
      BY <2>1 DEF Call
    <3>2. call' = [call EXCEPT ![o] = new]
      BY <1>7, <2>3 DEF Admit
    <3>3. call[o].route = route
      BY <2>1, <2>3 DEF RouteOfGeneration
    <3> HIDE DEF new
    <3>4. QED BY <1>4, <2>1, <3>1, <3>2, <3>3 DEF RouteOfGeneration
  <2>4. CASE o # Download /\ call[o].gen # gate.gen
    BY <1>0, <1>4, <1>7, <2>4 DEF Admit
  <2>5. QED BY <2>2, <2>3, <2>4
<1>8. QED BY <1>5, <1>6, <1>7

(* The switch                                                              *)
LEMMA SwitchStepKeeps ==
  ASSUME IInv, StartSwitch \/ SwitchStep PROVE Core'
<1> USE DEF IInv, Core
<1>0. up /\ up'
  BY DEF StartSwitch, SwitchStep, Drained, DrainTimeout, StopLifecycle,
         FinishSwitch, DownIsFresh, NewAdapter
<1>1. DownIsFresh'
  BY <1>0 DEF DownIsFresh
<1>2. CASE StartSwitch
  <2>1. /\ gate' = [gate EXCEPT !.open = FALSE] /\ ~resume' /\ switch' = "drain"
        /\ switch = "idle"
        /\ UNCHANGED <<up, call, client, started, port, life, route>>
    BY <1>2 DEF StartSwitch
  <2>2. gate' \in [open: BOOLEAN, gen: Nat] /\ gate'.gen = gate.gen /\ ~gate'.open
    BY <2>1 DEF TypeOK
  <2>3. TypeOK'
    BY <1>2, <2>1, <2>2 DEF TypeOK, StartSwitch
  <2>4. SwitchFits' /\ ClientIsOwned'
    BY <2>1, <2>2 DEF SwitchFits, ClientIsOwned, Inside
  <2>5. RouteOfGeneration'
    BY <2>1, <2>2 DEF RouteOfGeneration, Inside
  <2>6. QED BY <1>1, <2>3, <2>4, <2>5
<1>3. CASE Drained
  BY <1>1, <1>3
     DEF Drained, TypeOK, SwitchFits, ClientIsOwned, RouteOfGeneration, Inside
<1>4. CASE DrainTimeout
  <2>1. /\ switch = "drain"
        /\ UNCHANGED <<up, gate, client, started, port, life, switch, resume, route>>
    BY <1>4 DEF DrainTimeout
  <2>2. ASSUME NEW o \in Calls
        PROVE  /\ call'[o] \in Call
               /\ call'[o].gen = call[o].gen /\ call'[o].route = call[o].route
               /\ call'[o].pc \in {"in", "cancelled"} => call[o].pc \in {"in", "cancelled"}
               /\ call'[o].pc = "wait" => call[o].pc = "wait"
    <3>1. call'[o] = IF call[o].pc = "in" THEN [call[o] EXCEPT !.pc = "cancelled"]
                     ELSE call[o]
      BY <1>4 DEF DrainTimeout
    <3>2. call[o] \in Call
      BY DEF TypeOK
    <3>3. QED BY <3>1, <3>2 DEF Call
  <2>3. call' \in [Calls -> Call]
    <3>1. call' = [o \in Calls |-> call'[o]]
      BY <1>4 DEF DrainTimeout
    <3>2. QED BY <2>2, <3>1
  <2>4. TypeOK'
    BY <2>1, <2>3 DEF TypeOK
  <2>5. SwitchFits' /\ ClientIsOwned'
    BY <2>1 DEF SwitchFits, ClientIsOwned
  <2>6. RouteOfGeneration'
    BY <2>1, <2>2 DEF RouteOfGeneration, Inside
  <2>7. QED BY <1>1, <2>4, <2>5, <2>6
<1>5. CASE StopLifecycle
  BY <1>1, <1>5
     DEF StopLifecycle, TypeOK, SwitchFits, ClientIsOwned, RouteOfGeneration, Inside
<1>6. CASE FinishSwitch
  <2>1. /\ switch = "close" /\ Inside = {} /\ life = "off"
        /\ client' = None /\ resume' /\ switch' = "idle" /\ route' \in Routes
        /\ gate'.open /\ gate'.gen = gate.gen + 1
        /\ UNCHANGED <<up, call, started, life>>
    BY <1>6 DEF FinishSwitch, SwitchFits, ClientIsOwned
  <2>2. /\ port' \in [Clients -> Port]
        /\ \A d \in Clients : port'[d] = IF d = client THEN Away ELSE port[d]
    BY <1>6, AwayType, ConnectionAssumption DEF FinishSwitch, Gone, TypeOK
  <2>3. TypeOK'
    BY <1>6, <2>1, <2>2 DEF TypeOK, FinishSwitch
  <2>4. SwitchFits'
    BY <2>1 DEF SwitchFits, Inside
  <2>5. ClientIsOwned'
    BY <2>1, <2>2, AwayType DEF ClientIsOwned
  <2>6. \A d \in Clients : port'[d].gen <= gate'.gen
    BY <2>1, <2>2, AwayType DEF RouteOfGeneration, TypeOK, Port
  <2>7. \A o \in Calls : call'[o].gen <= gate'.gen /\ call'[o].gen # gate'.gen
    BY <2>1 DEF RouteOfGeneration, TypeOK, Call
  <2>8. RouteOfGeneration'
    BY <2>1, <2>6, <2>7 DEF RouteOfGeneration, Inside
  <2>9. QED BY <1>1, <2>3, <2>4, <2>5, <2>8
<1>7. QED BY <1>2, <1>3, <1>4, <1>5, <1>6 DEF SwitchStep

(* The worker and the process                                              *)
LEMMA WorkerDiesKeeps == ASSUME IInv, WorkerDies PROVE Core'
<1> USE DEF IInv, Core
<1>1. PICK after \in {Away, Stray} :
        port' = [c \in Clients |-> CASE c = client -> after
                                   [] c # client /\ c \in Strays -> Stray
                                   [] OTHER -> Away]
  BY DEF WorkerDies
<1>2. /\ up' = FALSE /\ gate' = [open |-> TRUE, gen |-> 0] /\ client' = None
      /\ started' = FALSE /\ switch' = "idle" /\ resume' = TRUE
      /\ route' = route /\ life' \in {"off", "stuck"}
  BY DEF WorkerDies, Renewed
<1>3. \A c \in Clients : port'[c] \in {Away, Stray}
  BY <1>1
<1>4. PICK on \in SUBSET Calls :
        call' = [o \in Calls |->
                   IF o \in on THEN [NoCall EXCEPT !.pc = "adrift", !.route = call[o].route]
                   ELSE NoCall]
  BY DEF WorkerDies
<1>5. ASSUME NEW o \in Calls
      PROVE  call'[o] \in Call /\ call'[o].pc \in {"idle", "adrift"} /\ call'[o].gen = 0
  <2>1. call[o].route \in Routes
    BY DEF TypeOK, Call
  <2>2. /\ [NoCall EXCEPT !.pc = "adrift", !.route = call[o].route] \in Call
        /\ [NoCall EXCEPT !.pc = "adrift", !.route = call[o].route].pc = "adrift"
        /\ [NoCall EXCEPT !.pc = "adrift", !.route = call[o].route].gen = 0
    BY <2>1 DEF NoCall, Call
  <2>3. QED BY <1>4, <2>2, NoCallType
<1>6. call' \in [Calls -> Call]
  BY <1>4, <1>5
<1>7. port' \in [Clients -> Port]
  BY <1>1, AwayType
<1>8. TypeOK'
  BY <1>2, <1>6, <1>7 DEF TypeOK
<1>9. DownIsFresh'
  BY <1>2, <1>3, <1>5 DEF DownIsFresh, NewAdapter
<1>10. SwitchFits' /\ ClientIsOwned'
  BY <1>2, <1>3, AwayType DEF SwitchFits, ClientIsOwned
<1>11. RouteOfGeneration'
  BY <1>2, <1>3, <1>5, AwayType DEF RouteOfGeneration, Inside
<1>12. QED BY <1>8, <1>9, <1>10, <1>11

LEMMA ProcessStepKeeps ==
  ASSUME IInv, Restart \/ SelfHeal \/ Boot PROVE Core'
<1>1. CASE Restart \/ SelfHeal
  <2>1. Fall
    BY <1>1 DEF Restart, SelfHeal
  <2>2. Fresh'
    BY <2>1 DEF Fall, Renewed, Fresh, NewAdapter
  <2>3. up' \in BOOLEAN /\ route' \in Routes
    BY <2>1 DEF Fall, Renewed, IInv, Core, TypeOK
  <2>4. QED BY <2>2, <2>3, FreshKeeps
<1>2. CASE Boot
  BY <1>2
     DEF Boot, IInv, Core, TypeOK, DownIsFresh, NewAdapter, SwitchFits, Inside,
         ClientIsOwned, RouteOfGeneration
<1>3. QED BY <1>1, <1>2

(* The strays: each is counted when it is left, and they are bounded.      *)
LEMMA SpendType ==
  ASSUME StraysAreCounted, NEW S, Spend(S)
  PROVE  /\ spent' \in [DOMAIN Bounds -> Nat] /\ spent'.strays <= MaxStrays
         /\ spent'.strays = spent.strays + (IF "strays" \in S THEN 1 ELSE 0)
<1>1. \A w \in DOMAIN Bounds : spent[w] \in Nat
  BY DEF StraysAreCounted
<1>2. spent' \in [DOMAIN Bounds -> Nat]
  BY <1>1 DEF Spend
<1>3. "strays" \in DOMAIN Bounds /\ Bounds["strays"] = MaxStrays
  BY DEF Bounds
<1>4. spent'["strays"] = spent["strays"] + (IF "strays" \in S THEN 1 ELSE 0)
  BY <1>3 DEF Spend
<1>5. "strays" \in S => spent["strays"] < MaxStrays
  BY <1>3 DEF Spend
<1>6. spent["strays"] <= MaxStrays /\ spent["strays"] \in Nat /\ MaxStrays \in Nat
  BY <1>1, <1>3, ConnectionAssumption DEF StraysAreCounted
<1>7. QED BY <1>2, <1>4, <1>5, <1>6

LEMMA FewerStrays ==
  ASSUME StraysAreCounted, Strays' \subseteq Strays,
         UNCHANGED spent \/ \E S : Spend(S)
  PROVE  StraysAreCounted'
<1>1. IsFiniteSet(Strays)
  <2>1. Strays \subseteq Clients
    BY DEF Strays
  <2>2. QED BY <2>1, FS_Subset, ConnectionAssumption
<1>2. /\ IsFiniteSet(Strays') /\ Cardinality(Strays') <= Cardinality(Strays)
      /\ Cardinality(Strays') \in Nat /\ Cardinality(Strays) \in Nat
  BY <1>1, FS_Subset, FS_CardinalityType
<1>3. spent.strays \in Nat
  BY DEF StraysAreCounted, Bounds
<1>4. /\ spent' \in [DOMAIN Bounds -> Nat] /\ spent'.strays <= MaxStrays
      /\ spent'.strays = spent.strays \/ spent'.strays = spent.strays + 1
  <2>1. CASE UNCHANGED spent
    BY <2>1 DEF StraysAreCounted, Bounds
  <2>2. ASSUME NEW S, Spend(S)
        PROVE  /\ spent' \in [DOMAIN Bounds -> Nat] /\ spent'.strays <= MaxStrays
               /\ spent'.strays = spent.strays \/ spent'.strays = spent.strays + 1
    BY <2>2, SpendType, <1>3
  <2>3. QED BY <2>1, <2>2
<1>5. Cardinality(Strays)' <= spent'.strays
  BY <1>2, <1>3, <1>4 DEF StraysAreCounted
<1>6. DOMAIN Bounds' = DOMAIN Bounds
  BY DEF Bounds
<1>7. QED BY <1>4, <1>5, <1>6 DEF StraysAreCounted

LEMMA OneMoreStray ==
  ASSUME StraysAreCounted, NEW c, Strays' \subseteq Strays \cup {c},
         NEW S, "strays" \in S, Spend(S)
  PROVE  StraysAreCounted'
<1>1. IsFiniteSet(Strays)
  <2>1. Strays \subseteq Clients
    BY DEF Strays
  <2>2. QED BY <2>1, FS_Subset, ConnectionAssumption
<1>2. /\ IsFiniteSet(Strays \cup {c})
      /\ \/ Cardinality(Strays \cup {c}) = Cardinality(Strays)
         \/ Cardinality(Strays \cup {c}) = Cardinality(Strays) + 1
      /\ Cardinality(Strays) \in Nat
  BY <1>1, FS_AddElement, FS_CardinalityType
<1>3. IsFiniteSet(Strays') /\ Cardinality(Strays') <= Cardinality(Strays \cup {c})
  BY <1>2, FS_Subset
<1>4. Cardinality(Strays') \in Nat
  BY <1>3, FS_CardinalityType
<1>5. /\ spent' \in [DOMAIN Bounds -> Nat] /\ spent'.strays <= MaxStrays
      /\ spent'.strays = spent.strays + 1
  BY SpendType
<1>6. spent.strays \in Nat
  BY DEF StraysAreCounted, Bounds
<1>7. Cardinality(Strays)' <= spent'.strays
  BY <1>2, <1>3, <1>4, <1>5, <1>6 DEF StraysAreCounted
<1>8. DOMAIN Bounds' = DOMAIN Bounds
  BY DEF Bounds
<1>9. QED BY <1>5, <1>7, <1>8 DEF StraysAreCounted

(* A client is left alive where another is made, or where its worker ends. *)
LEMMA StraysKeep == ASSUME IInv, Next PROVE StraysAreCounted'
<1> USE DEF IInv, Core
<1>1. CASE MakeClient
  <2>1. PICK c \in Clients, after \in {Away, Stray} :
          /\ Dropped(after)
          /\ port' = [(IF client = None THEN port ELSE [port EXCEPT ![client] = after])
                        EXCEPT ![c] = [st |-> "new", route |-> route, gen |-> gate.gen]]
    BY <1>1, UnusedClient DEF MakeClient
  <2>2. \A d \in Clients :
          port'[d].st = "stray" => \/ port[d].st = "stray"
                                   \/ d = client /\ after = Stray
    BY <2>1, AwayType, ConnectionAssumption DEF TypeOK
  <2>3. CASE after = Away /\ UNCHANGED spent
    <3>1. Strays' \subseteq Strays
      BY <2>2, <2>3, AwayType DEF Strays
    <3>2. QED BY <2>3, <3>1, FewerStrays
  <2>4. CASE Spend({"strays"})
    <3>1. Strays' \subseteq Strays \cup {client}
      BY <2>2 DEF Strays
    <3>2. QED BY <2>4, <3>1, OneMoreStray
  <2>5. QED BY <2>1, <2>3, <2>4 DEF Dropped
<1>2. CASE WorkerDies
  <2>1. PICK after \in {Away, Stray} :
          /\ port' = [c \in Clients |-> CASE c = client -> after
                                         [] c # client /\ c \in Strays -> Stray
                                         [] OTHER -> Away]
          /\ \/ after = Away /\ Spend({"faults"})
             \/ after = Stray /\ Spend({"faults", "strays"})
    BY <1>2 DEF WorkerDies
  <2>2. \A d \in Clients :
          port'[d].st = "stray" => \/ port[d].st = "stray"
                                   \/ d = client /\ after = Stray
    BY <2>1, AwayType DEF Strays
  <2>3. CASE after = Away /\ Spend({"faults"})
    <3>1. Strays' \subseteq Strays
      BY <2>2, <2>3, AwayType DEF Strays
    <3>2. QED BY <2>3, <3>1, FewerStrays
  <2>4. CASE Spend({"faults", "strays"})
    <3>1. Strays' \subseteq Strays \cup {client}
      BY <2>2 DEF Strays
    <3>2. QED BY <2>4, <3>1, OneMoreStray
  <2>5. QED BY <2>1, <2>3, <2>4
<1>3. ASSUME Strays' \subseteq Strays, UNCHANGED spent \/ \E S : Spend(S)
      PROVE  StraysAreCounted'
  BY <1>3, FewerStrays
<1>4. CASE UNCHANGED port /\ (UNCHANGED spent \/ \E S : Spend(S))
  BY <1>3, <1>4 DEF Strays
<1>5. ASSUME \A c \in Clients : port'[c] = Away, UNCHANGED spent \/ \E S : Spend(S)
      PROVE  StraysAreCounted'
  BY <1>3, <1>5, AwayType DEF Strays
<1>6. CASE Launch \/ OnStart \/ StartReturned \/ Reconnect \/ StartRaised \/ Boot
           \/ StartSwitch \/ Drained \/ DrainTimeout \/ StopLifecycle \/ Damage
  BY <1>4, <1>6
     DEF Launch, OnStart, StartReturned, Reconnect, StartRaised, Boot, StartSwitch,
         Drained, DrainTimeout, StopLifecycle, Damage
<1>7. CASE \E o \in Calls : Begin(o) \/ Admit(o) \/ End(o)
  BY <1>4, <1>7 DEF Begin, Admit, End, Others
<1>8. CASE Login \/ Drop \/ PingsFail \/ ForceReconnect
  <2>1. client \in Clients /\ (UNCHANGED spent \/ \E S : Spend(S))
    BY <1>8 DEF Login, Drop, PingsFail, ForceReconnect, TypeOK
  <2>2. /\ \A d \in Clients \ {client} : port'[d] = port[d]
        /\ port'[client].st \in {port[client].st, "up", "lost"}
    BY <1>8, <2>1, PortMoves DEF Login, Drop, PingsFail, ForceReconnect
  <2>3. Strays' \subseteq Strays
    BY <2>1, <2>2 DEF Strays
  <2>4. QED BY <1>3, <2>1, <2>3
<1>9. CASE CloseLast \/ FinishSwitch \/ \E c \in Clients : StrayEnds(c)
  <2>1. UNCHANGED spent /\ (UNCHANGED port \/ \E c \in Clients : port' = Gone(c))
    BY <1>9, ConnectionAssumption DEF CloseLast, FinishSwitch, StrayEnds, TypeOK
  <2>2. Strays' \subseteq Strays
    BY <2>1, AwayType DEF Strays, Gone, TypeOK
  <2>3. QED BY <1>3, <2>1, <2>2
<1>10. CASE Restart \/ SelfHeal
  BY <1>5, <1>10 DEF Restart, SelfHeal, Fall
<1>11. CASE Reauth
  BY <1>5, <1>11 DEF Reauth
<1>12. QED
  BY <1>1, <1>2, <1>6, <1>7, <1>8, <1>9, <1>10, <1>11 DEF Next, LifeStep, SwitchStep

-----------------------------------------------------------------------------
(* The inductive invariant holds initially ...                             *)
LEMMA InitIInv == Init => IInv
<1> SUFFICES ASSUME Init PROVE IInv
  OBVIOUS
<1>1. Fresh /\ up \in BOOLEAN /\ route \in Routes
  BY DEF Init, Routes
<1>2. TypeOK /\ DownIsFresh
  <2>1. up = TRUE
    BY DEF Init
  <2>2. call \in [Calls -> Call] /\ port \in [Clients -> Port]
    BY <1>1, NoCallType, AwayType DEF Fresh
  <2>3. TypeOK
    BY <1>1, <2>1, <2>2 DEF Fresh, NewAdapter, TypeOK
  <2>4. QED BY <2>1, <2>3 DEF DownIsFresh
<1>3. SwitchFits /\ ClientIsOwned /\ RouteOfGeneration
  BY <1>1, NoCallType, AwayType
     DEF Fresh, NewAdapter, SwitchFits, ClientIsOwned, RouteOfGeneration, Inside
<1>4. StraysAreCounted
  <2>1. Strays = {}
    BY <1>1, AwayType DEF Fresh, Strays
  <2>2. Cardinality(Strays) = 0
    BY <2>1, FS_EmptySet
  <2>3. QED BY <2>2, ConnectionAssumption DEF Init, StraysAreCounted, Bounds
<1>5. QED BY <1>2, <1>3, <1>4 DEF IInv, Core

(* ... is kept by every step, one case per action ...                      *)
LEMMA NextIInv == IInv /\ [Next]_vars => IInv'
<1> SUFFICES ASSUME IInv, [Next]_vars PROVE IInv'
  OBVIOUS
<1>1. CASE UNCHANGED vars
  <2>1. Core'
    BY <1>1
       DEF vars, IInv, Core, TypeOK, DownIsFresh, NewAdapter, SwitchFits,
           ClientIsOwned, RouteOfGeneration, Inside
  <2>2. StraysAreCounted'
    BY <1>1 DEF vars, IInv, StraysAreCounted, Strays, Bounds
  <2>3. QED BY <2>1, <2>2 DEF IInv
<1>2. CASE Next
  <2>1. Core'
    BY <1>2, LifeStepKeeps, SwitchStepKeeps, ProcessStepKeeps, WorkerDiesKeeps,
       CallStepKeeps, EnvironmentKeeps DEF Next
  <2>2. QED BY <1>2, <2>1, StraysKeep DEF IInv
<1>3. QED BY <1>1, <1>2

(* ... and so holds in every reachable state.                              *)
LEMMA AlwaysIInv == Spec => []IInv
  BY InitIInv, NextIInv, PTL DEF Spec

(* At any time at most one client of MAX is alive, whoever closes, drops,  *)
(* forces a reconnect or switches the route meanwhile, and beside it at    *)
(* most those that a failed worker could not close or that the manual      *)
(* policy replaced unclosed, each counted once (lifecycle.py's loop,       *)
(* switch_egress and the supervisor's restart).                            *)
THEOREM OneClientAtATime == Spec => []OneClient
<1>1. IInv => OneClient
  BY LiveOnes DEF OneClient
<1>2. QED BY <1>1, AlwaysIInv, PTL

(* No call, and no download, is under way on a route that was left while   *)
(* the gate is open: the generation stands for the route.  (The invariant  *)
(* shows more: while the gate is closed the calls still inside are also    *)
(* on the route of now.)  A call of a worker that failed is not inside.    *)
THEOREM CallsStayOnRoute == Spec => []CallsKeepToTheRoute
<1>1. IInv => CallsKeepToTheRoute
  BY DEF IInv, Core, RouteOfGeneration, CallsKeepToTheRoute
<1>2. QED BY <1>1, AlwaysIInv, PTL

-----------------------------------------------------------------------------
(* A lost connection to MAX, for every setting of the graces, the cooldown *)
(* and the intervals, and any number of losses, failures and restarts: the *)
(* restarts are spaced, the owner is told, and what is shown is true.      *)

(* The inductive invariant                                                 *)

Time == Nat \cup {Never}
Kind == {"fault", "reauth"}
Code == {NoCode, "fault", "reauth", "self_heal", "egress_unavailable",
         "startup_wait", "pending", "link_offline", "egress_managed",
         "egress_offline"}
Issue == [code: Code, stamp: Nat]
Health == [status: {"starting", "healthy", "degraded"}, issue: Issue,
           runtime: {"recovering", "healthy", "degraded"}]
Watch == [pc: {"sleep", "probe", "tell", "heal", "exit"}, since: Time,
          elapsed: Nat, alerted: BOOLEAN, pending: BOOLEAN, lastProbe: Time]

WatchdogTypeOK ==
  /\ mode \in {"home", "direct", "auto"}
  /\ worker \in {"down", "starting", "running", "backoff"}
  /\ now \in Nat
  /\ link \in BOOLEAN
  /\ issue \in Kind \cup {NoCode}
  /\ announced \in Kind \cup {NoCode}
  /\ probed \in {NoCode, "ok", "bad"}
  /\ health \in Health
  /\ healFile \in Time
  /\ watch \in Watch /\ watch.since <= now
  /\ owed \subseteq {"issue", "recovered"}
  /\ told \in BOOLEAN /\ lapsed \in BOOLEAN /\ unseen \in BOOLEAN
  /\ downSince \in Nat
  /\ healed \in Time

(* The file names the last restart, or was lost when the next was due.     *)
HealIsRecorded ==
  healed # Never => healFile = healed \/ now - healed >= Cooldown

(* What the watchdog keeps of an outage: nothing without one; an outage    *)
(* that ended is unseen until a poll; under the auto policy it neither     *)
(* probes nor warns.                                                       *)
WatchFits ==
  /\ watch.since = Never => /\ watch.elapsed = 0 /\ watch.pc = "sleep"
                            /\ ~watch.alerted /\ ~watch.pending
  /\ link /\ watch.since # Never => unseen
  /\ mode = "auto" => watch.pc \notin {"probe", "tell", "exit"}
  /\ watch.pc = "tell" => watch.alerted

(* The adapter's issue is the announced one, and on show.                  *)
IssueFits ==
  /\ issue = announced
  /\ issue # NoCode => ~link /\ health.status = "degraded"
  /\ mode = "auto" /\ issue = "reauth" => health.issue.code = "reauth"

(* The watchdog has taken up the outage of now.                            *)
TakenUp == ~link /\ ~unseen

OutageIsShown ==
  TakenUp /\ (\/ watch.alerted \/ watch.pending
              \/ watch.pc = "sleep" /\ watch.elapsed >= AlertAfter)
    => health.status = "degraded"

(* The operators were warned, or will be, or a crash took the warning.     *)
Warned == told \/ lapsed \/ "issue" \in owed

(* Each of the reporters that may leave a warning to another has a reason: *)
(* the store shows the issue already, so its first reporter has warned.    *)
OutageIsTold ==
  Manual =>
    /\ issue # NoCode => Warned
    /\ health.issue.code \in Kind => Warned
    /\ health.issue.code = "link_offline" => told \/ lapsed \/ watch.pc = "tell"
    /\ TakenUp /\ watch.alerted /\ watch.pc # "tell" => Warned
    /\ watch.pc = "sleep" /\ watch.elapsed >= AlertAfter
         /\ watch.elapsed >= StartupGrace /\ watch.elapsed >= SelfHealGrace
       => watch.alerted

WatchdogIInv == WatchdogTypeOK /\ HealIsRecorded /\ WatchFits /\ IssueFits /\ OutageIsShown
          /\ OutageIsTold

-----------------------------------------------------------------------------
(* Reports and decisions                                                   *)

(* A watchdog that knows of no outage.                                     *)
LEMMA AsleepType ==
  /\ Asleep \in Watch /\ Asleep.pc = "sleep" /\ Asleep.since = Never
  /\ Asleep.elapsed = 0 /\ ~Asleep.alerted /\ ~Asleep.pending
  /\ Asleep.lastProbe = Never
  BY DEF Asleep, Watch, Time

(* A report that degrades the health shows its code.                       *)
LEMMA DegradedType ==
  ASSUME NEW h \in Health, NEW code \in Code, NEW stamp \in Nat
  PROVE  /\ Degraded(h, code, stamp) \in Health
         /\ Degraded(h, code, stamp).status = "degraded"
         /\ Degraded(h, code, stamp).issue = [code |-> code, stamp |-> stamp]
         /\ Degraded(h, code, stamp).issue.code = code
  BY DEF Degraded, Health, Issue

(* A report of health clears the issue.                                    *)
LEMMA HealthyType ==
  ASSUME NEW h \in Health
  PROVE  /\ Healthy(h) \in Health
         /\ Healthy(h).status = "healthy" /\ Healthy(h).issue = NoIssue
         /\ NoIssue.code = NoCode
  BY DEF Healthy, Health, Issue, NoIssue, Code

(* A poll that finds MAX away dates the outage no later than now.          *)
LEMMA NoticedType ==
  ASSUME WatchdogTypeOK
  PROVE  /\ Noticed \in Watch /\ Noticed.since # Never /\ Noticed.since <= now
         /\ Noticed.elapsed = now - Noticed.since
         /\ Noticed.pc = watch.pc /\ Noticed.alerted = watch.alerted
         /\ Noticed.pending = watch.pending /\ Noticed.lastProbe = watch.lastProbe
<1> DEFINE since == IF watch.since = Never THEN now ELSE watch.since
<1>1. since \in Nat /\ since <= now
  BY DEF WatchdogTypeOK, Watch, Time
<1>2. now - since \in Nat
  BY <1>1 DEF WatchdogTypeOK
<1>3. Noticed = [watch EXCEPT !.since = since, !.elapsed = now - since]
  BY DEF Noticed
<1>4. since # Never
  BY <1>1 DEF Never
<1> HIDE DEF since
<1>5. QED BY <1>1, <1>2, <1>3, <1>4 DEF WatchdogTypeOK, Watch, Time

(* What a decision may change: it only adds warnings and only reports.     *)
LEMMA DecideDoes ==
  ASSUME WatchdogTypeOK, NEW w \in Watch, w.pc = "sleep", NEW fresh \in {NoCode, "ok", "bad"},
         Decide(w, fresh, health)
  PROVE  /\ health' \in Health /\ watch' \in Watch
         /\ watch'.since = w.since /\ watch'.elapsed = w.elapsed
         /\ watch'.pc \in {"sleep", "tell"}
         /\ watch'.pc = "tell" => watch'.alerted
         /\ w.alerted => watch'.alerted
         /\ health.status = "degraded" => health'.status = "degraded"
         /\ \/ health'.status = "degraded" \/ w.alerted \/ w.pending \/ issue # NoCode
            \/ ~watch'.alerted /\ ~watch'.pending /\ w.elapsed < AlertAfter
         /\ health'.issue.code \in Kind => health'.issue = health.issue
         /\ health'.issue.code = "link_offline" =>
              watch'.pc = "tell" \/ health.issue.code = "link_offline"
         /\ watch'.alerted =>
              \/ w.alerted /\ watch'.pc = "sleep"
              \/ issue # NoCode \/ watch'.pc = "tell"
              \/ health.issue.code = "link_offline"
         /\ w.elapsed >= AlertAfter /\ w.elapsed >= StartupGrace
              /\ w.elapsed >= SelfHealGrace => watch'.alerted
<1> DEFINE probe == IF fresh # NoCode THEN fresh ELSE probed
           waits == mode = "home" /\ probe = "bad" /\ w.elapsed < StartupGrace
           pends == mode = "home" /\ probe = "ok" /\ w.elapsed < SelfHealGrace
                      /\ RestartAllowed
           down == IF fresh = "bad" /\ w.elapsed >= StartupGrace
                   THEN Degraded(health, "egress_unavailable", 0) ELSE health
<1>0. /\ w.elapsed \in Nat /\ health \in Health
      /\ AlertAfter \in Nat /\ StartupGrace \in Nat /\ SelfHealGrace \in Nat
  BY WatchdogAssumption DEF WatchdogTypeOK, Watch
<1>1. /\ down \in Health
      /\ health.status = "degraded" => down.status = "degraded"
      /\ down.issue = health.issue \/ down.issue.code = "egress_unavailable"
  BY <1>0 DEF Degraded, Health, Issue, Code
<1>2. \/ /\ w.alerted \/ w.elapsed < AlertAfter
         /\ health' = down /\ watch' = w
      \/ /\ ~w.alerted /\ w.elapsed >= AlertAfter /\ waits
         /\ health' = Degraded(down, "startup_wait", w.elapsed) /\ watch' = w
      \/ /\ ~w.alerted /\ w.elapsed >= AlertAfter /\ pends
         /\ health' = IF w.pending THEN down ELSE Degraded(down, "pending", w.elapsed)
         /\ watch' = [w EXCEPT !.pending = TRUE]
      \/ /\ ~w.alerted /\ w.elapsed >= AlertAfter /\ ~waits /\ ~pends
         /\ issue # NoCode
         /\ health' = down /\ watch' = [w EXCEPT !.alerted = TRUE]
      \/ /\ ~w.alerted /\ w.elapsed >= AlertAfter /\ ~waits /\ ~pends
         /\ health' = Degraded(down, "link_offline", w.elapsed)
         /\ watch' = [w EXCEPT !.alerted = TRUE,
                               !.pc = IF IsNews(down, "link_offline", w.elapsed)
                                      THEN "tell" ELSE "sleep"]
  BY <1>0 DEF Decide
<1> HIDE DEF down, probe
<1>3. CASE /\ w.alerted \/ w.elapsed < AlertAfter
           /\ health' = down /\ watch' = w
  BY <1>0, <1>1, <1>3 DEF Kind, Health
<1>4. CASE /\ ~w.alerted /\ w.elapsed >= AlertAfter /\ waits
           /\ health' = Degraded(down, "startup_wait", w.elapsed) /\ watch' = w
  <2>1. /\ health' \in Health /\ health'.status = "degraded"
        /\ health'.issue.code = "startup_wait"
    BY <1>0, <1>1, <1>4 DEF Degraded, Health, Issue, Code
  <2>2. QED BY <1>0, <1>4, <2>1 DEF Kind
<1>5. CASE /\ ~w.alerted /\ w.elapsed >= AlertAfter /\ pends
           /\ health' = IF w.pending THEN down ELSE Degraded(down, "pending", w.elapsed)
           /\ watch' = [w EXCEPT !.pending = TRUE]
  <2>1. /\ watch' \in Watch /\ watch'.pc = "sleep" /\ watch'.since = w.since
        /\ watch'.elapsed = w.elapsed /\ watch'.alerted = w.alerted
    BY <1>5 DEF Watch
  <2>2. CASE w.pending
    BY <1>0, <1>1, <1>5, <2>1, <2>2 DEF Kind, Health
  <2>3. CASE ~w.pending
    <3>1. /\ health' \in Health /\ health'.status = "degraded"
          /\ health'.issue.code = "pending"
      BY <1>0, <1>1, <1>5, <2>3 DEF Degraded, Health, Issue, Code
    <3>2. QED BY <1>0, <1>5, <2>1, <3>1 DEF Kind
  <2>4. QED BY <2>2, <2>3
<1>6. CASE /\ ~w.alerted /\ w.elapsed >= AlertAfter /\ issue # NoCode
           /\ health' = down /\ watch' = [w EXCEPT !.alerted = TRUE]
  <2>1. /\ watch' \in Watch /\ watch'.pc = "sleep" /\ watch'.since = w.since
        /\ watch'.elapsed = w.elapsed /\ watch'.alerted
    BY <1>6 DEF Watch
  <2>2. QED BY <1>0, <1>1, <1>6, <2>1 DEF Kind
<1>7. CASE /\ ~w.alerted /\ w.elapsed >= AlertAfter
           /\ health' = Degraded(down, "link_offline", w.elapsed)
           /\ watch' = [w EXCEPT !.alerted = TRUE,
                                 !.pc = IF IsNews(down, "link_offline", w.elapsed)
                                        THEN "tell" ELSE "sleep"]
  <2>1. /\ watch' \in Watch /\ watch'.since = w.since
        /\ watch'.elapsed = w.elapsed /\ watch'.alerted
        /\ watch'.pc = IF IsNews(down, "link_offline", w.elapsed)
                       THEN "tell" ELSE "sleep"
    BY <1>7 DEF Watch
  <2>2. ~IsNews(down, "link_offline", w.elapsed) => health.issue.code = "link_offline"
    BY <1>1 DEF IsNews
  <2>3. /\ health' \in Health /\ health'.status = "degraded"
        /\ health'.issue.code = "link_offline"
    BY <1>0, <1>1, <1>7 DEF Degraded, Health, Issue, Code
  <2>4. QED BY <2>1, <2>2, <2>3 DEF Kind
<1>8. QED BY <1>2, <1>3, <1>4, <1>5, <1>6, <1>7

(* The intervals as numbers, for the steps that compare with them.         *)
LEMMA BoundsHold ==
  /\ AlertAfter \in Nat /\ AlertAfter > 0
  /\ SelfHealGrace \in Nat /\ StartupGrace \in Nat /\ Cooldown \in Nat
  BY WatchdogAssumption

-----------------------------------------------------------------------------
(* The adapter and the alerts                                              *)

(* MAX becomes ready: the adapter clears the issue, an outage in progress  *)
(* becomes unseen.                                                         *)
LEMMA ConnectIInv ==
  ASSUME WatchdogIInv, Connect
  PROVE  WatchdogIInv'
<1>1. /\ health' \in Health /\ health'.status = "healthy"
      /\ health'.issue.code = NoCode
  BY HealthyType DEF WatchdogIInv, WatchdogTypeOK, Connect
<1>2. /\ worker' = worker /\ link' = TRUE /\ issue' = NoCode /\ announced' = NoCode
      /\ unseen' = (watch.since # Never) /\ owed' \subseteq {"issue", "recovered"}
      /\ told' = FALSE /\ lapsed' = FALSE
      /\ UNCHANGED <<mode, now, probed, healFile, watch, downSince, healed>>
  BY DEF Connect, WatchdogIInv, WatchdogTypeOK
<1>3. WatchdogTypeOK'
  BY <1>1, <1>2 DEF WatchdogIInv, WatchdogTypeOK
<1>4. HealIsRecorded'
  BY <1>2 DEF WatchdogIInv, HealIsRecorded
<1>5. WatchFits'
  BY <1>2 DEF WatchdogIInv, WatchFits
<1>6. IssueFits' /\ OutageIsShown'
  BY <1>2 DEF IssueFits, OutageIsShown, TakenUp, NoCode
<1>7. OutageIsTold'
  BY <1>1, <1>2 DEF WatchdogIInv, OutageIsTold, Manual, TakenUp, Kind, NoCode
<1>8. QED BY <1>3, <1>4, <1>5, <1>6, <1>7 DEF WatchdogIInv

(* The connection is lost: the watchdog has not taken it up yet.           *)
LEMMA LoseIInv ==
  ASSUME WatchdogIInv, Lose
  PROVE  WatchdogIInv'
<1>1. /\ link /\ link' = FALSE /\ downSince' = now
      /\ UNCHANGED <<mode, worker, now, issue, announced, probed, health, healFile,
                     watch, owed, told, lapsed, unseen, healed>>
  BY DEF Lose
<1>2. WatchdogTypeOK'
  BY <1>1 DEF WatchdogIInv, WatchdogTypeOK
<1>3. HealIsRecorded' /\ WatchFits' /\ IssueFits'
  BY <1>1 DEF WatchdogIInv, HealIsRecorded, WatchFits, IssueFits
<1>4. unseen \/ (watch.elapsed = 0 /\ ~watch.alerted /\ ~watch.pending)
  BY <1>1 DEF WatchdogIInv, WatchFits
<1>5. OutageIsShown' /\ OutageIsTold'
  BY <1>1, <1>4, BoundsHold
     DEF WatchdogIInv, OutageIsShown, OutageIsTold, Manual, TakenUp, Warned
<1>6. QED BY <1>2, <1>3, <1>5 DEF WatchdogIInv

(* A failed start reports its issue unless it is announced already.        *)
LEMMA StartFailsIInv ==
  ASSUME WatchdogIInv, NEW kind \in {"fault", "reauth"}, StartFails(kind)
  PROVE  WatchdogIInv'
<1>1. /\ ~link /\ issue' = kind /\ announced' = kind /\ issue = announced
      /\ kind \in Kind /\ kind # NoCode
      /\ UNCHANGED <<mode, worker, now, link, probed, healFile, watch, told, lapsed,
                     downSince, unseen, healed>>
  BY DEF StartFails, WatchdogIInv, IssueFits, Kind, NoCode, history
<1>2. \/ /\ announced = kind /\ UNCHANGED <<health, owed>>
      \/ /\ health' = Degraded(health, kind, 0)
         /\ owed' = IF IsNews(health, kind, 0) /\ (Manual \/ kind = "reauth")
                    THEN owed \cup {"issue"} ELSE owed
  BY DEF StartFails
<1>3. HealIsRecorded' /\ WatchFits'
  BY <1>1 DEF WatchdogIInv, HealIsRecorded, WatchFits
<1>4. CASE announced = kind /\ UNCHANGED <<health, owed>>
  <2>1. WatchdogTypeOK' /\ IssueFits' /\ OutageIsShown' /\ OutageIsTold'
    BY <1>1, <1>4 DEF WatchdogIInv, WatchdogTypeOK, IssueFits, OutageIsShown, OutageIsTold, Manual,
                      TakenUp, Warned, Kind
  <2>2. QED BY <1>3, <2>1 DEF WatchdogIInv
<1>5. CASE /\ health' = Degraded(health, kind, 0)
           /\ owed' = IF IsNews(health, kind, 0) /\ (Manual \/ kind = "reauth")
                      THEN owed \cup {"issue"} ELSE owed
  <2>1. /\ health' \in Health /\ health'.status = "degraded"
        /\ health'.issue.code = kind
    BY <1>5 DEF Degraded, Health, Issue, Code, WatchdogIInv, WatchdogTypeOK
  <2>2. WatchdogTypeOK' /\ IssueFits' /\ OutageIsShown'
    BY <1>1, <1>5, <2>1 DEF WatchdogIInv, WatchdogTypeOK, IssueFits, OutageIsShown, Kind
  <2>3. Manual => Warned'
    <3>1. CASE IsNews(health, kind, 0)
      BY <1>5, <3>1 DEF Warned
    <3>2. CASE ~IsNews(health, kind, 0)
      BY <1>1, <1>5, <3>2 DEF IsNews, WatchdogIInv, OutageIsTold, Warned, Kind
    <3>3. QED BY <3>1, <3>2
  <2>4. OutageIsTold'
    BY <1>1, <2>1, <2>3 DEF WatchdogIInv, OutageIsTold, Manual, Kind
  <2>5. QED BY <1>3, <2>2, <2>4 DEF WatchdogIInv
<1>6. QED BY <1>2, <1>4, <1>5

(* A queued alert goes out.                                                *)
LEMMA SendIInv ==
  ASSUME WatchdogIInv, NEW alert \in {"issue", "recovered"}, Send(alert)
  PROVE  WatchdogIInv'
<1>1. /\ owed' = owed \ {alert} /\ told' = (told \/ alert = "issue")
      /\ UNCHANGED <<mode, worker, now, link, issue, announced, probed, health,
                     healFile, watch, lapsed, downSince, unseen, healed>>
  BY DEF Send, adapter
<1>2. WatchdogTypeOK' /\ HealIsRecorded' /\ WatchFits' /\ IssueFits' /\ OutageIsShown'
  BY <1>1 DEF WatchdogIInv, WatchdogTypeOK, HealIsRecorded, WatchFits, IssueFits, OutageIsShown,
              TakenUp
<1>3. (Warned => Warned') /\ (told => told')
  BY <1>1 DEF Warned
<1>4. OutageIsTold'
  BY <1>1, <1>3 DEF WatchdogIInv, OutageIsTold, Manual, TakenUp
<1>5. QED BY <1>2, <1>4 DEF WatchdogIInv

-----------------------------------------------------------------------------
(* The watchdog                                                            *)

(* A poll that sees MAX ready forgets the outage.                          *)
LEMMA PollReadyIInv ==
  ASSUME WatchdogIInv, PollReady
  PROVE  WatchdogIInv'
<1>1. /\ link /\ watch.pc = "sleep" /\ watch' = Asleep /\ unseen' = FALSE
      /\ UNCHANGED <<mode, worker, now, link, issue, announced, probed, health,
                     healFile, owed, told, lapsed, downSince, healed>>
  BY DEF PollReady, Polls, SeesReady, adapter
<1>2. WatchdogTypeOK'
  <2>1. watch' \in Watch /\ watch'.since <= now
    BY <1>1, AsleepType DEF WatchdogIInv, WatchdogTypeOK, Never
  <2>2. QED BY <1>1, <2>1 DEF WatchdogIInv, WatchdogTypeOK
<1>3. HealIsRecorded' /\ WatchFits' /\ IssueFits'
  BY <1>1, AsleepType DEF WatchdogIInv, HealIsRecorded, WatchFits, IssueFits
<1>4. OutageIsShown' /\ OutageIsTold'
  BY <1>1, AsleepType, BoundsHold
     DEF WatchdogIInv, OutageIsShown, OutageIsTold, Manual, TakenUp, Warned
<1>5. QED BY <1>2, <1>3, <1>4 DEF WatchdogIInv

(* A decision on an outage that was taken up, from a watch as the poll has *)
(* kept it, with the rest of the state as it was.                          *)
LEMMA DecideIInv ==
  ASSUME WatchdogIInv, Manual, WatchdogTypeOK, NEW fresh \in {NoCode, "ok", "bad"}, NEW w \in Watch,
         w.pc = "sleep", w.since # Never, w.since <= now, link => unseen,
         w.alerted = watch.alerted, w.pending = watch.pending, watch.pc # "tell",
         Decide(w, fresh, health),
         probed' \in {NoCode, "ok", "bad"},
         UNCHANGED <<mode, worker, now, adapter, healFile, owed, history, healed>>
  PROVE  WatchdogIInv'
<1>1. /\ health' \in Health /\ watch' \in Watch
      /\ watch'.since = w.since /\ watch'.elapsed = w.elapsed
      /\ watch'.pc \in {"sleep", "tell"}
      /\ watch'.pc = "tell" => watch'.alerted
      /\ w.alerted => watch'.alerted
      /\ health.status = "degraded" => health'.status = "degraded"
      /\ \/ health'.status = "degraded" \/ w.alerted \/ w.pending \/ issue # NoCode
         \/ ~watch'.alerted /\ ~watch'.pending /\ w.elapsed < AlertAfter
      /\ health'.issue.code \in Kind => health'.issue = health.issue
      /\ health'.issue.code = "link_offline" =>
           watch'.pc = "tell" \/ health.issue.code = "link_offline"
      /\ watch'.alerted =>
           \/ w.alerted /\ watch'.pc = "sleep"
           \/ issue # NoCode \/ watch'.pc = "tell"
           \/ health.issue.code = "link_offline"
      /\ w.elapsed >= AlertAfter /\ w.elapsed >= StartupGrace
           /\ w.elapsed >= SelfHealGrace => watch'.alerted
  BY DecideDoes
<1>2. UNCHANGED <<mode, worker, now, link, issue, announced, healFile, owed, told,
                  lapsed, downSince, unseen, healed>>
  BY DEF adapter, history
<1>3. WatchdogTypeOK'
  BY <1>1, <1>2 DEF WatchdogTypeOK
<1>4. HealIsRecorded' /\ IssueFits'
  BY <1>1, <1>2 DEF WatchdogIInv, HealIsRecorded, IssueFits, Manual
<1>5. WatchFits'
  BY <1>1, <1>2 DEF WatchFits, Manual
<1>6. OutageIsShown'
  <2>1. w.elapsed \in Nat /\ TakenUp' = TakenUp
    BY <1>2 DEF Watch, TakenUp
  <2>2. \/ health'.status = "degraded" \/ ~TakenUp
        \/ ~watch'.alerted /\ ~watch'.pending /\ w.elapsed < AlertAfter
    BY <1>1 DEF WatchdogIInv, IssueFits, OutageIsShown
  <2>3. QED
    BY <1>1, <2>1, <2>2, BoundsHold DEF OutageIsShown
<1>7. OutageIsTold'
  <2>1. Warned' = Warned /\ Manual' /\ TakenUp' = TakenUp
    BY <1>2 DEF Warned, Manual, TakenUp
  <2>2. QED
    BY <1>1, <1>2, <2>1 DEF WatchdogIInv, OutageIsTold, Warned
<1>8. QED BY <1>3, <1>4, <1>5, <1>6, <1>7 DEF WatchdogIInv

(* A poll that sees MAX away begins a probe when one is due, or decides at *)
(* once.                                                                   *)
LEMMA PollOfflineIInv ==
  ASSUME WatchdogIInv, PollOffline
  PROVE  WatchdogIInv'
<1>1. /\ watch.pc = "sleep" /\ Manual /\ ~link /\ WatchdogTypeOK
      /\ UNCHANGED <<mode, worker, now, adapter, probed, healFile, owed, history,
                     healed>>
  BY DEF PollOffline, Polls, WatchdogIInv
<1>2. /\ Noticed \in Watch /\ Noticed.since # Never /\ Noticed.since <= now
      /\ Noticed.elapsed = now - Noticed.since
      /\ Noticed.pc = watch.pc /\ Noticed.alerted = watch.alerted
      /\ Noticed.pending = watch.pending /\ Noticed.lastProbe = watch.lastProbe
  BY <1>1, NoticedType
<1>3. CASE ~ProbeDue
  <2>1. Decide(Noticed, NoCode, health)
    BY <1>3 DEF PollOffline
  <2>2. probed' \in {NoCode, "ok", "bad"} /\ watch.pc # "tell" /\ (link => unseen)
    BY <1>1 DEF WatchdogTypeOK
  <2>3. QED
    BY <1>1, <1>2, <2>1, <2>2, DecideIInv
<1>4. CASE ProbeDue
  <2>1. /\ watch' = [Noticed EXCEPT !.pc = "probe", !.lastProbe = now]
        /\ health' = health
    BY <1>4 DEF PollOffline
  <2>2. /\ watch' \in Watch /\ watch'.since = Noticed.since /\ watch'.pc = "probe"
        /\ watch'.alerted = watch.alerted /\ watch'.pending = watch.pending
    BY <1>1, <1>2, <2>1 DEF Watch, Time, WatchdogTypeOK
  <2>3. UNCHANGED <<mode, worker, now, link, issue, announced, probed, healFile,
                    owed, told, lapsed, downSince, unseen, healed>>
    BY <1>1 DEF adapter, history
  <2>4. WatchdogTypeOK'
    BY <1>1, <1>2, <2>1, <2>2, <2>3 DEF WatchdogTypeOK
  <2>5. HealIsRecorded' /\ IssueFits' /\ WatchFits' /\ OutageIsShown'
    BY <1>1, <1>2, <2>1, <2>2, <2>3
       DEF WatchdogIInv, HealIsRecorded, IssueFits, WatchFits, OutageIsShown, TakenUp, Manual
  <2>6. OutageIsTold'
    BY <1>1, <2>1, <2>2, <2>3 DEF WatchdogIInv, OutageIsTold, Manual, TakenUp, Warned
  <2>7. QED BY <2>4, <2>5, <2>6 DEF WatchdogIInv
<1>5. QED BY <1>3, <1>4

(* The probe is over: the process restarts itself, or the outage is judged *)
(* by what the probe found.                                                *)
LEMMA ProbedIInv ==
  ASSUME WatchdogIInv, NEW found \in {"ok", "bad"}, Probed(found)
  PROVE  WatchdogIInv'
<1> DEFINE w == [watch EXCEPT !.pc = "sleep"]
<1>1. /\ watch.pc = "probe" /\ probed' = found /\ WatchdogTypeOK
      /\ UNCHANGED <<mode, worker, now, adapter, owed, history>>
  BY DEF Probed, WatchdogIInv
<1>2. /\ w \in Watch /\ w.pc = "sleep" /\ w.since = watch.since
      /\ w.elapsed = watch.elapsed /\ w.elapsed \in Nat
      /\ w.alerted = watch.alerted /\ w.pending = watch.pending
  BY <1>1 DEF WatchdogTypeOK, Watch
<1>3. /\ Manual /\ watch.since # Never /\ (link => unseen)
      /\ watch.since <= now
  BY <1>1 DEF WatchdogIInv, WatchFits, WatchdogTypeOK, Manual
<1>4. CASE Decide(w, found, health) /\ UNCHANGED <<healFile, healed>>
  <2>1. /\ probed' \in {NoCode, "ok", "bad"} /\ found \in {NoCode, "ok", "bad"}
        /\ watch.pc # "tell" /\ w.since # Never /\ w.since <= now
    BY <1>1, <1>2, <1>3
  <2>2. UNCHANGED <<mode, worker, now, adapter, healFile, owed, history, healed>>
    BY <1>1, <1>4
  <2> HIDE DEF w
  <2>3. QED
    BY <1>1, <1>2, <1>3, <1>4, <2>1, <2>2, DecideIInv
<1>5. CASE Heal(w)
  <2>1. /\ healFile' = now /\ healed' = now
        /\ health' = Degraded(health, "self_heal", w.elapsed)
        /\ watch' = [w EXCEPT !.pc = IF ~IsNews(health, "self_heal", w.elapsed)
                                     THEN "exit" ELSE "heal"]
    BY <1>3, <1>5 DEF Heal, Persist
  <2> HIDE DEF w
  <2>2. /\ watch' \in Watch /\ watch'.pc \in {"heal", "exit"}
        /\ watch'.since = watch.since /\ watch'.alerted = watch.alerted
        /\ watch'.pending = watch.pending
    BY <1>2, <2>1 DEF Watch
  <2>3. /\ health' \in Health /\ health'.status = "degraded"
        /\ health'.issue.code = "self_heal"
    BY <1>1, <1>2, <2>1 DEF Degraded, Health, Issue, Code, WatchdogTypeOK
  <2>4. UNCHANGED <<mode, worker, now, link, issue, announced, owed, told, lapsed,
                    downSince, unseen>>
    BY <1>1 DEF adapter, history
  <2>5. WatchdogTypeOK'
    BY <1>1, <1>2, <1>3, <2>1, <2>2, <2>3, <2>4 DEF WatchdogTypeOK, Time
  <2>6. HealIsRecorded'
    BY <2>1 DEF HealIsRecorded
  <2>7. WatchFits' /\ IssueFits' /\ OutageIsShown'
    BY <1>1, <1>3, <2>2, <2>3, <2>4
       DEF WatchdogIInv, IssueFits, WatchFits, OutageIsShown, Manual
  <2>8. OutageIsTold'
    BY <1>1, <2>2, <2>3, <2>4
       DEF WatchdogIInv, OutageIsTold, Manual, TakenUp, Warned, Kind
  <2>9. QED BY <2>5, <2>6, <2>7, <2>8 DEF WatchdogIInv
<1>6. QED BY <1>4, <1>5 DEF Probed

(* What the auto policy shows: degraded unless MAX is ready, and never     *)
(* another issue than the need to log in again.                            *)
LEMMA AutoHealthDoes ==
  ASSUME WatchdogTypeOK, NEW primary \in BOOLEAN,
         NEW phase \in {"primary", "waiting", "auth_blocked"},
         health' = AutoHealth(primary, phase)
  PROVE  /\ health' \in Health
         /\ issue = "reauth" => health' = health
         /\ ~link => health'.status = "degraded" \/ issue = "reauth"
         /\ issue # "reauth" => health'.issue.code \notin Kind \cup {"link_offline"}
<1>1. health \in Health
  BY DEF WatchdogTypeOK
<1>2. CASE issue = "reauth"
  BY <1>1, <1>2 DEF AutoHealth
<1>3. CASE issue # "reauth" /\ link /\ primary
  BY <1>1, <1>3, HealthyType DEF AutoHealth, Kind, NoCode
<1>4. CASE issue # "reauth" /\ ~(link /\ primary)
  <2>1. PICK code \in {"egress_managed", "egress_offline"} :
          health' = Degraded(health, code, 0)
    BY <1>4 DEF AutoHealth
  <2>2. /\ health' \in Health /\ health'.status = "degraded"
        /\ health'.issue.code = code
    <3>1. code \in Code
      BY DEF Code
    <3>2. /\ Degraded(health, code, 0) \in Health
          /\ Degraded(health, code, 0).status = "degraded"
          /\ Degraded(health, code, 0).issue.code = code
      BY <1>1, <3>1 DEF Degraded, Health, Issue
    <3>3. QED BY <2>1, <3>2
  <2>3. QED BY <1>4, <2>2 DEF Kind
<1>5. QED BY <1>2, <1>3, <1>4

(* A poll under the auto policy reports what the egress controller found.  *)
LEMMA PollAutoIInv ==
  ASSUME WatchdogIInv, NEW primary \in BOOLEAN,
         NEW phase \in {"primary", "waiting", "auth_blocked"},
         NEW found \in {"ok", "bad"}, PollAuto(primary, phase, found)
  PROVE  WatchdogIInv'
<1>1. /\ WatchdogTypeOK /\ watch.pc = "sleep" /\ mode = "auto" /\ probed' = found
      /\ unseen' = FALSE /\ health' = AutoHealth(primary, phase)
      /\ UNCHANGED <<mode, worker, now, link, issue, announced, owed, told, lapsed,
                     downSince>>
  BY DEF PollAuto, Polls, WatchdogIInv, adapter
<1>2. /\ health' \in Health
      /\ issue = "reauth" => health' = health
      /\ ~link => health'.status = "degraded" \/ issue = "reauth"
  BY <1>1, AutoHealthDoes
<1>3. /\ Noticed \in Watch /\ Noticed.since # Never /\ Noticed.since <= now
      /\ Noticed.pc = watch.pc
  BY <1>1, NoticedType
<1>4. /\ watch' \in Watch /\ watch'.since <= now /\ watch'.pc \in {"sleep", "heal"}
      /\ watch' = Asleep \/ (~link /\ watch'.since # Never)
  <2>1. CASE watch' = Asleep
    BY <1>1, <2>1, AsleepType DEF WatchdogTypeOK, Never
  <2>2. CASE ~link /\ watch' = Noticed
    BY <1>1, <1>3, <2>2
  <2>3. CASE ~link /\ watch' = [Noticed EXCEPT !.pc = "heal"]
    BY <1>3, <2>3 DEF Watch
  <2>4. QED BY <2>1, <2>2, <2>3 DEF PollAuto
<1>5. (healFile' = now /\ healed' = now) \/ UNCHANGED <<healFile, healed>>
  BY DEF PollAuto, Persist
<1>6. WatchdogTypeOK'
  BY <1>1, <1>2, <1>4, <1>5 DEF WatchdogTypeOK, Time
<1>7. HealIsRecorded'
  BY <1>1, <1>5 DEF WatchdogIInv, HealIsRecorded
<1>8. WatchFits' /\ OutageIsTold'
  BY <1>1, <1>4, AsleepType DEF WatchFits, OutageIsTold, Manual
<1>9. IssueFits'
  <2>1. issue # NoCode => health'.status = "degraded"
    BY <1>1, <1>2 DEF WatchdogIInv, IssueFits
  <2>2. QED
    BY <1>1, <1>2, <2>1 DEF WatchdogIInv, IssueFits
<1>10. OutageIsShown'
  BY <1>1, <1>2 DEF WatchdogIInv, IssueFits, OutageIsShown, TakenUp, NoCode
<1>11. QED BY <1>6, <1>7, <1>8, <1>9, <1>10 DEF WatchdogIInv

(* The warning of an outage goes out.                                      *)
LEMMA TellIInv ==
  ASSUME WatchdogIInv, Tell
  PROVE  WatchdogIInv'
<1>1. /\ watch.pc = "tell" /\ watch' = [watch EXCEPT !.pc = "sleep"] /\ told' = TRUE
      /\ UNCHANGED <<mode, worker, now, link, issue, announced, probed, health,
                     healFile, owed, lapsed, downSince, unseen, healed>>
  BY DEF Tell, adapter
<1>2. /\ watch' \in Watch /\ watch'.pc = "sleep" /\ watch'.since = watch.since
      /\ watch'.alerted = watch.alerted /\ watch'.pending = watch.pending
      /\ watch.since # Never /\ watch.alerted
  BY <1>1 DEF WatchdogIInv, WatchdogTypeOK, Watch, WatchFits
<1>3. WatchdogTypeOK' /\ HealIsRecorded' /\ WatchFits' /\ IssueFits'
  BY <1>1, <1>2 DEF WatchdogIInv, WatchdogTypeOK, HealIsRecorded, WatchFits, IssueFits
<1>4. OutageIsShown' /\ OutageIsTold'
  BY <1>1, <1>2 DEF WatchdogIInv, OutageIsShown, OutageIsTold, Manual, TakenUp, Warned
<1>5. QED BY <1>3, <1>4 DEF WatchdogIInv

-----------------------------------------------------------------------------
(* The worker, the supervisor and the process                              *)

(* However a process or a worker ends: what it owed its operators is lost, *)
(* and counted as lost unless it was sent.                                 *)
LEMMA StopIInv ==
  ASSUME WatchdogIInv, NEW then \in {"down", "backoff"}, Stop(then),
         UNCHANGED <<mode, now, healed>>,
         health' \in Health, health'.status = health.status,
         health'.issue = health.issue,
         healFile' = healFile \/ (healFile' = Never /\ RestartAllowed),
         told' \in BOOLEAN, lapsed' \in BOOLEAN,
         told \/ lapsed \/ "issue" \in owed \/ watch.pc = "tell" => told' \/ lapsed'
  PROVE  WatchdogIInv'
<1>1. /\ worker' = then /\ link' = FALSE /\ issue' = NoCode /\ announced' = NoCode
      /\ probed' = NoCode /\ watch' = Asleep /\ owed' = {} /\ unseen' = FALSE
      /\ downSince' \in {now, downSince} /\ WatchdogTypeOK
  BY DEF Stop, WatchdogIInv
<1>2. watch' \in Watch /\ watch'.since <= now
  BY <1>1, AsleepType DEF WatchdogTypeOK, Never
<1>3. WatchdogTypeOK'
  BY <1>1, <1>2 DEF WatchdogTypeOK, Time
<1>4. HealIsRecorded'
  <2>1. CASE healFile' = healFile
    BY <2>1 DEF WatchdogIInv, HealIsRecorded
  <2>2. CASE healFile' = Never /\ RestartAllowed
    <3>1. SUFFICES ASSUME healed # Never
                   PROVE  now - healed >= Cooldown
      BY DEF HealIsRecorded
    <3>2. healFile = healed \/ now - healed >= Cooldown
      BY <3>1 DEF WatchdogIInv, HealIsRecorded
    <3>3. healFile = Never \/ now - healFile >= Cooldown
      BY <2>2 DEF RestartAllowed
    <3>4. QED BY <3>1, <3>2, <3>3
  <2>3. QED BY <2>1, <2>2
<1>5. WatchFits' /\ IssueFits' /\ OutageIsShown'
  BY <1>1, AsleepType, BoundsHold DEF WatchFits, IssueFits, OutageIsShown, NoCode
<1>6. OutageIsTold'
  <2>1. /\ watch'.elapsed = 0 /\ watch'.pc = "sleep" /\ ~watch'.alerted
    BY <1>1, AsleepType
  <2>2. Manual' = Manual
    BY DEF Manual
  <2>3. QED
    BY <1>1, <2>1, <2>2, BoundsHold DEF WatchdogIInv, OutageIsTold, Warned
<1>7. QED BY <1>3, <1>4, <1>5, <1>6 DEF WatchdogIInv

(* The process or the watchdog's task ends, on purpose or not.             *)
LEMMA EndingsIInv ==
  ASSUME WatchdogIInv, Exit \/ Crash \/ TornWrite \/ WorkerFails
  PROVE  WatchdogIInv'
<1>0. health \in Health /\ told \in BOOLEAN /\ lapsed \in BOOLEAN
  BY DEF WatchdogIInv, WatchdogTypeOK
<1>1. CASE Exit
  <2>1. /\ Stop("down") /\ UNCHANGED <<mode, now, healed>> /\ health' = health
        /\ healFile' = healFile /\ watch.pc \in {"heal", "exit"}
        /\ told' = (told \/ watch.pc = "heal")
        /\ lapsed' = (lapsed \/ "issue" \in owed)
    BY <1>1 DEF Exit
  <2>2. /\ told' \in BOOLEAN /\ lapsed' \in BOOLEAN
        /\ told \/ lapsed \/ "issue" \in owed \/ watch.pc = "tell" => told' \/ lapsed'
    BY <2>1
  <2>3. QED BY <1>0, <2>1, <2>2, StopIInv
<1>2. CASE Crash
  <2>1. /\ Stop("down") /\ UNCHANGED <<mode, now, healed>> /\ health' = health
        /\ healFile' = healFile /\ told' = told
        /\ lapsed' = (lapsed \/ "issue" \in owed \/ watch.pc \in {"tell", "heal"})
    BY <1>2 DEF Crash
  <2>2. /\ told' \in BOOLEAN /\ lapsed' \in BOOLEAN
        /\ told \/ lapsed \/ "issue" \in owed \/ watch.pc = "tell" => told' \/ lapsed'
    BY <1>0, <2>1
  <2>3. QED BY <1>0, <2>1, <2>2, StopIInv
<1>3. CASE TornWrite
  <2>1. /\ Stop("down") /\ UNCHANGED <<mode, now, healed>> /\ health' = health
        /\ healFile' = Never /\ RestartAllowed /\ told' = told
        /\ watch.pc # "tell" /\ lapsed' = (lapsed \/ "issue" \in owed)
    BY <1>3 DEF TornWrite, Polls
  <2>2. /\ told' \in BOOLEAN /\ lapsed' \in BOOLEAN
        /\ told \/ lapsed \/ "issue" \in owed \/ watch.pc = "tell" => told' \/ lapsed'
    BY <1>0, <2>1
  <2>3. QED BY <1>0, <2>1, <2>2, StopIInv
<1>4. CASE WorkerFails
  <2>1. /\ Stop("backoff") /\ UNCHANGED <<mode, now, healed>>
        /\ health' = [health EXCEPT !.runtime = "degraded"]
        /\ healFile' = healFile /\ told' = told
        /\ lapsed' = (lapsed \/ "issue" \in owed \/ watch.pc \in {"tell", "heal"})
    BY <1>4 DEF WorkerFails
  <2>2. /\ told' \in BOOLEAN /\ lapsed' \in BOOLEAN
        /\ told \/ lapsed \/ "issue" \in owed \/ watch.pc = "tell" => told' \/ lapsed'
    BY <1>0, <2>1
  <2>3. /\ health' \in Health /\ health'.status = health.status
        /\ health'.issue = health.issue
    BY <1>0, <2>1 DEF Health
  <2>4. QED BY <2>1, <2>2, <2>3, StopIInv
<1>5. QED BY <1>1, <1>2, <1>3, <1>4

(* The process or the watchdog's task starts again and knows no outage.    *)
LEMMA StartsIInv ==
  ASSUME WatchdogIInv, ProcessStarts \/ WorkerRuns \/ WorkerRestarts
  PROVE  WatchdogIInv'
<1>1. /\ worker' \in {"starting", "running"}
      /\ UNCHANGED <<mode, now, link, issue, announced, probed, healFile, watch, owed,
                     told, lapsed, downSince, unseen, healed>>
  BY DEF ProcessStarts, WorkerRuns, WorkerRestarts, adapter, history
<1>2. PICK state \in {"recovering", "healthy"} :
        health' = [health EXCEPT !.runtime = state]
  BY DEF ProcessStarts, WorkerRuns, WorkerRestarts
<1>3. /\ health' \in Health /\ health'.status = health.status
      /\ health'.issue = health.issue
  BY <1>2 DEF WatchdogIInv, WatchdogTypeOK, Health
<1>4. WatchdogTypeOK'
  BY <1>1, <1>3 DEF WatchdogIInv, WatchdogTypeOK
<1>5. HealIsRecorded' /\ WatchFits' /\ IssueFits' /\ OutageIsShown'
  BY <1>1, <1>3
     DEF WatchdogIInv, HealIsRecorded, WatchFits, IssueFits, OutageIsShown, TakenUp
<1>6. OutageIsTold'
  BY <1>1, <1>3 DEF WatchdogIInv, OutageIsTold, Manual, TakenUp, Warned
<1>7. QED BY <1>4, <1>5, <1>6 DEF WatchdogIInv

(* The owner's status command stores its own probe.                        *)
LEMMA StatusIInv ==
  ASSUME WatchdogIInv, NEW found \in {"ok", "bad"}, Status(found)
  PROVE  WatchdogIInv'
<1>1. /\ probed' = found
      /\ UNCHANGED <<mode, worker, now, link, issue, announced, health, healFile,
                     watch, owed, told, lapsed, downSince, unseen, healed>>
  BY DEF Status, adapter, history
<1>2. QED
  BY <1>1 DEF WatchdogIInv, WatchdogTypeOK, HealIsRecorded, WatchFits, IssueFits, OutageIsShown,
              OutageIsTold, Manual, TakenUp, Warned

(* Time passes; only distances from now grow.                              *)
LEMMA SecondIInv ==
  ASSUME WatchdogIInv, Second
  PROVE  WatchdogIInv'
<1>1. PICK later \in Nat : later = now + 1 /\ now' = later
  BY DEF Second, WatchdogIInv, WatchdogTypeOK
<1>2. UNCHANGED <<mode, worker, link, issue, announced, probed, health, healFile,
                  watch, owed, told, lapsed, downSince, unseen, healed>>
  BY DEF Second, adapter, history
<1>3. now \in Nat /\ healed \in Time /\ watch.since \in Time /\ watch.since <= now
  BY DEF WatchdogIInv, WatchdogTypeOK, Watch
<1>4. watch.since <= later /\ (now - healed >= Cooldown => later - healed >= Cooldown)
  BY <1>1, <1>3, BoundsHold DEF Time, Never
<1>5. WatchdogTypeOK'
  BY <1>1, <1>2, <1>4 DEF WatchdogIInv, WatchdogTypeOK
<1>6. HealIsRecorded'
  BY <1>1, <1>2, <1>4 DEF WatchdogIInv, HealIsRecorded
<1>7. WatchFits' /\ IssueFits' /\ OutageIsShown' /\ OutageIsTold'
  BY <1>2 DEF WatchdogIInv, WatchFits, IssueFits, OutageIsShown, OutageIsTold, Manual,
              TakenUp, Warned
<1>8. QED BY <1>5, <1>6, <1>7 DEF WatchdogIInv

-----------------------------------------------------------------------------
(* The theorems                                                            *)

(* The inductive invariant holds initially ...                             *)
LEMMA WatchdogInitIInv == WatchdogInit => WatchdogIInv
<1> SUFFICES ASSUME WatchdogInit PROVE WatchdogIInv
  OBVIOUS
<1>1. health \in Health /\ health.status = "starting" /\ health.issue.code = NoCode
  BY DEF WatchdogInit, Health, Issue, Code, NoIssue
<1>2. watch \in Watch /\ watch.since <= now
  BY AsleepType DEF WatchdogInit, Never
<1>3. WatchdogTypeOK
  BY <1>1, <1>2, WatchdogAssumption DEF WatchdogInit, WatchdogTypeOK, Time
<1>4. HealIsRecorded /\ WatchFits /\ IssueFits /\ OutageIsShown /\ OutageIsTold
  BY <1>1, AsleepType, BoundsHold
     DEF WatchdogInit, HealIsRecorded, WatchFits, IssueFits, OutageIsShown, OutageIsTold,
         TakenUp, Kind, NoCode
<1>5. QED BY <1>3, <1>4 DEF WatchdogIInv

(* ... is kept by every step, one case per action ...                      *)
LEMMA WatchdogNextIInv == WatchdogIInv /\ [WatchdogNext]_watchdogVars => WatchdogIInv'
<1> SUFFICES ASSUME WatchdogIInv, [WatchdogNext]_watchdogVars PROVE WatchdogIInv'
  OBVIOUS
<1>1. CASE Connect
  BY <1>1, ConnectIInv
<1>2. CASE Lose
  BY <1>2, LoseIInv
<1>3. CASE \E kind \in {"fault", "reauth"} : StartFails(kind)
  BY <1>3, StartFailsIInv
<1>4. CASE \E alert \in {"issue", "recovered"} : Send(alert)
  BY <1>4, SendIInv
<1>5. CASE PollReady
  BY <1>5, PollReadyIInv
<1>6. CASE PollOffline
  BY <1>6, PollOfflineIInv
<1>7. CASE \E found \in {"ok", "bad"} : Probed(found) \/ Status(found)
  BY <1>7, ProbedIInv, StatusIInv
<1>8. CASE \E primary \in BOOLEAN, phase \in {"primary", "waiting", "auth_blocked"},
              found \in {"ok", "bad"} : PollAuto(primary, phase, found)
  BY <1>8, PollAutoIInv
<1>9. CASE Tell
  BY <1>9, TellIInv
<1>10. CASE Exit \/ Crash \/ TornWrite \/ WorkerFails
  BY <1>10, EndingsIInv
<1>11. CASE ProcessStarts \/ WorkerRuns \/ WorkerRestarts
  BY <1>11, StartsIInv
<1>12. CASE Second
  BY <1>12, SecondIInv
<1>13. CASE UNCHANGED watchdogVars
  BY <1>13 DEF WatchdogIInv, WatchdogTypeOK, HealIsRecorded, WatchFits, IssueFits, OutageIsShown,
               OutageIsTold, Manual, TakenUp, Warned, watchdogVars, adapter, history
<1>14. QED
  BY <1>1, <1>2, <1>3, <1>4, <1>5, <1>6, <1>7, <1>8, <1>9, <1>10, <1>11, <1>12,
     <1>13 DEF WatchdogNext

(* ... and so holds in every reachable state.                              *)
LEMMA WatchdogAlways == WatchdogSpec => []WatchdogIInv
  BY WatchdogInitIInv, WatchdogNextIInv, PTL DEF WatchdogSpec

(* Two restarts of the watchdog are at least the cooldown apart, though    *)
(* the process forgets all but a file that a crash may have spoilt: the    *)
(* file is only ever lost in the writing, which the cooldown allowed.      *)
THEOREM RestartsAlwaysSpaced == WatchdogSpec => RestartsAreSpaced
<1> DEFINE Spaced == healed' # healed /\ healed # Never => now - healed >= Cooldown
<1>1. WatchdogIInv /\ [WatchdogNext]_watchdogVars => [Spaced]_watchdogVars
  <2> SUFFICES ASSUME WatchdogIInv, WatchdogNext, healed' # healed, healed # Never
               PROVE  now - healed >= Cooldown
    BY DEF watchdogVars
  <2>1. RestartAllowed
    BY DEF WatchdogNext, Connect, Lose, StartFails, Send, PollReady, PollOffline, Probed,
           PollAuto, Tell, Exit, Crash, TornWrite, ProcessStarts, WorkerRuns,
           WorkerFails, WorkerRestarts, Status, Second, Stop
  <2>2. healFile = healed \/ now - healed >= Cooldown
    BY DEF WatchdogIInv, HealIsRecorded
  <2>3. QED BY <2>1, <2>2 DEF RestartAllowed
<1>2. QED BY <1>1, WatchdogAlways, PTL DEF WatchdogSpec, RestartsAreSpaced

(* An outage is told to the operators once it has outlasted the graces,    *)
(* whichever reporter leaves the warning to another, unless a crash took   *)
(* it.                                                                     *)
THEOREM OutagesAreTold == WatchdogSpec => []LongOutageIsTold
<1>1. WatchdogIInv => LongOutageIsTold
  BY DEF WatchdogIInv, OutageIsTold, TakenUp, Warned, LongOutageIsTold, HasPolled
<1>2. QED BY <1>1, WatchdogAlways, PTL

(* An outage the watchdog has seen for that long is never shown healthy.   *)
THEOREM OutagesAreShown == WatchdogSpec => []HealthIsHonest
<1>1. WatchdogIInv => HealthIsHonest
  BY DEF WatchdogIInv, OutageIsShown, TakenUp, HealthIsHonest, HasPolled
<1>2. QED BY <1>1, WatchdogAlways, PTL

(* Under the auto policy the need to log in again stays on show.           *)
THEOREM ReauthIsShown == WatchdogSpec => []ReauthIsNotMasked
<1>1. WatchdogIInv => ReauthIsNotMasked
  BY DEF WatchdogIInv, IssueFits, ReauthIsNotMasked
<1>2. QED BY <1>1, WatchdogAlways, PTL

================================================================================
