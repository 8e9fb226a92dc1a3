------------------------------- MODULE ChatTopics -------------------------------
(***************************************************************************)
(* Which Telegram topic belongs to which MAX chat, and who changes it: the *)
(* handlers of messages, which create a topic when a chat has none; the    *)
(* owner, who moves a topic to another chat after a change of account, or  *)
(* joins a chat by a link; and the recovery scan, which copies the         *)
(* bindings into the registry the owner works from.                        *)
(*                                                                         *)
(* All of them share one connection to the database.  A statement opens    *)
(* its transaction and the commit is a second await; transaction() keeps   *)
(* its depth in one integer, and while it is not zero nobody else commits. *)
(***************************************************************************)
EXTENDS Integers, FiniteSets

CONSTANTS Chats,
          Handlers,     \* calls of handle_max_message, once each
          Presses,      \* presses of the button under a link, once each
          LinkChat,     \* the chat the link leads to
          Recorder,     \* a handler about to record its delivery
          Operator,     \* the owner's commands
          Scan,         \* recovery scans
          Scenarios,    \* which of these are at work together
          None,
          MaxTopics,
          MaxRemaps,
          MaxFaults

ASSUME TopicsAssumption ==
  /\ LinkChat \in Chats
  /\ Handlers \cap Presses = {}
  /\ IsFiniteSet(Handlers \cup Presses)
  /\ None \notin Chats
  /\ Scenarios \subseteq
       SUBSET (Handlers \cup Presses \cup {Recorder, Operator, Scan})
  /\ MaxTopics \in Nat /\ MaxRemaps \in Nat /\ MaxFaults \in Nat

Topics == 1..MaxTopics
Callers == Handlers \cup Presses

VARIABLES
  actors, button,  \* the scenario; is it a max_join button of a message
  db,        \* what is committed
  view,      \* what a statement on the connection sees
  began,     \* a statement has opened a transaction
  depth,     \* Repository._transaction_depth
  call,      \* what each handler and press is doing
  recorder,  \* what the recording transaction is doing
  cmd,       \* what the owner's command is doing
  remaps,
  scan,      \* the scan that holds the scan lock
  wanted,    \* an event scan is scheduled
  made,      \* topics Telegram has created
  excused,   \* topics whose binding a fault or a remap took: see Lose
  joins,     \* joins sent to MAX
  joined,    \* MaxJoinService._joined holds the link
  doubled,   \* presses of a max_join button begun before another is marked
  faults

conn == <<db, view, began, depth>>
world == <<made, excused, joins, joined, doubled>>
vars == <<actors, button, conn, call, recorder, cmd, remaps, scan, wanted,
          world, faults>>

-----------------------------------------------------------------------------
Unbound == [topic |-> 0, named |-> FALSE]
NoEntry == [cur |-> None, old |-> None]
AtRest == [pc |-> "idle", chat |-> LinkChat, topic |-> 0, named |-> FALSE,
           then |-> "over", ok |-> TRUE]
Empty == [bind |-> [c \in Chats |-> Unbound],
          reg  |-> [t \in Topics |-> NoEntry],
          act  |-> "pending",   \* telegram_callback_actions
          rec  |-> 0]           \* statements of the recording transaction

Init ==
  /\ actors \in Scenarios
  /\ button \in BOOLEAN
  /\ db = Empty
  /\ view = Empty
  /\ began = FALSE
  /\ depth = 0
  /\ call = [h \in Callers |-> AtRest]
  /\ recorder = "idle"
  /\ cmd = [pc |-> "idle", topic |-> 0, to |-> None]
  /\ remaps = 0
  /\ scan = [pc |-> "idle", event |-> FALSE, list |-> {}]
  /\ wanted = FALSE
  /\ made = 0
  /\ excused = {}
  /\ joins = 0
  /\ joined = FALSE
  /\ doubled = 0
  /\ faults = 0

-----------------------------------------------------------------------------
(* The connection: BaseRepo and Repository.transaction.                    *)

Execute(v) == view' = v /\ began' = TRUE /\ UNCHANGED <<db, depth>>

(* Variant: a statement commits whatever transaction it is in.             *)
CommitAlways ==
  db' = view /\ began' = FALSE /\ UNCHANGED <<view, depth>>

Commit ==
  /\ IF depth = 0 THEN db' = view /\ began' = FALSE
                  ELSE UNCHANGED <<db, began>>
  /\ UNCHANGED <<view, depth>>

Bound(b) == {b[c].topic : c \in Chats} \ {0}

(* A call that found no topic for its chat and will save a new one.        *)
Creating(h) == call[h].pc \in {"create", "bind"}

(* What is not committed is gone, topics with their bindings.              *)
Lose(held) == excused' = excused \cup (Bound(view.bind) \ Bound(db.bind)) \cup held

Record(pc) == recorder = pc

(* BEGIN IMMEDIATE fails in an open transaction, of whomever.              *)
BeginRecord ==
  /\ Record("idle") /\ Recorder \in actors
  /\ IF depth = 0 /\ ~began
     THEN depth' = 1 /\ began' = TRUE /\ recorder' = "mapping"
     ELSE recorder' = "over" /\ UNCHANGED <<began, depth>>
  /\ UNCHANGED <<actors, button, db, view, call, cmd, remaps, scan, wanted, world, faults>>

WriteRecord ==
  /\ recorder \in {"mapping", "logging"}
  /\ Execute([view EXCEPT !.rec = @ + 1])
  /\ recorder' = IF Record("mapping") THEN "logging" ELSE "commit"
  /\ UNCHANGED <<actors, button, call, cmd, remaps, scan, wanted, world, faults>>

CommitRecord ==
  /\ Record("commit")
  /\ db' = view /\ began' = FALSE /\ depth' = 0
  /\ recorder' = "over"
  /\ UNCHANGED <<actors, button, view, call, cmd, remaps, scan, wanted, world, faults>>

InTransaction == recorder \in {"mapping", "logging", "commit"}

(* An exception rolls back, with what others wrote meanwhile: a chat that  *)
(* was free while a call looked may have its old topic again, and the call *)
(* will take it.                                                           *)
RecordRaised ==
  /\ faults < MaxFaults
  /\ InTransaction
  /\ view' = db /\ began' = FALSE /\ depth' = 0
  /\ Lose({db.bind[call[h].chat].topic : h \in {g \in Callers : Creating(g)}})
  /\ recorder' = "over"
  /\ faults' = faults + 1
  /\ UNCHANGED <<actors, button, db, call, cmd, remaps, scan, wanted, made, joins,
                 joined, doubled>>

(* CancelledError is no Exception: the transaction stays open.             *)
RecordCancelled ==
  /\ faults < MaxFaults
  /\ InTransaction
  /\ depth' = 0
  /\ recorder' = "cancelled"
  /\ faults' = faults + 1
  /\ UNCHANGED <<actors, button, db, view, began, call, cmd, remaps, scan, wanted, world>>

-----------------------------------------------------------------------------
(* RecoveryScheduler.schedule_event_scan cancels the event scan that runs; *)
(* what it has written stays in the open transaction.                      *)
ScheduleScan ==
  /\ wanted' = TRUE
  /\ scan' = IF scan.event THEN [pc |-> "idle", event |-> FALSE, list |-> {}]
                           ELSE scan

(* safe_scan, under the scan lock, for an event or weekly.                 *)
StartScan ==
  /\ scan.pc = "idle" /\ Scan \in actors
  /\ \E event \in BOOLEAN :
       /\ event => wanted
       /\ wanted' = (wanted /\ ~event)
       /\ scan' = [pc |-> "list", event |-> event, list |-> {}]
  /\ UNCHANGED <<actors, button, conn, call, recorder, cmd, remaps, world, faults>>

ListBindings ==
  /\ scan.pc = "list"
  /\ scan' = [scan EXCEPT !.pc = "write",
                !.list = {<<view.bind[c].topic, c>> :
                            c \in {d \in Chats : view.bind[d].topic # 0}}]
  /\ UNCHANGED <<actors, button, conn, call, recorder, cmd, remaps, wanted, world, faults>>

Coalesced(a, b) == IF a # None THEN a ELSE b

(* Variant: the chat a topic had stays.                                    *)
SnapshotKept(e, c) ==
  [cur |-> Coalesced(e.cur, c), old |-> Coalesced(e.old, Coalesced(e.cur, c))]

(* upsert_recovery_snapshot: the first chat of a topic is kept as old.     *)
Snapshot(e, c) == [cur |-> c, old |-> Coalesced(e.old, Coalesced(e.cur, c))]

WriteEntry ==
  /\ scan.pc = "write"
  /\ scan.list # {}
  /\ LET e == CHOOSE e \in scan.list : \A f \in scan.list : e[1] <= f[1]
     IN /\ Execute([view EXCEPT !.reg[e[1]] = Snapshot(@, e[2])])
        /\ scan' = [scan EXCEPT !.list = @ \ {e}]
  /\ UNCHANGED <<actors, button, call, recorder, cmd, remaps, wanted, world, faults>>

EndScan ==
  /\ scan.pc = "write"
  /\ scan.list = {}
  /\ Commit
  /\ scan' = [scan EXCEPT !.pc = "idle", !.event = FALSE]
  /\ UNCHANGED <<actors, button, call, recorder, cmd, remaps, wanted, world, faults>>

-----------------------------------------------------------------------------
At(h, pc) == call[h].pc = pc
Goto(h, pc) == call' = [call EXCEPT ![h].pc = pc]
Thread(h) == UNCHANGED <<actors, button, recorder, cmd, remaps, faults>>

(* _get_or_create_topic: one call per chat at a time.                      *)
InLock(h) == call[h].pc \in {"look", "create", "bind", "rename", "commit"}

Arrive(h, c) ==
  /\ h \in Handlers \cap actors
  /\ At(h, "idle")
  /\ call' = [call EXCEPT ![h].pc = "wait", ![h].chat = c]
  /\ UNCHANGED <<conn, scan, wanted, world>> /\ Thread(h)

(* Variant: there is no lock.                                              *)
EnterAnyway(h) ==
  /\ At(h, "wait")
  /\ Goto(h, "look")
  /\ UNCHANGED <<conn, scan, wanted, world>> /\ Thread(h)

Enter(h) ==
  /\ At(h, "wait")
  /\ \A g \in Callers \ {h} : call[g].chat = call[h].chat => ~InLock(g)
  /\ Goto(h, "look")
  /\ UNCHANGED <<conn, scan, wanted, world>> /\ Thread(h)

(* The binding is read; resolve_chat_title finds a name or does not.       *)
LookUp(h) ==
  /\ At(h, "look")
  /\ LET row == view.bind[call[h].chat]
     IN \E named \in BOOLEAN :
          call' = [call EXCEPT ![h].named = named, ![h].pc =
                     CASE row.topic = 0 -> "create"
                       [] row.topic # 0 /\ ~row.named /\ named -> "rename"
                       [] OTHER -> call[h].then]
  /\ UNCHANGED <<conn, scan, wanted, world>> /\ Thread(h)

CreateTopic(h) ==
  /\ At(h, "create")
  /\ \/ /\ made < MaxTopics
        /\ made' = made + 1
        /\ call' = [call EXCEPT ![h].pc = "bind", ![h].topic = made + 1]
     \/ /\ call' = [call EXCEPT ![h].pc = call[h].then, ![h].ok = FALSE]
        /\ UNCHANGED made
  /\ UNCHANGED <<conn, scan, wanted, excused, joins, joined, doubled>> /\ Thread(h)

(* Telegram creates the topic after the call has timed out.                *)
CreateLost(h) ==
  /\ faults < MaxFaults
  /\ At(h, "create")
  /\ made < MaxTopics
  /\ made' = made + 1
  /\ excused' = excused \cup {made + 1}
  /\ call' = [call EXCEPT ![h].pc = call[h].then, ![h].ok = FALSE]
  /\ faults' = faults + 1
  /\ UNCHANGED <<actors, button, conn, recorder, cmd, remaps, scan, wanted, joins,
                 joined, doubled>>

SaveBinding(h) ==
  /\ At(h, "bind")
  /\ Execute([view EXCEPT !.bind[call[h].chat] =
                [topic |-> call[h].topic, named |-> call[h].named]])
  /\ call' = [call EXCEPT ![h].pc = "commit", ![h].topic = 0]
  /\ UNCHANGED <<scan, wanted, world>> /\ Thread(h)

(* update_title, whether or not Telegram has taken the name.               *)
UpdateTitle(h) ==
  /\ At(h, "rename")
  /\ LET row == view.bind[call[h].chat]
     IN Execute([view EXCEPT !.bind[call[h].chat].named = row.topic # 0])
  /\ Goto(h, "commit")
  /\ UNCHANGED <<scan, wanted, world>> /\ Thread(h)

CommitTopic(h) ==
  /\ At(h, "commit")
  /\ Commit
  /\ ScheduleScan
  /\ Goto(h, call[h].then)
  /\ UNCHANGED world /\ Thread(h)

-----------------------------------------------------------------------------
(* A press has joined, or is about to, and has not marked its button yet.  *)
Unmarked == {h \in Callers : call[h].pc \in {"join", "finish"}}

(* A press: MaxJoinService.handle for the owner's link, and                *)
(* handle_telegram_callback_action for a max_join button, which takes no   *)
(* claim.                                                                  *)
Press(p) ==
  /\ p \in Presses \cap actors
  /\ At(p, "idle")
  /\ Goto(p, IF view.act # "pending" THEN "over"
             ELSE IF button THEN "join" ELSE "claim")
  /\ doubled' = IF view.act = "pending" /\ button /\ Unmarked # {}
                THEN doubled + 1 ELSE doubled
  /\ UNCHANGED <<conn, scan, wanted, made, excused, joins, joined>> /\ Thread(p)

(* Variant: the claim does not ask for the status.                         *)
ClaimAny(p) ==
  /\ At(p, "claim")
  /\ Execute([view EXCEPT !.act = "processing"])
  /\ Goto(p, "claimed")
  /\ UNCHANGED <<scan, wanted, world>> /\ Thread(p)

(* claim_callback_action                                                   *)
Claim(p) ==
  /\ At(p, "claim")
  /\ Execute([view EXCEPT !.act = IF @ = "pending" THEN "processing" ELSE @])
  /\ Goto(p, IF view.act = "pending" THEN "claimed" ELSE "closing")
  /\ UNCHANGED <<scan, wanted, world>> /\ Thread(p)

(* The owner confirmed, or it was cancelled or too old.                    *)
CommitClaim(p) ==
  /\ At(p, "claimed")
  /\ Commit
  /\ Goto(p, "queue") \/ call' = [call EXCEPT ![p].pc = "finish", ![p].ok = FALSE]
  /\ UNCHANGED <<scan, wanted, world>> /\ Thread(p)

TakeJoinLock(p) ==
  /\ At(p, "queue")
  /\ \A q \in Presses \ {p} :
       ~(call[q].pc \in {"join", "wait", "finish"} \/ InLock(q))
  /\ Goto(p, "join")
  /\ UNCHANGED <<conn, scan, wanted, world>> /\ Thread(p)

(* From the cache of the last minute or from MAX: member, awaiting an      *)
(* administrator, or an error.  Only the owner's link leads to a topic.    *)
Join(p) ==
  /\ At(p, "join")
  /\ \E hit \in BOOLEAN :
       /\ hit => joined /\ ~button
       /\ joins' = IF hit THEN joins ELSE joins + 1
       /\ \/ /\ joined' = ~button
             /\ call' = [call EXCEPT ![p].pc = IF button THEN "finish" ELSE "wait",
                                     ![p].then = "finish"]
          \/ /\ ~hit
             /\ \E ok \in BOOLEAN :
                  call' = [call EXCEPT ![p].pc = "finish", ![p].ok = ok]
             /\ UNCHANGED joined
  /\ UNCHANGED <<conn, scan, wanted, made, excused, doubled>> /\ Thread(p)

CacheLapses ==
  /\ joined
  /\ joined' = FALSE
  /\ UNCHANGED <<actors, button, conn, call, recorder, cmd, remaps, scan, wanted,
                 made, excused, joins, doubled, faults>>

(* mark_callback_action_used                                               *)
FinishJoin(p) ==
  /\ At(p, "finish")
  /\ Execute([view EXCEPT !.act = IF call[p].ok THEN "used" ELSE "failed"])
  /\ Goto(p, "closing")
  /\ UNCHANGED <<scan, wanted, world>> /\ Thread(p)

CloseJoin(p) ==
  /\ At(p, "closing")
  /\ Commit
  /\ Goto(p, "over")
  /\ UNCHANGED <<scan, wanted, world>> /\ Thread(p)

CallStep(h) ==
  \/ Enter(h) \/ LookUp(h) \/ CreateTopic(h) \/ SaveBinding(h)
  \/ UpdateTitle(h) \/ CommitTopic(h)
  \/ Claim(h) \/ CommitClaim(h) \/ TakeJoinLock(h) \/ Join(h)
  \/ FinishJoin(h) \/ CloseJoin(h)

-----------------------------------------------------------------------------
(* The owner: /recovery remap, and /join, which expires old requests.      *)

Owner == UNCHANGED <<actors, button, call, recorder, scan, wanted, made, joins,
                     joined, doubled, faults>>

StartRemap(t, c) ==
  /\ cmd.pc = "idle" /\ Operator \in actors
  /\ remaps < MaxRemaps
  /\ t \in Bound(view.bind)
  /\ cmd' = [pc |-> "check", topic |-> t, to |-> c]
  /\ remaps' = remaps + 1
  /\ UNCHANGED <<conn, excused>> /\ Owner

CheckTarget ==
  /\ cmd.pc = "check"
  /\ cmd' = [cmd EXCEPT !.pc =
               IF view.bind[cmd.to].topic \in {0, cmd.topic} THEN "update"
                                                            ELSE "idle"]
  /\ UNCHANGED <<conn, remaps, excused>> /\ Owner

Holder(t) == {c \in Chats : view.bind[c].topic = t}

(* The UPDATE; the primary key refuses a chat that was bound meanwhile and *)
(* the command ends, with the transaction the statement has opened.  A     *)
(* call that is creating a topic for the chat will take it back.           *)
MoveBinding ==
  /\ cmd.pc = "update"
  /\ LET from == Holder(cmd.topic)
         free == view.bind[cmd.to].topic = 0 \/ cmd.to \in from
         moved == [c \in Chats |->
                     CASE c = cmd.to -> view.bind[CHOOSE d \in from : TRUE]
                       [] c # cmd.to /\ c \in from -> Unbound
                       [] OTHER -> view.bind[c]]
     IN IF from # {} /\ free
        THEN /\ Execute([view EXCEPT !.bind = moved])
             /\ cmd' = [cmd EXCEPT !.pc = "commit"]
             /\ excused' =
                  IF \E h \in Callers : call[h].chat = cmd.to /\ Creating(h)
                  THEN excused \cup {cmd.topic} ELSE excused
        ELSE /\ Execute(view)
             /\ cmd' = [cmd EXCEPT !.pc = IF from = {} THEN "commit" ELSE "idle"]
             /\ UNCHANGED excused
  /\ UNCHANGED remaps /\ Owner

CommitCommand ==
  /\ cmd.pc \in {"commit", "close"}
  /\ Commit
  /\ cmd' = [cmd EXCEPT !.pc = IF @ = "commit" THEN "register" ELSE "idle"]
  /\ UNCHANGED <<remaps, excused>> /\ Owner

(* remap_recovery_topic: the registry follows in statements of its own.    *)
RegisterRemap ==
  /\ cmd.pc = "register"
  /\ Execute([view EXCEPT !.reg[cmd.topic] =
                IF @ = NoEntry THEN @ ELSE Snapshot(@, cmd.to)])
  /\ cmd' = [cmd EXCEPT !.pc = "close"]
  /\ UNCHANGED <<remaps, excused>> /\ Owner

(* A press lasts less than the fifteen minutes after which it expires.     *)
ExpireRequests ==
  /\ cmd.pc = "idle" /\ Presses \cap actors # {} /\ ~button
  /\ view.act \in {"pending", "processing"}
  /\ \A p \in Presses : call[p].pc \in {"idle", "over"}
  /\ Execute([view EXCEPT !.act = "failed"])
  /\ cmd' = [cmd EXCEPT !.pc = "close"]
  /\ UNCHANGED <<remaps, excused>> /\ Owner

-----------------------------------------------------------------------------
(* The connection and every task are gone; a topic that was created and    *)
(* not saved is orphaned.                                                  *)
Crash ==
  /\ faults < MaxFaults
  /\ faults' = faults + 1
  /\ view' = db /\ began' = FALSE /\ depth' = 0
  /\ Lose({call[h].topic : h \in Callers} \ {0})
  /\ call' = [h \in Callers |-> IF At(h, "idle") THEN call[h]
                                ELSE [AtRest EXCEPT !.pc = "over"]]
  /\ recorder' = IF InTransaction THEN "over" ELSE recorder
  /\ cmd' = [cmd EXCEPT !.pc = "idle"]
  /\ scan' = [pc |-> "idle", event |-> FALSE, list |-> {}]
  /\ wanted' = FALSE
  /\ joined' = FALSE
  /\ UNCHANGED <<actors, button, db, remaps, made, joins, doubled>>

RecordStep == BeginRecord \/ WriteRecord \/ CommitRecord
ScanStep == StartScan \/ ListBindings \/ WriteEntry \/ EndScan
CommandStep == CheckTarget \/ MoveBinding \/ CommitCommand \/ RegisterRemap

Next ==
  \/ \E h \in Callers : CallStep(h) \/ CreateLost(h) \/ Press(h)
  \/ \E h \in Handlers, c \in Chats : Arrive(h, c)
  \/ RecordStep \/ RecordRaised \/ RecordCancelled
  \/ ScanStep \/ CacheLapses
  \/ \E t \in Topics, c \in Chats : StartRemap(t, c)
  \/ CommandStep \/ ExpireRequests
  \/ Crash

Spec == Init /\ [][Next]_vars

(* Calls have timeouts, commands end, and the scan comes back every week;  *)
(* weekly scans are not cancelled.                                         *)
FairSpec ==
  /\ Spec
  /\ \A h \in Callers : WF_vars(CallStep(h))
  /\ WF_vars(RecordStep) /\ WF_vars(CommandStep)
  /\ WF_vars(ScanStep) /\ SF_vars(StartScan /\ ~scan'.event)

-----------------------------------------------------------------------------
(* Properties                                                              *)

TypeOK ==
  /\ depth \in {0, 1} /\ depth = 1 => began
  /\ ~began => view = db
  /\ \A s \in {db, view} :
       /\ \A c \in Chats : s.bind[c].topic \in 0..made
       /\ \A t \in Topics : s.reg[t].cur \in Chats \cup {None}

(* Every topic Telegram was made to create is some chat's, unless a crash, *)
(* a lost answer or a rolled-back neighbour took its binding, or the owner *)
(* moved another topic to a chat while a call was creating one for it.     *)
TopicsAreBound ==
  \A t \in 1..made :
    \/ t \in excused \cup Bound(view.bind)
    \/ \E h \in Callers : call[h].topic = t

(* Two statements in a transaction are committed together, over crashes,   *)
(* rollbacks and whatever the tasks that share the connection do, unless   *)
(* the task was cancelled in it.                                           *)
TransactionsAreWhole == recorder # "cancelled" => db.rec # 1

(* The registry catches up with every binding, although event scans are    *)
(* cancelled and read before the owner's remap what they write after it.   *)
RegistryCatchesUp ==
  \A t \in Topics, c \in Chats :
    Scan \in actors /\ view.bind[c].topic = t
      ~> view.reg[t].cur = c \/ view.bind[c].topic # t

(* A link is joined at most once, its button pressed twice or a press cut  *)
(* off by a crash: a second join takes a fault that gave the claim back,   *)
(* or, at a message's max_join button, which takes no claim, a press that  *)
(* began before an earlier one was marked.                                 *)
JoinsOnce == joins <= 1 + faults + doubled

(* Not so, of a message's button pressed twice in a row: the status is     *)
(* read before the join is awaited and written after it.                   *)
EachButtonJoinsOnce == joins <= 1 + faults
===============================================================================
