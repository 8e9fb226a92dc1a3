--------------------------- MODULE ChatTopics_proofs ---------------------------
(***************************************************************************)
(* Theorems about ChatTopics, for any number of chats, handlers, presses   *)
(* and topics and any of them at work together: every topic keeps a chat,  *)
(* a transaction is whole, and a button joins once.                        *)
(***************************************************************************)
EXTENDS ChatTopics, FiniteSetTheorems, TLAPS

Row == [topic : Nat, named : BOOLEAN]

(* What the proofs need to know of the two databases.                      *)
IsStore(v) ==
  /\ v = [bind |-> v.bind, reg |-> v.reg, act |-> v.act, rec |-> v.rec]
  /\ v.bind \in [Chats -> Row]
  /\ v.rec \in Nat

Locks == {"look", "create", "bind", "rename", "commit"}
Claims == {"claimed", "queue", "join"}
Place == {"idle", "wait", "claim", "finish", "closing", "over"} \cup Locks
           \cup Claims

Calls == [pc : Place, chat : Chats, topic : Nat, named : BOOLEAN,
          then : {"over", "finish"}, ok : BOOLEAN]

Types ==
  /\ IsStore(db) /\ IsStore(view)
  /\ depth \in {0, 1}
  /\ button \in BOOLEAN
  /\ call \in [Callers -> Calls]
  /\ recorder \in {"idle", "mapping", "logging", "commit", "over",
                   "cancelled"}
  /\ cmd = [pc |-> cmd.pc, topic |-> cmd.topic, to |-> cmd.to]
  /\ cmd.pc \in {"check", "update"} => cmd.to \in Chats
  /\ made \in Nat /\ joins \in Nat /\ doubled \in Nat /\ faults \in Nat

(* While the recorder is in its transaction nobody else commits, and until *)
(* it is over the database has none of its statements, then all or none;   *)
(* unless it was cancelled.                                                *)
Whole ==
  /\ InTransaction <=> depth = 1
  /\ recorder # "cancelled" =>
       /\ db.rec = 0 \/ (recorder = "over" /\ db.rec = 2)
       /\ recorder \in {"idle", "mapping"} => view.rec = 0
       /\ recorder = "logging" => view.rec = 1
       /\ recorder = "commit" => view.rec = 2
       /\ recorder = "over" => view.rec \in {0, 2}

(* One call at a time has a chat's lock.                                   *)
OneLocked ==
  \A g, h \in Callers : InLock(g) /\ InLock(h) /\ call[g].chat = call[h].chat
                          => g = h

(* A topic that was created is held by its call until it is bound.         *)
HeldToBind == \A h \in Callers : call[h].topic # 0 => call[h].pc = "bind"

(* A call creates a topic only for a chat that has none, or whose topic    *)
(* came to it since.                                                       *)
CreatesForFree ==
  \A h \in Callers :
    Creating(h) => view.bind[call[h].chat].topic \in excused \cup {0}

Placed == OneLocked /\ HeldToBind /\ CreatesForFree /\ TopicsAreBound

(* A press that may still join has taken the claim, and so has every join: *)
(* what a fault gives back is counted with the fault.  A message's button  *)
(* has no claim to take: its turn is taken by a press under way, and every *)
(* press that begins beside it is counted.                                 *)
Claiming == {h \in Callers : call[h].pc \in Claims}
Unclaimed == IF view.act = "pending" /\ ~(button /\ Unmarked # {}) THEN 1 ELSE 0
Claimed ==
  /\ Cardinality(Claiming) + Unclaimed + joins <= 1 + faults + doubled
  /\ button => \A h \in Callers : call[h].pc # "claim"

IInv == Types /\ Whole /\ Placed /\ Claimed

-----------------------------------------------------------------------------
(* Numbers of claims.                                                      *)

(* The tasks that may create a topic are finitely many.                    *)
LEMMA FiniteCallers == IsFiniteSet(Callers)
  BY TopicsAssumption DEF Callers

(* Counting tasks: a set of callers has a size, and a larger set is no     *)
(* smaller.                                                                *)
LEMMA ClaimsCount ==
  ASSUME NEW A \in SUBSET Callers, NEW B \in SUBSET Callers
  PROVE  /\ Cardinality(A) \in Nat
         /\ A \subseteq B => Cardinality(A) <= Cardinality(B)
         /\ \A h \in Callers :
              /\ A \subseteq B \cup {h} => Cardinality(A) <= Cardinality(B) + 1
              /\ h \in B /\ A \subseteq B \ {h}
                   => Cardinality(A) + 1 <= Cardinality(B)
<1>1. /\ IsFiniteSet(A) /\ IsFiniteSet(B)
      /\ Cardinality(A) \in Nat /\ Cardinality(B) \in Nat
  BY FiniteCallers, FS_Subset, FS_CardinalityType
<1>2. A \subseteq B => Cardinality(A) <= Cardinality(B)
  BY <1>1, FS_Subset
<1>3. ASSUME NEW h \in Callers, A \subseteq B \cup {h}
      PROVE  Cardinality(A) <= Cardinality(B) + 1
  <2>1. /\ IsFiniteSet(B \cup {h})
        /\ Cardinality(B \cup {h}) \in Nat
        /\ Cardinality(B \cup {h}) <= Cardinality(B) + 1
    <3>1. /\ IsFiniteSet(B \cup {h})
          /\ Cardinality(B \cup {h})
               = IF h \in B THEN Cardinality(B) ELSE Cardinality(B) + 1
      BY <1>1, FS_AddElement
    <3>2. QED
      BY <1>1, <3>1
  <2>2. Cardinality(A) <= Cardinality(B \cup {h})
    BY <1>3, <2>1, FS_Subset
  <2>3. QED
    BY <1>1, <2>1, <2>2
<1>4. ASSUME NEW h \in Callers, h \in B, A \subseteq B \ {h}
      PROVE  Cardinality(A) + 1 <= Cardinality(B)
  <2>1. /\ IsFiniteSet(B \ {h})
        /\ Cardinality(B \ {h}) = Cardinality(B) - 1
    BY <1>1, <1>4, FS_RemoveElement
  <2>2. Cardinality(A) <= Cardinality(B \ {h})
    BY <1>4, <2>1, FS_Subset
  <2>3. QED
    BY <1>1, <2>1, <2>2
<1>5. QED
  BY <1>1, <1>2, <1>3, <1>4

-----------------------------------------------------------------------------
(* Steps that leave parts of the invariant alone.                          *)

(* A step that leaves the recorder and its statements alone, and commits   *)
(* the view only outside a transaction, splits no transaction.             *)
LEMMA WholeKept ==
  ASSUME Types, Whole, recorder' = recorder, depth' = depth, faults' = faults,
         view'.rec = view.rec, db' = db \/ (depth = 0 /\ db' = view)
  PROVE  Whole'
<1>1. (InTransaction <=> depth = 1)'
  BY DEF Whole, InTransaction
<1>2. CASE db' = db
  BY <1>1, <1>2 DEF Whole
<1>3. CASE depth = 0 /\ db' = view
  <2>1. recorder \in {"idle", "over", "cancelled"}
    BY <1>3 DEF Whole, InTransaction, Types
  <2>2. QED
    BY <1>1, <1>3, <2>1 DEF Whole
<1>4. QED
  BY <1>2, <1>3

(* The topics of the chats are those a statement left.                     *)
LEMMA SameBound ==
  ASSUME NEW a, NEW b, \A c \in Chats : a[c].topic = b[c].topic
  PROVE  Bound(a) = Bound(b)
  BY DEF Bound

(* A caller's turn that neither takes a lock nor finds a chat free.        *)
Tame(h) ==
  /\ call'[h].topic = call[h].topic
  /\ call'[h].pc = call[h].pc \/ call[h].pc # "bind"
  /\ InLock(h)' => InLock(h) /\ call'[h].chat = call[h].chat
  /\ Creating(h)' => Creating(h)

(* Topics stay placed by a step that moves no binding and creates none, if *)
(* each handler's part in it is tame.                                      *)
LEMMA PlacedKept ==
  ASSUME Types, Placed, \A h \in Callers : Tame(h),
         \A c \in Chats : view'.bind[c].topic = view.bind[c].topic,
         made' = made, excused' = excused
  PROVE  Placed'
<1>1. OneLocked' /\ HeldToBind'
  BY DEF Placed, OneLocked, HeldToBind, Tame
<1>2. CreatesForFree'
  <2> SUFFICES ASSUME NEW h \in Callers, Creating(h)'
               PROVE  view'.bind[call'[h].chat].topic \in excused \cup {0}
    BY DEF CreatesForFree
  <2>1. Creating(h) /\ call'[h].chat = call[h].chat
    BY DEF Tame, Creating, InLock
  <2>2. call[h].chat \in Chats
    BY DEF Types, Calls
  <2>3. QED
    BY <2>1, <2>2 DEF Placed, CreatesForFree
<1>3. TopicsAreBound'
  <2>1. Bound(view'.bind) = Bound(view.bind)
    BY SameBound
  <2>2. QED
    BY <2>1 DEF Placed, TopicsAreBound, Tame
<1>4. QED
  BY <1>1, <1>2, <1>3 DEF Placed

(* Nobody's turn.                                                          *)
LEMMA NoTurn ==
  ASSUME call' = call
  PROVE  /\ \A h \in Callers : Tame(h)
         /\ Claiming' = Claiming /\ Unmarked' = Unmarked
  BY DEF Tame, InLock, Creating, Claiming, Unmarked

(* Statements of others take no claim back.                                *)
LEMMA ClaimedKept ==
  ASSUME Types, Claimed, button' = button, faults' = faults, joins' = joins,
         doubled' = doubled,
         view'.act = "pending" =>
           /\ view.act = "pending"
           /\ button /\ Unmarked # {} => Unmarked' # {},
         Claiming' \subseteq Claiming,
         button => \A h \in Callers :
                     call'[h].pc = "claim" => call[h].pc = "claim"
  PROVE  Claimed'
<1>1. /\ Cardinality(Claiming) \in Nat /\ Cardinality(Claiming') \in Nat
      /\ Cardinality(Claiming') <= Cardinality(Claiming)
  <2>1. Claiming \in SUBSET Callers /\ Claiming' \in SUBSET Callers
    BY DEF Claiming
  <2>2. QED
    BY <2>1, ClaimsCount
<1>2. Unclaimed \in Nat /\ Unclaimed' \in Nat /\ Unclaimed' <= Unclaimed
  BY DEF Unclaimed
<1>3. QED
  BY <1>1, <1>2 DEF Claimed, Types

-----------------------------------------------------------------------------
(* The recording transaction.                                              *)

(* The recorder's statements with their commit, and its cancellation.      *)
LEMMA RecordKeeps ==
  ASSUME IInv, RecordStep \/ RecordCancelled
  PROVE  IInv'
<1> USE DEF IInv
<1>1. /\ call' = call /\ made' = made /\ excused' = excused
      /\ button' = button /\ joins' = joins /\ cmd' = cmd
      /\ doubled' = doubled
      /\ view'.bind = view.bind /\ view'.act = view.act
      /\ view' = view \/ view' = [view EXCEPT !.rec = @ + 1]
      /\ db' = db \/ db' = view
  <2>1. view = [bind |-> view.bind, reg |-> view.reg, act |-> view.act,
                rec |-> view.rec]
    BY DEF Types, IsStore
  <2>2. QED
    BY <2>1 DEF RecordStep, BeginRecord, WriteRecord, CommitRecord,
                RecordCancelled, Execute, world
<1>2. IsStore(view') /\ IsStore(db')
  BY <1>1 DEF Types, IsStore
<1>3. Placed'
  BY <1>1, NoTurn, PlacedKept
<1>4. CASE BeginRecord
  <2>1. Types'
    BY <1>1, <1>2, <1>4 DEF BeginRecord, Types
  <2>2. Whole'
    <3>1. /\ db' = db /\ view' = view /\ faults' = faults /\ recorder = "idle"
          /\ \/ depth = 0 /\ depth' = 1 /\ recorder' = "mapping"
             \/ depth' = depth /\ recorder' = "over"
      BY <1>4 DEF BeginRecord, Record
    <3>2. QED
      BY <3>1 DEF Whole, InTransaction
  <2>3. Claimed'
    BY <1>1, <1>4, NoTurn, ClaimedKept DEF BeginRecord
  <2>4. QED
    BY <1>3, <2>1, <2>2, <2>3
<1>5. CASE WriteRecord
  <2>1. /\ view'.rec = view.rec + 1 /\ db' = db /\ depth' = depth
        /\ faults' = faults
        /\ \/ recorder = "mapping" /\ recorder' = "logging"
           \/ recorder = "logging" /\ recorder' = "commit"
    BY <1>5 DEF WriteRecord, Execute, Record, Types, IsStore
  <2>2. Types'
    BY <1>1, <1>2, <2>1 DEF Types
  <2>3. Whole'
    BY <2>1 DEF Whole, InTransaction
  <2>4. Claimed'
    BY <1>1, <2>1, NoTurn, ClaimedKept
  <2>5. QED
    BY <1>3, <2>2, <2>3, <2>4
<1>6. CASE CommitRecord
  <2>1. /\ view' = view /\ db' = view /\ depth' = 0 /\ faults' = faults
        /\ recorder = "commit" /\ recorder' = "over"
    BY <1>6 DEF CommitRecord, Record
  <2>2. Types'
    BY <1>1, <1>2, <2>1 DEF Types
  <2>3. Whole'
    BY <2>1 DEF Whole, InTransaction
  <2>4. Claimed'
    BY <1>1, <2>1, NoTurn, ClaimedKept
  <2>5. QED
    BY <1>3, <2>2, <2>3, <2>4
<1>7. CASE RecordCancelled
  <2>1. /\ view' = view /\ db' = db /\ depth' = 0 /\ faults' = faults + 1
        /\ recorder' = "cancelled"
    BY <1>7 DEF RecordCancelled
  <2>2. Types'
    BY <1>1, <1>2, <2>1 DEF Types
  <2>3. Whole'
    BY <2>1 DEF Whole, InTransaction, Types
  <2>4. Claimed'
    <3>1. Claiming' = Claiming /\ Unclaimed' = Unclaimed
      BY <1>1, <2>1, NoTurn DEF Unclaimed
    <3>2. Cardinality(Claiming) \in Nat /\ Unclaimed \in Nat
      BY ClaimsCount DEF Claiming, Unclaimed
    <3>3. QED
      BY <1>1, <2>1, <3>1, <3>2 DEF Claimed, Types
  <2>5. QED
    BY <1>3, <2>2, <2>3, <2>4
<1>8. QED
  BY <1>4, <1>5, <1>6, <1>7 DEF RecordStep

(* The rollback takes bindings and a claim with it, and is a fault.        *)
LEMMA RollbackKeeps ==
  ASSUME IInv, RecordRaised
  PROVE  IInv'
<1> USE DEF IInv
<1>1. /\ call' = call /\ made' = made /\ button' = button /\ joins' = joins
      /\ cmd' = cmd /\ view' = db /\ db' = db /\ depth' = 0
      /\ faults' = faults + 1 /\ recorder' = "over" /\ doubled' = doubled
      /\ InTransaction
      /\ excused' = excused \cup (Bound(view.bind) \ Bound(db.bind))
           \cup {db.bind[call[h].chat].topic : h \in {g \in Callers : Creating(g)}}
  BY DEF RecordRaised, Lose
<1>2. Types'
  BY <1>1 DEF Types
<1>3. Whole'
  BY <1>1 DEF Whole, InTransaction, Types
<1>4. Placed'
  <2>1. OneLocked' /\ HeldToBind'
    BY <1>1 DEF Placed, OneLocked, HeldToBind, InLock
  <2>2. CreatesForFree'
    BY <1>1 DEF CreatesForFree, Creating
  <2>3. TopicsAreBound'
    <3> SUFFICES ASSUME NEW t \in 1..made
                 PROVE  \/ t \in excused' \cup Bound(db.bind)
                        \/ \E h \in Callers : call[h].topic = t
      BY <1>1 DEF TopicsAreBound
    <3>1. QED
      BY <1>1 DEF Placed, TopicsAreBound
  <2>4. QED
    BY <2>1, <2>2, <2>3 DEF Placed
<1>5. Claimed'
  <2>1. Claiming' = Claiming
    BY <1>1, NoTurn
  <2>2. /\ Cardinality(Claiming) \in Nat /\ Unclaimed \in Nat
        /\ Unclaimed' \in Nat /\ Unclaimed' <= Unclaimed + 1
    BY ClaimsCount DEF Claiming, Unclaimed
  <2>3. QED
    BY <1>1, <2>1, <2>2 DEF Claimed, Types
<1>6. QED
  BY <1>2, <1>3, <1>4, <1>5

(* The scan writes only the registry.                                      *)
LEMMA ScanKeeps ==
  ASSUME IInv, ScanStep \/ CacheLapses
  PROVE  IInv'
<1> USE DEF IInv
<1>1. /\ call' = call /\ made' = made /\ excused' = excused
      /\ button' = button /\ joins' = joins /\ cmd' = cmd
      /\ doubled' = doubled
      /\ depth' = depth /\ faults' = faults /\ recorder' = recorder
      /\ db' = db \/ (depth = 0 /\ db' = view)
      /\ view' = view
           \/ \E r : view' = [view EXCEPT !.reg = r]
  BY DEF ScanStep, StartScan, ListBindings, WriteEntry, EndScan, CacheLapses,
         Execute, Commit, conn, world
<1>2. /\ IsStore(view') /\ view'.bind = view.bind /\ view'.act = view.act
      /\ view'.rec = view.rec
  BY <1>1 DEF Types, IsStore
<1>3. Types'
  BY <1>1, <1>2 DEF Types
<1>4. Whole'
  BY <1>1, <1>2, WholeKept
<1>5. Placed'
  BY <1>1, <1>2, NoTurn, PlacedKept
<1>6. Claimed'
  BY <1>1, <1>2, NoTurn, ClaimedKept
<1>7. QED
  BY <1>3, <1>4, <1>5, <1>6

-----------------------------------------------------------------------------
(* The owner's commands.                                                   *)

(* A remap keeps every topic: the chat it moves to had none, or this one.  *)
LEMMA MoveKeeps ==
  ASSUME IInv, MoveBinding
  PROVE  IInv'
<1> USE DEF IInv
<1>1. /\ call' = call /\ made' = made /\ button' = button /\ joins' = joins
      /\ depth' = depth /\ faults' = faults /\ recorder' = recorder
      /\ doubled' = doubled
      /\ db' = db
      /\ cmd' = [cmd EXCEPT !.pc = cmd'.pc] /\ cmd'.pc \notin {"check", "update"}
      /\ cmd.pc = "update" /\ cmd.to \in Chats
  BY DEF MoveBinding, Owner, Execute, conn, Types
<1> DEFINE from == Holder(cmd.topic)
           moved == [c \in Chats |->
                       CASE c = cmd.to -> view.bind[CHOOSE d \in from : TRUE]
                         [] c # cmd.to /\ c \in from -> Unbound
                         [] OTHER -> view.bind[c]]
<1>2. CASE view' = view /\ excused' = excused
  <2>1. Types'
    BY <1>1, <1>2 DEF Types
  <2>2. Whole' /\ Placed' /\ Claimed'
    BY <1>1, <1>2, NoTurn, WholeKept, PlacedKept, ClaimedKept
  <2>3. QED
    BY <2>1, <2>2
<1>3. CASE /\ from # {}
           /\ view.bind[cmd.to].topic = 0 \/ cmd.to \in from
           /\ view' = [view EXCEPT !.bind = moved]
           /\ excused' = IF \E h \in Callers : call[h].chat = cmd.to /\ Creating(h)
                         THEN excused \cup {cmd.topic} ELSE excused
  <2>1. /\ (CHOOSE d \in from : TRUE) \in Chats
        /\ view.bind[CHOOSE d \in from : TRUE].topic = cmd.topic
        /\ \A c \in from : c \in Chats /\ view.bind[c].topic = cmd.topic
        /\ \A c \in Chats : view.bind[c].topic = cmd.topic => c \in from
    BY <1>3 DEF Holder
  <2> HIDE DEF from
  <2>2. Unbound \in Row /\ view.bind \in [Chats -> Row]
    BY DEF Unbound, Row, Types, IsStore
  <2>3. /\ moved \in [Chats -> Row]
        /\ moved[cmd.to].topic = cmd.topic
        /\ \A c \in Chats \ {cmd.to} :
             moved[c].topic = IF c \in from THEN 0 ELSE view.bind[c].topic
    BY <1>1, <2>1, <2>2 DEF Unbound
  <2> HIDE DEF moved
  <2>4. /\ view'.bind = moved /\ view'.rec = view.rec /\ view'.act = view.act
        /\ IsStore(view')
    BY <1>3, <2>3 DEF Types, IsStore
  <2>5. Types'
    BY <1>1, <2>4 DEF Types
  <2>6. Whole'
    BY <1>1, <2>4, WholeKept
  <2>7. OneLocked' /\ HeldToBind'
    BY <1>1 DEF Placed, OneLocked, HeldToBind, InLock
  <2>8. CreatesForFree'
    <3> SUFFICES ASSUME NEW h \in Callers, Creating(h)
                 PROVE  moved[call[h].chat].topic \in excused' \cup {0}
      BY <1>1, <2>4 DEF CreatesForFree, Creating
    <3>1. call[h].chat \in Chats
      BY DEF Types, Calls
    <3>2. CASE call[h].chat = cmd.to
      BY <1>3, <2>3, <3>2
    <3>3. CASE call[h].chat # cmd.to
      BY <1>3, <2>3, <3>1, <3>3 DEF Placed, CreatesForFree
    <3>4. QED
      BY <3>2, <3>3
  <2>9. TopicsAreBound'
    <3> SUFFICES ASSUME NEW t \in 1..made
                 PROVE  \/ t \in excused' \cup Bound(moved)
                        \/ \E h \in Callers : call[h].topic = t
      BY <1>1, <2>4 DEF TopicsAreBound
    <3>1. ASSUME t \in Bound(view.bind) PROVE t \in Bound(moved)
      <4>1. PICK c \in Chats : view.bind[c].topic = t
        BY <3>1 DEF Bound
      <4>2. CASE t = cmd.topic
        BY <1>1, <2>3, <4>2 DEF Bound
      <4>3. CASE t # cmd.topic
        <5>1. c \notin from /\ c # cmd.to
          BY <1>3, <2>1, <4>1, <4>3
        <5>2. QED
          BY <2>3, <4>1, <5>1 DEF Bound
      <4>4. QED
        BY <4>2, <4>3
    <3>2. QED
      BY <1>3, <3>1 DEF Placed, TopicsAreBound
  <2>10. Claimed'
    BY <1>1, <2>4, NoTurn, ClaimedKept
  <2>11. QED
    BY <2>5, <2>6, <2>7, <2>8, <2>9, <2>10 DEF Placed
<1>4. QED
  <2>1. \/ view' = view /\ excused' = excused
        \/ /\ from # {}
           /\ view.bind[cmd.to].topic = 0 \/ cmd.to \in from
           /\ view' = [view EXCEPT !.bind = moved]
           /\ excused' = IF \E h \in Callers : call[h].chat = cmd.to /\ Creating(h)
                         THEN excused \cup {cmd.topic} ELSE excused
    BY DEF MoveBinding, Execute, conn
  <2>2. QED
    BY <1>2, <1>3, <2>1

(* The other statements of the owner touch neither bindings nor claims.    *)
LEMMA CommandsKeep ==
  ASSUME IInv,
         \/ \E t \in Topics, c \in Chats : StartRemap(t, c)
         \/ CheckTarget \/ CommitCommand \/ RegisterRemap \/ ExpireRequests
  PROVE  IInv'
<1> USE DEF IInv
<1>1. /\ call' = call /\ made' = made /\ button' = button /\ joins' = joins
      /\ depth' = depth /\ faults' = faults /\ recorder' = recorder
      /\ doubled' = doubled
      /\ excused' = excused
      /\ db' = db \/ (depth = 0 /\ db' = view)
      /\ \/ view' = view
         \/ \E r : view' = [view EXCEPT !.reg = r]
         \/ view' = [view EXCEPT !.act = "failed"]
  BY DEF StartRemap, CheckTarget, CommitCommand, RegisterRemap, ExpireRequests,
         Owner, Execute, Commit, conn
<1>2. /\ IsStore(view') /\ view'.bind = view.bind
      /\ view'.act = "pending" => view.act = "pending"
      /\ view'.rec = view.rec
  BY <1>1 DEF Types, IsStore
<1>3. /\ cmd' = [pc |-> cmd'.pc, topic |-> cmd'.topic, to |-> cmd'.to]
      /\ cmd'.pc \in {"check", "update"} => cmd'.to \in Chats
  BY DEF StartRemap, CheckTarget, CommitCommand, RegisterRemap, ExpireRequests,
         Types
<1>4. Types'
  BY <1>1, <1>2, <1>3 DEF Types
<1>5. Whole'
  BY <1>1, <1>2, WholeKept
<1>6. Placed'
  BY <1>1, <1>2, NoTurn, PlacedKept
<1>7. Claimed'
  BY <1>1, <1>2, NoTurn, ClaimedKept
<1>8. QED
  BY <1>4, <1>5, <1>6, <1>7

(* A crash ends every call, and what it held is lost.                      *)
LEMMA CrashKeeps ==
  ASSUME IInv, Crash
  PROVE  IInv'
<1> USE DEF IInv
<1>1. /\ made' = made /\ button' = button /\ joins' = joins
      /\ doubled' = doubled
      /\ view' = db /\ db' = db /\ depth' = 0
      /\ faults' = faults + 1
      /\ recorder' = IF InTransaction THEN "over" ELSE recorder
      /\ cmd' = [cmd EXCEPT !.pc = "idle"]
      /\ excused' = excused \cup (Bound(view.bind) \ Bound(db.bind))
           \cup ({call[h].topic : h \in Callers} \ {0})
      /\ call' = [h \in Callers |-> IF At(h, "idle") THEN call[h]
                                    ELSE [AtRest EXCEPT !.pc = "over"]]
  BY DEF Crash, Lose
<1>2. \A h \in Callers :
        /\ call'[h] \in Calls
        /\ call'[h].pc \in {"idle", "over"} /\ call'[h].topic = 0
  <2> SUFFICES ASSUME NEW h \in Callers
               PROVE  /\ call'[h] \in Calls
                      /\ call'[h].pc \in {"idle", "over"} /\ call'[h].topic = 0
    OBVIOUS
  <2>1. CASE At(h, "idle")
    BY <1>1, <2>1 DEF At, Types, Placed, HeldToBind, Calls
  <2>2. CASE ~At(h, "idle")
    <3>1. call'[h] = [AtRest EXCEPT !.pc = "over"]
      BY <1>1, <2>2
    <3>2. LinkChat \in Chats
      BY TopicsAssumption
    <3>3. call'[h] = [pc |-> "over", chat |-> LinkChat, topic |-> 0,
                      named |-> FALSE, then |-> "over", ok |-> TRUE]
      BY <3>1 DEF AtRest
    <3>4. QED
      BY <3>2, <3>3 DEF Calls, Place
  <2>3. QED
    BY <2>1, <2>2
<1>3. Types'
  <2>1. call' \in [Callers -> Calls]
    BY <1>1, <1>2
  <2>2. QED
    BY <1>1, <2>1 DEF Types
<1>4. Whole'
  BY <1>1 DEF Whole, InTransaction, Types
<1>5. Placed'
  <2>1. OneLocked' /\ HeldToBind' /\ CreatesForFree'
    BY <1>2 DEF OneLocked, HeldToBind, CreatesForFree, InLock, Creating
  <2>2. TopicsAreBound'
    <3> SUFFICES ASSUME NEW t \in 1..made
                 PROVE  t \in excused' \cup Bound(db.bind)
      BY <1>1 DEF TopicsAreBound
    <3>1. t # 0
      BY DEF Types
    <3>2. QED
      BY <1>1, <3>1 DEF Placed, TopicsAreBound
  <2>3. QED
    BY <2>1, <2>2 DEF Placed
<1>6. Claimed'
  <2>1. Claiming' = {}
    BY <1>2 DEF Claiming, Claims
  <2>2. Cardinality(Claiming') = 0
    BY <2>1, FS_EmptySet
  <2>3. /\ Cardinality(Claiming) \in Nat /\ Unclaimed \in Nat
        /\ Unclaimed' \in Nat /\ Unclaimed' <= 1
    BY ClaimsCount DEF Claiming, Unclaimed
  <2>4. QED
    BY <1>1, <2>2, <2>3 DEF Claimed, Types
<1>7. QED
  BY <1>3, <1>4, <1>5, <1>6

-----------------------------------------------------------------------------
(* The calls.                                                              *)

(* A caller's turn changes that caller.                                    *)
Turn(h) ==
  /\ call' \in [Callers -> Calls]
  /\ \A g \in Callers \ {h} : call'[g] = call[g]

(* A turn that takes neither a lock, a topic nor a claim.                  *)
LEMMA PlainTurn ==
  ASSUME IInv, NEW h \in Callers, Turn(h), Tame(h),
         call'[h].pc \in Claims => call[h].pc \in Claims,
         button /\ call'[h].pc = "claim" => call[h].pc = "claim",
         button /\ call[h].pc \in {"join", "finish"} /\ view'.act = "pending"
           => call'[h].pc \in {"join", "finish"},
         UNCHANGED <<button, recorder, cmd, depth, faults, made, excused, joins,
                     doubled>>,
         IsStore(view'), view'.rec = view.rec,
         \A c \in Chats : view'.bind[c].topic = view.bind[c].topic,
         view'.act = "pending" => view.act = "pending",
         db' = db \/ (depth = 0 /\ db' = view)
  PROVE  IInv'
<1> USE DEF IInv
<1>1. Types'
  BY DEF Types, Turn
<1>2. Whole'
  BY WholeKept
<1>3. \A g \in Callers : Tame(g)
  <2> SUFFICES ASSUME NEW g \in Callers, g # h PROVE Tame(g)
    OBVIOUS
  <2>1. call'[g] = call[g]
    BY DEF Turn
  <2>2. QED
    BY <2>1 DEF Tame, InLock, Creating
<1>4. Placed'
  BY <1>3, PlacedKept
<1>5. Claiming' \subseteq Claiming
  BY DEF Claiming, Turn
<1>6. Claimed'
  <2>1. view'.act = "pending" /\ button /\ Unmarked # {} => Unmarked' # {}
    BY DEF Unmarked, Turn
  <2>2. button => \A g \in Callers :
                    call'[g].pc = "claim" => call[g].pc = "claim"
    BY DEF Turn
  <2>3. QED
    BY <1>5, <2>1, <2>2, ClaimedKept
<1>7. QED
  BY <1>1, <1>2, <1>4, <1>6

(* What a change of one field of a call makes of it.                       *)
LEMMA CallFields ==
  ASSUME NEW a \in Calls
  PROVE  /\ a.pc \in Place /\ a.chat \in Chats /\ a.topic \in Nat
         /\ a.then \in {"over", "finish"}
         /\ \A pc \in Place :
              LET b == [a EXCEPT !.pc = pc]
              IN  /\ b \in Calls /\ b.pc = pc /\ b.chat = a.chat
                  /\ b.topic = a.topic
  BY DEF Calls

(* The plain turns of a call: those that only move on, and those that      *)
(* write what is no binding.                                               *)
LEMMA MovesKeep ==
  ASSUME IInv, NEW h \in Callers,
         \/ \E c \in Chats : Arrive(h, c)
         \/ UpdateTitle(h) \/ CommitTopic(h) \/ CommitClaim(h)
         \/ TakeJoinLock(h) \/ FinishJoin(h) \/ CloseJoin(h)
  PROVE  IInv'
<1>0. /\ call \in [Callers -> Calls] /\ call[h] \in Calls
      /\ IsStore(view) /\ IsStore(db)
  BY DEF IInv, Types
<1>1. UNCHANGED <<button, recorder, cmd, faults, made, excused, joins, depth,
                  doubled>>
  BY DEF Arrive, UpdateTitle, CommitTopic, CommitClaim, TakeJoinLock,
         FinishJoin, CloseJoin, Thread, Execute, Commit, conn, world
<1>2. db' = db \/ (depth = 0 /\ db' = view)
  BY DEF Arrive, UpdateTitle, CommitTopic, CommitClaim, TakeJoinLock,
         FinishJoin, CloseJoin, Execute, Commit, conn
<1>3. /\ IsStore(view') /\ view'.rec = view.rec
      /\ \A c \in Chats : view'.bind[c].topic = view.bind[c].topic
      /\ view'.act = "pending" => view.act = "pending"
  <2>1. CASE view' = view
    BY <1>0, <2>1
  <2>2. CASE FinishJoin(h)
    BY <1>0, <2>2 DEF FinishJoin, Execute, IsStore
  <2>3. CASE UpdateTitle(h)
    <3> DEFINE chat == call[h].chat
               named == view.bind[chat].topic # 0
    <3>1. chat \in Chats /\ named \in BOOLEAN
      BY <1>0 DEF Calls
    <3>2. view' = [view EXCEPT !.bind[chat].named = named]
      BY <2>3 DEF UpdateTitle, Execute
    <3> HIDE DEF chat, named
    <3>3. /\ view'.bind = [view.bind EXCEPT ![chat].named = named]
          /\ view'.rec = view.rec /\ view'.act = view.act
          /\ view'.reg = view.reg
          /\ view' = [bind |-> view'.bind, reg |-> view'.reg,
                      act |-> view'.act, rec |-> view'.rec]
      BY <1>0, <3>2 DEF IsStore
    <3>4. /\ view'.bind \in [Chats -> Row]
          /\ \A c \in Chats : view'.bind[c].topic = view.bind[c].topic
      BY <1>0, <3>1, <3>3 DEF IsStore, Row
    <3>5. QED
      BY <1>0, <3>3, <3>4 DEF IsStore
  <2>4. QED
    BY <2>1, <2>2, <2>3
       DEF Arrive, CommitTopic, CommitClaim, TakeJoinLock, CloseJoin,
           Commit, conn
<1>4. /\ Turn(h) /\ Tame(h)
      /\ call'[h].pc \in Claims => call[h].pc \in Claims
      /\ call'[h].pc # "claim"
      /\ call[h].pc \in {"join", "finish"} => view'.act # "pending"
  <2>1. CASE \E c \in Chats : Arrive(h, c)
    <3>1. PICK c \in Chats : Arrive(h, c)
      BY <2>1
    <3>2. /\ call' = [call EXCEPT ![h] = [call[h] EXCEPT !.pc = "wait",
                                                        !.chat = c]]
          /\ call[h].pc = "idle"
      BY <1>0, <3>1 DEF Arrive, At
    <3>3. call'[h] = [call[h] EXCEPT !.pc = "wait", !.chat = c]
      BY <1>0, <3>2
    <3>4. call'[h] \in Calls /\ call'[h].pc = "wait"
          /\ call'[h].topic = call[h].topic
      BY <1>0, <3>3 DEF Calls, Place
    <3>5. Turn(h)
      BY <1>0, <3>2, <3>4 DEF Turn
    <3>6. QED
      BY <3>2, <3>4, <3>5 DEF Tame, InLock, Creating, Claims
  <2>2. CASE ~\E c \in Chats : Arrive(h, c)
    <3>1. PICK pc \in Place :
            /\ \/ call' = [call EXCEPT ![h] = [call[h] EXCEPT !.pc = pc]]
               \/ call' = [call EXCEPT ![h] = [call[h] EXCEPT !.pc = pc,
                                                              !.ok = FALSE]]
            /\ call[h].pc # "bind"
            /\ pc \in Locks => call[h].pc \in Locks /\ pc = "commit"
            /\ pc \in Claims => call[h].pc \in Claims
            /\ pc # "claim"
            /\ call[h].pc \in {"join", "finish"} => view'.act # "pending"
      <4>1. CASE UpdateTitle(h)
        <5>1. /\ call' = [call EXCEPT ![h] = [call[h] EXCEPT !.pc = "commit"]]
              /\ call[h].pc = "rename"
          BY <4>1 DEF UpdateTitle, Goto, At
        <5>2. QED
          BY <5>1 DEF Place, Locks, Claims
      <4>2. CASE CommitTopic(h)
        <5>1. /\ call' = [call EXCEPT ![h] = [call[h] EXCEPT !.pc = call[h].then]]
              /\ call[h].pc = "commit"
          BY <4>2 DEF CommitTopic, Goto, At
        <5>2. call[h].then \in {"over", "finish"}
          BY <1>0, CallFields
        <5>3. QED
          BY <5>1, <5>2 DEF Place, Locks, Claims
      <4>3. CASE CommitClaim(h)
        <5>1. /\ call[h].pc = "claimed"
              /\ \/ call' = [call EXCEPT ![h] = [call[h] EXCEPT !.pc = "queue"]]
                 \/ call' = [call EXCEPT ![h] = [call[h] EXCEPT !.pc = "finish",
                                                                !.ok = FALSE]]
          BY <4>3 DEF CommitClaim, Goto, At
        <5>2. QED
          BY <5>1 DEF Place, Locks, Claims
      <4>4. CASE FinishJoin(h)
        <5>1. /\ call' = [call EXCEPT ![h] = [call[h] EXCEPT !.pc = "closing"]]
              /\ call[h].pc = "finish"
              /\ view' = [view EXCEPT !.act = IF call[h].ok THEN "used"
                                                            ELSE "failed"]
          BY <4>4 DEF FinishJoin, Goto, At, Execute
        <5>2. view'.act # "pending"
          BY <1>0, <5>1 DEF IsStore
        <5>3. QED
          BY <5>1, <5>2 DEF Place, Locks, Claims
      <4>5. CASE TakeJoinLock(h) \/ CloseJoin(h)
        <5>1. \E pc \in {"join", "over"} :
                /\ call' = [call EXCEPT ![h] = [call[h] EXCEPT !.pc = pc]]
                /\ call[h].pc \in {"queue", "closing"}
                /\ pc = "join" => call[h].pc = "queue"
          BY <4>5 DEF TakeJoinLock, CloseJoin, Goto, At
        <5>2. QED
          BY <5>1 DEF Place, Locks, Claims
      <4>6. QED
        BY <2>2, <4>1, <4>2, <4>3, <4>4, <4>5
    <3>2. \/ call'[h] = [call[h] EXCEPT !.pc = pc]
          \/ call'[h] = [call[h] EXCEPT !.pc = pc, !.ok = FALSE]
      BY <1>0, <3>1
    <3>3. /\ call'[h] \in Calls /\ call'[h].pc = pc
          /\ call'[h].topic = call[h].topic /\ call'[h].chat = call[h].chat
      BY <1>0, <3>2 DEF Calls
    <3>4. Turn(h)
      BY <1>0, <3>1, <3>3 DEF Turn
    <3>5. Tame(h)
      BY <3>1, <3>3 DEF Tame, InLock, Creating, Locks
    <3>6. QED
      BY <3>1, <3>3, <3>4, <3>5
  <2>3. QED
    BY <2>1, <2>2
<1>5. QED
  BY <1>1, <1>2, <1>3, <1>4, PlainTurn

(* The other turns leave bindings, transaction and claims alone.           *)
LEMMA TurnKeeps ==
  ASSUME IInv, NEW h \in Callers, Turn(h), Placed',
         call[h].pc \notin Claims, call'[h].pc \notin Claims,
         call[h].pc # "finish", call'[h].pc # "claim",
         UNCHANGED <<button, recorder, cmd, depth, faults, joins, doubled>>,
         made' \in Nat, IsStore(view'), view'.rec = view.rec,
         view'.act = view.act, db' = db
  PROVE  IInv'
<1> USE DEF IInv
<1>1. Types'
  BY DEF Types, Turn
<1>2. Whole'
  BY WholeKept
<1>3. Claiming' \subseteq Claiming
  BY DEF Claiming, Turn
<1>4. Claimed'
  <2>1. Unmarked \subseteq Unmarked'
    BY DEF Unmarked, Turn, Claims
  <2>2. \A g \in Callers : call'[g].pc = "claim" => call[g].pc = "claim"
    BY DEF Turn
  <2>3. QED
    BY <1>3, <2>1, <2>2, ClaimedKept
<1>5. QED
  BY <1>1, <1>2, <1>4

(* Whoever enters finds nobody in the lock of the chat.                    *)
LEMMA EnterKeeps ==
  ASSUME IInv, NEW h \in Callers, Enter(h)
  PROVE  IInv'
<1>0. /\ call \in [Callers -> Calls] /\ call[h] \in Calls
      /\ IsStore(view) /\ made \in Nat /\ Placed
  BY DEF IInv, Types
<1>1. /\ call' = [call EXCEPT ![h] = [call[h] EXCEPT !.pc = "look"]]
      /\ call[h].pc = "wait"
      /\ \A g \in Callers \ {h} : call[g].chat = call[h].chat => ~InLock(g)
      /\ view' = view /\ db' = db /\ made' = made /\ excused' = excused
      /\ UNCHANGED <<button, recorder, cmd, depth, faults, joins, doubled>>
  BY DEF Enter, Goto, At, Thread, conn, world
<1>2. call'[h] = [call[h] EXCEPT !.pc = "look"]
  BY <1>0, <1>1
<1>3. /\ call'[h] \in Calls /\ call'[h].pc = "look"
      /\ call'[h].topic = call[h].topic /\ call'[h].chat = call[h].chat
  BY <1>0, <1>2 DEF Calls, Place, Locks
<1>4. Turn(h)
  BY <1>0, <1>1, <1>3 DEF Turn
<1>5. Placed'
  <2>1. OneLocked'
    BY <1>0, <1>1, <1>3, <1>4 DEF Placed, OneLocked, InLock, Turn
  <2>2. HeldToBind'
    BY <1>0, <1>1, <1>3, <1>4 DEF Placed, HeldToBind, Turn
  <2>3. CreatesForFree'
    BY <1>0, <1>1, <1>3, <1>4 DEF Placed, CreatesForFree, Creating, Turn
  <2>4. TopicsAreBound'
    BY <1>0, <1>1, <1>3, <1>4 DEF Placed, TopicsAreBound, Turn
  <2>5. QED
    BY <2>1, <2>2, <2>3, <2>4 DEF Placed
<1>6. QED
  BY <1>0, <1>1, <1>3, <1>4, <1>5, TurnKeeps DEF Claims

(* It creates a topic only where it found none.                            *)
LEMMA LookUpKeeps ==
  ASSUME IInv, NEW h \in Callers, LookUp(h)
  PROVE  IInv'
<1>0. /\ call \in [Callers -> Calls] /\ call[h] \in Calls
      /\ IsStore(view) /\ made \in Nat /\ Placed
      /\ call[h].then \in {"over", "finish"}
  BY CallFields DEF IInv, Types
<1>1. /\ call[h].pc = "look"
      /\ view' = view /\ db' = db /\ made' = made /\ excused' = excused
      /\ UNCHANGED <<button, recorder, cmd, depth, faults, joins, doubled>>
  BY DEF LookUp, At, Thread, conn, world
<1>2. PICK named \in BOOLEAN, pc \in {"create", "rename", "over", "finish"} :
        /\ call' = [call EXCEPT ![h] = [call[h] EXCEPT !.named = named,
                                                       !.pc = pc]]
        /\ pc = "create" => view.bind[call[h].chat].topic = 0
  <2> DEFINE row == view.bind[call[h].chat]
             next(named) == CASE row.topic = 0 -> "create"
                              [] row.topic # 0 /\ ~row.named /\ named -> "rename"
                              [] OTHER -> call[h].then
  <2>1. PICK named \in BOOLEAN :
          call' = [call EXCEPT ![h].named = named, ![h].pc = next(named)]
    BY DEF LookUp
  <2>2. /\ next(named) \in {"create", "rename", "over", "finish"}
        /\ next(named) = "create" => row.topic = 0
    BY <1>0
  <2>3. call' = [call EXCEPT ![h] = [call[h] EXCEPT !.named = named,
                                                   !.pc = next(named)]]
    <3> HIDE DEF next
    <3>1. QED
      BY <1>0, <2>1
  <2> HIDE DEF next
  <2>4. QED
    BY <2>2, <2>3
<1>3. call'[h] = [call[h] EXCEPT !.named = named, !.pc = pc]
  BY <1>0, <1>2
<1>4. /\ call'[h] \in Calls /\ call'[h].pc = pc
      /\ call'[h].topic = call[h].topic /\ call'[h].chat = call[h].chat
  BY <1>0, <1>3 DEF Calls, Place, Locks
<1>5. Turn(h)
  BY <1>0, <1>2, <1>4 DEF Turn
<1>6. Placed'
  <2>1. OneLocked'
    BY <1>0, <1>1, <1>4, <1>5 DEF Placed, OneLocked, InLock, Turn
  <2>2. HeldToBind'
    BY <1>0, <1>1, <1>4, <1>5 DEF Placed, HeldToBind, Turn
  <2>3. CreatesForFree'
    BY <1>0, <1>1, <1>2, <1>4, <1>5 DEF Placed, CreatesForFree, Creating, Turn
  <2>4. TopicsAreBound'
    BY <1>0, <1>1, <1>4, <1>5 DEF Placed, TopicsAreBound, Turn
  <2>5. QED
    BY <2>1, <2>2, <2>3, <2>4 DEF Placed
<1>7. QED
  BY <1>0, <1>1, <1>4, <1>5, <1>6, TurnKeeps DEF Claims

(* A topic that is created is held, or its loss is a fault.                *)
LEMMA CreationsKeep ==
  ASSUME IInv, NEW h \in Callers, CreateTopic(h) \/ CreateLost(h)
  PROVE  IInv'
<1>0. /\ call \in [Callers -> Calls] /\ call[h] \in Calls
      /\ IsStore(view) /\ IsStore(db) /\ made \in Nat /\ Placed
      /\ faults \in Nat /\ call[h].then \in {"over", "finish"}
      /\ call[h].pc = "create" /\ call[h].topic = 0
  <2>1. call[h].pc = "create"
    BY DEF CreateTopic, CreateLost, At
  <2>2. QED
    BY <2>1, CallFields DEF IInv, Types, Placed, HeldToBind
<1>1. /\ view' = view /\ db' = db
      /\ UNCHANGED <<button, recorder, cmd, depth, joins, doubled>>
  BY DEF CreateTopic, CreateLost, Thread, conn
<1>2. CASE /\ made' = made + 1 /\ excused' = excused /\ faults' = faults
           /\ call' = [call EXCEPT ![h] = [call[h] EXCEPT !.pc = "bind",
                                                          !.topic = made + 1]]
  <2>1. call'[h] = [call[h] EXCEPT !.pc = "bind", !.topic = made + 1]
    BY <1>0, <1>2
  <2>2. /\ call'[h] \in Calls /\ call'[h].pc = "bind"
        /\ call'[h].topic = made + 1 /\ call'[h].chat = call[h].chat
    <3>1. "bind" \in Place /\ made + 1 \in Nat
      BY <1>0 DEF Place, Locks
    <3>2. QED
      BY <1>0, <2>1, <3>1 DEF Calls
  <2>3. Turn(h)
    BY <1>0, <1>2, <2>2 DEF Turn
  <2>4. Placed'
    <3>1. OneLocked'
      BY <1>0, <2>2, <2>3 DEF Placed, OneLocked, InLock, Turn
    <3>2. HeldToBind'
      BY <1>0, <2>2, <2>3 DEF Placed, HeldToBind, Turn
    <3>3. CreatesForFree'
      BY <1>0, <1>1, <1>2, <2>2, <2>3 DEF Placed, CreatesForFree, Creating, Turn
    <3>4. TopicsAreBound'
      <4> SUFFICES ASSUME NEW t \in 1..(made + 1)
                   PROVE  \/ t \in excused \cup Bound(view.bind)
                          \/ \E g \in Callers : call'[g].topic = t
        BY <1>1, <1>2 DEF TopicsAreBound
      <4>1. CASE t = made + 1
        BY <2>2, <4>1
      <4>2. CASE t \in 1..made
        BY <1>0, <2>3, <4>2 DEF Placed, TopicsAreBound, Turn
      <4>3. QED
        BY <1>0, <4>1, <4>2
    <3>5. QED
      BY <3>1, <3>2, <3>3, <3>4 DEF Placed
  <2>5. made' \in Nat
    BY <1>0, <1>2
  <2>6. QED
    BY <1>0, <1>1, <1>2, <2>2, <2>3, <2>4, <2>5, TurnKeeps DEF Claims
<1>3. CASE /\ \/ made' = made /\ excused' = excused /\ faults' = faults
              \/ /\ made' = made + 1 /\ excused' = excused \cup {made + 1}
                 /\ faults' = faults + 1
           /\ call' = [call EXCEPT ![h] = [call[h] EXCEPT !.pc = call[h].then,
                                                          !.ok = FALSE]]
  <2>1. call'[h] = [call[h] EXCEPT !.pc = call[h].then, !.ok = FALSE]
    BY <1>0, <1>3
  <2>2. /\ call'[h] \in Calls /\ call'[h].pc = call[h].then
        /\ call'[h].topic = 0 /\ call'[h].chat = call[h].chat
    BY <1>0, <2>1 DEF Calls, Place
  <2>3. Turn(h)
    BY <1>0, <1>3, <2>2 DEF Turn
  <2>4. Placed'
    <3>1. OneLocked'
      BY <1>0, <2>2, <2>3 DEF Placed, OneLocked, InLock, Turn
    <3>2. HeldToBind'
      BY <1>0, <2>2, <2>3 DEF Placed, HeldToBind, Turn
    <3>3. CreatesForFree'
      BY <1>0, <1>1, <1>3, <2>2, <2>3 DEF Placed, CreatesForFree, Creating, Turn
    <3>4. TopicsAreBound'
      <4> SUFFICES ASSUME NEW t \in 1..made'
                   PROVE  \/ t \in excused' \cup Bound(view.bind)
                          \/ \E g \in Callers : call'[g].topic = t
        BY <1>1 DEF TopicsAreBound
      <4>1. CASE t \in 1..made
        BY <1>0, <1>3, <2>2, <2>3, <4>1 DEF Placed, TopicsAreBound, Turn
      <4>2. CASE made' = made + 1 /\ t = made + 1
        BY <1>0, <1>3, <4>2
      <4>3. QED
        BY <1>0, <1>3, <4>1, <4>2
    <3>5. QED
      BY <3>1, <3>2, <3>3, <3>4 DEF Placed
  <2>5. Types'
    BY <1>0, <1>1, <1>3, <2>3 DEF IInv, Types, Turn
  <2>6. Whole'
    BY <1>0, <1>1, <1>3 DEF IInv, Types, Whole, InTransaction
  <2>7. Claimed'
    <3>1. /\ Claiming' \subseteq Claiming /\ Unclaimed' <= Unclaimed
          /\ \A g \in Callers : call'[g].pc = "claim" => call[g].pc = "claim"
      <4>1. /\ Claiming' \subseteq Claiming /\ Unmarked \subseteq Unmarked'
            /\ \A g \in Callers : call'[g].pc = "claim" => call[g].pc = "claim"
        BY <1>0, <2>2, <2>3 DEF Claiming, Unmarked, Turn, Claims
      <4>2. QED
        BY <1>1, <4>1 DEF Unclaimed
    <3>2. /\ Cardinality(Claiming') <= Cardinality(Claiming)
          /\ Cardinality(Claiming) \in Nat /\ Cardinality(Claiming') \in Nat
      <4>1. Claiming \in SUBSET Callers /\ Claiming' \in SUBSET Callers
        BY DEF Claiming
      <4>2. QED
        BY <3>1, <4>1, ClaimsCount
    <3>3. Unclaimed \in Nat /\ Unclaimed' \in Nat
      BY DEF Unclaimed
    <3>4. QED
      BY <1>1, <1>3, <3>1, <3>2, <3>3 DEF IInv, Types, Claimed
  <2>8. QED
    BY <2>4, <2>5, <2>6, <2>7 DEF IInv
<1>4. QED
  <2>1. \/ /\ made' = made + 1 /\ excused' = excused /\ faults' = faults
           /\ call' = [call EXCEPT ![h] = [call[h] EXCEPT !.pc = "bind",
                                                          !.topic = made + 1]]
        \/ /\ \/ made' = made /\ excused' = excused /\ faults' = faults
              \/ /\ made' = made + 1 /\ excused' = excused \cup {made + 1}
                 /\ faults' = faults + 1
           /\ call' = [call EXCEPT ![h] = [call[h] EXCEPT !.pc = call[h].then,
                                                          !.ok = FALSE]]
    BY <1>0 DEF CreateTopic, CreateLost, Thread
  <2>2. QED
    BY <1>2, <1>3, <2>1

(* What a saved binding takes from its chat was already lost.              *)
LEMMA SaveKeeps ==
  ASSUME IInv, NEW h \in Callers, SaveBinding(h)
  PROVE  IInv'
<1>0. /\ call \in [Callers -> Calls] /\ call[h] \in Calls
      /\ IsStore(view) /\ made \in Nat /\ Placed
      /\ call[h].pc = "bind" /\ call[h].chat \in Chats
      /\ call[h].topic \in Nat /\ call[h].named \in BOOLEAN
  BY DEF IInv, Types, Calls, SaveBinding, At
<1> DEFINE chat == call[h].chat
           row == [topic |-> call[h].topic, named |-> call[h].named]
<1>1. /\ view' = [view EXCEPT !.bind[chat] = row]
      /\ call' = [call EXCEPT ![h] = [call[h] EXCEPT !.pc = "commit",
                                                     !.topic = 0]]
      /\ db' = db /\ made' = made /\ excused' = excused
      /\ UNCHANGED <<button, recorder, cmd, depth, faults, joins, doubled>>
  BY DEF SaveBinding, Execute, Thread, world
<1>2. row \in Row /\ row.topic = call[h].topic
  BY <1>0 DEF Row
<1>3. chat \in Chats
  BY <1>0
<1> HIDE DEF row, chat
<1>4. /\ view'.bind = [view.bind EXCEPT ![chat] = row]
      /\ view'.rec = view.rec /\ view'.act = view.act /\ view'.reg = view.reg
      /\ view' = [bind |-> view'.bind, reg |-> view'.reg,
                  act |-> view'.act, rec |-> view'.rec]
  BY <1>0, <1>1 DEF IsStore
<1>5. /\ IsStore(view')
      /\ view'.bind[chat].topic = call[h].topic
      /\ \A c \in Chats \ {chat} : view'.bind[c] = view.bind[c]
  BY <1>0, <1>2, <1>3, <1>4 DEF IsStore
<1>6. call'[h] = [call[h] EXCEPT !.pc = "commit", !.topic = 0]
  BY <1>0, <1>1
<1>7. /\ call'[h] \in Calls /\ call'[h].pc = "commit"
      /\ call'[h].topic = 0 /\ call'[h].chat = chat
  <2>1. "commit" \in Place /\ 0 \in Nat
    BY DEF Place, Locks
  <2>2. QED
    BY <1>0, <1>6, <2>1 DEF Calls, chat
<1>8. Turn(h)
  BY <1>0, <1>1, <1>7 DEF Turn
<1>9. Placed'
  <2>1. OneLocked'
    BY <1>0, <1>7, <1>8 DEF Placed, OneLocked, InLock, Turn, chat
  <2>2. HeldToBind'
    BY <1>0, <1>7, <1>8 DEF Placed, HeldToBind, Turn
  <2>3. CreatesForFree'
    <3> SUFFICES ASSUME NEW g \in Callers, Creating(g)'
                 PROVE  view'.bind[call'[g].chat].topic \in excused \cup {0}
      BY <1>1 DEF CreatesForFree
    <3>1. g # h
      BY <1>7 DEF Creating
    <3>2. call'[g] = call[g] /\ call[g].chat \in Chats /\ Creating(g)
      BY <1>0, <1>8, <3>1 DEF Turn, Creating, Calls
    <3>3. call[g].chat # chat
      BY <1>0, <3>1, <3>2
         DEF Placed, OneLocked, InLock, Creating, chat
    <3>4. QED
      BY <1>0, <1>5, <3>2, <3>3 DEF Placed, CreatesForFree
  <2>4. TopicsAreBound'
    <3> SUFFICES ASSUME NEW t \in 1..made
                 PROVE  \/ t \in excused \cup Bound(view'.bind)
                        \/ \E g \in Callers : call'[g].topic = t
      BY <1>1 DEF TopicsAreBound
    <3>0. t # 0
      BY <1>0
    <3>1. CASE t \in excused
      BY <3>1
    <3>2. CASE t \in Bound(view.bind) /\ t \notin excused
      <4>1. PICK c \in Chats : view.bind[c].topic = t
        BY <3>2 DEF Bound
      <4>2. c # chat
        BY <1>0, <3>0, <3>2, <4>1 DEF Placed, CreatesForFree, Creating, chat
      <4>3. QED
        BY <1>5, <3>0, <4>1, <4>2 DEF Bound
    <3>3. CASE \E g \in Callers : call[g].topic = t
      <4>1. PICK g \in Callers : call[g].topic = t
        BY <3>3
      <4>2. CASE g = h
        BY <1>3, <1>5, <3>0, <4>1, <4>2 DEF Bound
      <4>3. CASE g # h
        BY <1>8, <4>1, <4>3 DEF Turn
      <4>4. QED
        BY <4>2, <4>3
    <3>4. QED
      BY <1>0, <3>1, <3>2, <3>3 DEF Placed, TopicsAreBound
  <2>5. QED
    BY <2>1, <2>2, <2>3, <2>4 DEF Placed
<1>10. QED
  BY <1>0, <1>1, <1>4, <1>5, <1>7, <1>8, <1>9, TurnKeeps DEF Claims

(* A press of a message's button takes its turn while nobody is under way, *)
(* or is counted.                                                          *)
LEMMA PressKeeps ==
  ASSUME IInv, NEW h \in Callers, Press(h)
  PROVE  IInv'
<1>0. /\ call \in [Callers -> Calls] /\ call[h] \in Calls
      /\ call[h].pc = "idle" /\ doubled \in Nat
  BY DEF IInv, Types, Press, At
<1> DEFINE pc == IF view.act # "pending" THEN "over"
                 ELSE IF button THEN "join" ELSE "claim"
<1>1. /\ call' = [call EXCEPT ![h] = [call[h] EXCEPT !.pc = pc]]
      /\ doubled' = IF view.act = "pending" /\ button /\ Unmarked # {}
                    THEN doubled + 1 ELSE doubled
      /\ view' = view /\ db' = db /\ made' = made /\ excused' = excused
      /\ UNCHANGED <<button, recorder, cmd, depth, faults, joins>>
  BY DEF Press, Goto, Thread, conn
<1>2. pc \in Place
  BY DEF Place, Claims
<1>3. /\ call'[h].pc = pc /\ call'[h] \in Calls
      /\ call'[h].topic = call[h].topic /\ call'[h].chat = call[h].chat
  <2> HIDE DEF pc
  <2>1. call'[h] = [call[h] EXCEPT !.pc = pc]
    BY <1>0, <1>1
  <2>2. QED
    BY <1>0, <1>2, <2>1, CallFields
<1>4. Turn(h)
  BY <1>0, <1>1, <1>3 DEF Turn
<1>5. Types'
  BY <1>0, <1>1, <1>4 DEF IInv, Types, Turn
<1>6. Whole'
  BY <1>1, WholeKept DEF IInv
<1>7. Placed'
  <2>1. \A g \in Callers : Tame(g)
    BY <1>0, <1>3, <1>4 DEF Turn, Tame, InLock, Creating
  <2>2. QED
    BY <1>1, <2>1, PlacedKept DEF IInv
<1>8. Claimed'
  <2>1. CASE view.act = "pending" /\ button
    <3>1. /\ Claiming' \subseteq Claiming \cup {h}
          /\ h \in Unmarked'
      BY <1>3, <1>4, <2>1 DEF Claiming, Unmarked, Turn
    <3>2. /\ Cardinality(Claiming') <= Cardinality(Claiming) + 1
          /\ Cardinality(Claiming) \in Nat /\ Cardinality(Claiming') \in Nat
      <4>1. Claiming \in SUBSET Callers /\ Claiming' \in SUBSET Callers
        BY DEF Claiming
      <4>2. QED
        BY <3>1, <4>1, ClaimsCount
    <3>3. /\ Unclaimed' = 0
          /\ Unclaimed = IF Unmarked # {} THEN 0 ELSE 1
          /\ doubled' = IF Unmarked # {} THEN doubled + 1 ELSE doubled
      BY <1>1, <2>1, <3>1 DEF Unclaimed
    <3>4. \A g \in Callers : call'[g].pc # "claim"
      BY <1>3, <1>4, <2>1 DEF IInv, Claimed, Turn
    <3>5. QED
      BY <1>0, <1>1, <3>2, <3>3, <3>4 DEF IInv, Types, Claimed
  <2>2. CASE ~(view.act = "pending" /\ button)
    <3>1. /\ Claiming' \subseteq Claiming /\ Unmarked \subseteq Unmarked'
          /\ button => \A g \in Callers :
                         call'[g].pc = "claim" => call[g].pc = "claim"
      BY <1>0, <1>3, <1>4, <2>2 DEF Claiming, Unmarked, Turn, Claims
    <3>2. QED
      BY <1>1, <2>2, <3>1, ClaimedKept DEF IInv
  <2>3. QED
    BY <2>1, <2>2
<1>9. QED
  BY <1>5, <1>6, <1>7, <1>8 DEF IInv

(* A claim is taken when the action is pending, and only then.             *)
LEMMA ClaimKeeps ==
  ASSUME IInv, NEW h \in Callers, Claim(h)
  PROVE  IInv'
<1>0. /\ call \in [Callers -> Calls] /\ call[h] \in Calls
      /\ IsStore(view) /\ call[h].pc = "claim"
  BY DEF IInv, Types, Claim, At
<1>1. /\ call' = [call EXCEPT ![h] = [call[h] EXCEPT !.pc =
                    IF view.act = "pending" THEN "claimed" ELSE "closing"]]
      /\ view' = [view EXCEPT !.act = IF view.act = "pending" THEN "processing"
                                                             ELSE view.act]
      /\ db' = db /\ made' = made /\ excused' = excused
      /\ UNCHANGED <<button, recorder, cmd, depth, faults, joins, doubled>>
  BY DEF Claim, Goto, Execute, Thread, world
<1>2. /\ view'.bind = view.bind /\ view'.rec = view.rec /\ IsStore(view')
      /\ view'.act # "pending"
  BY <1>0, <1>1 DEF IsStore
<1>3. /\ call'[h].pc = IF view.act = "pending" THEN "claimed" ELSE "closing"
      /\ call'[h] \in Calls
      /\ call'[h].topic = call[h].topic /\ call'[h].chat = call[h].chat
  <2>1. call'[h] = [call[h] EXCEPT !.pc =
                      IF view.act = "pending" THEN "claimed" ELSE "closing"]
    BY <1>0, <1>1
  <2>2. "claimed" \in Place /\ "closing" \in Place
    BY DEF Place, Claims
  <2>3. QED
    BY <1>0, <2>1, <2>2 DEF Calls
<1>4. Turn(h)
  BY <1>0, <1>1, <1>3 DEF Turn
<1>5. Types'
  BY <1>1, <1>2, <1>4 DEF IInv, Types, Turn
<1>6. Whole'
  BY <1>1, <1>2, WholeKept DEF IInv
<1>7. Placed'
  <2>1. \A g \in Callers : Tame(g)
    BY <1>0, <1>3, <1>4 DEF Turn, Tame, InLock, Creating
  <2>2. QED
    BY <1>1, <1>2, <2>1, PlacedKept DEF IInv
<1>8. Claimed'
  <2>1. CASE view.act = "pending"
    <3>1. Claiming' \subseteq Claiming \cup {h}
      BY <1>4 DEF Claiming, Turn
    <3>2. /\ Cardinality(Claiming') <= Cardinality(Claiming) + 1
          /\ Cardinality(Claiming) \in Nat /\ Cardinality(Claiming') \in Nat
      <4>1. Claiming \in SUBSET Callers /\ Claiming' \in SUBSET Callers
        BY DEF Claiming
      <4>2. QED
        BY <3>1, <4>1, ClaimsCount
    <3>3. Unclaimed = 1 /\ Unclaimed' = 0 /\ ~button
      BY <1>0, <1>2, <2>1 DEF IInv, Claimed, Unclaimed
    <3>4. QED
      BY <1>1, <3>2, <3>3 DEF IInv, Types, Claimed
  <2>2. CASE view.act # "pending"
    <3>1. /\ Claiming' \subseteq Claiming
          /\ \A g \in Callers : call'[g].pc = "claim" => call[g].pc = "claim"
      BY <1>3, <1>4, <2>2 DEF Claiming, Turn, Claims
    <3>2. QED
      BY <1>1, <1>2, <3>1, ClaimedKept DEF IInv
  <2>3. QED
    BY <2>1, <2>2
<1>9. QED
  BY <1>5, <1>6, <1>7, <1>8 DEF IInv

(* A join ends the claim it was made under.                                *)
LEMMA JoinKeeps ==
  ASSUME IInv, NEW h \in Callers, Join(h)
  PROVE  IInv'
<1>0. /\ call \in [Callers -> Calls] /\ call[h] \in Calls
      /\ call[h].pc = "join" /\ joins \in Nat
  BY DEF IInv, Types, Join, At
<1>1. /\ view' = view /\ db' = db /\ made' = made /\ excused' = excused
      /\ UNCHANGED <<button, recorder, cmd, depth, faults, doubled>>
      /\ joins' = joins \/ joins' = joins + 1
  BY DEF Join, Thread, conn
<1>2. \E pc \in {"finish", "wait"}, ok \in BOOLEAN :
        /\ pc = "wait" => ~button
        /\ \/ call' = [call EXCEPT ![h] = [call[h] EXCEPT !.pc = pc,
                                                          !.then = "finish"]]
           \/ call' = [call EXCEPT ![h] = [call[h] EXCEPT !.pc = pc, !.ok = ok]]
  BY <1>0 DEF Join
<1>3. /\ call'[h].pc \in {"finish", "wait"} /\ call'[h] \in Calls
      /\ call'[h].pc = "wait" => ~button
      /\ call'[h].topic = call[h].topic /\ call'[h].chat = call[h].chat
      /\ \A g \in Callers \ {h} : call'[g] = call[g]
      /\ DOMAIN call' = Callers
  <2>1. PICK pc \in {"finish", "wait"}, ok \in BOOLEAN :
          /\ pc = "wait" => ~button
          /\ \/ call' = [call EXCEPT ![h] = [call[h] EXCEPT !.pc = pc,
                                                            !.then = "finish"]]
             \/ call' = [call EXCEPT ![h] = [call[h] EXCEPT !.pc = pc, !.ok = ok]]
    BY <1>2
  <2>2. \/ call'[h] = [call[h] EXCEPT !.pc = pc, !.then = "finish"]
        \/ call'[h] = [call[h] EXCEPT !.pc = pc, !.ok = ok]
    BY <1>0, <2>1
  <2>3. pc \in Place
    BY DEF Place
  <2>4. /\ call'[h].pc = pc /\ call'[h] \in Calls
        /\ call'[h].topic = call[h].topic /\ call'[h].chat = call[h].chat
    BY <1>0, <2>2, <2>3 DEF Calls
  <2>5. QED
    BY <1>0, <2>1, <2>4
<1>4. Turn(h)
  <2>1. call' \in [Callers -> Calls]
    <3>1. call' = [g \in Callers |-> call'[g]]
      BY <1>0, <1>2
    <3>2. QED
      BY <1>0, <1>3, <3>1
  <2>2. QED
    BY <1>3, <2>1 DEF Turn
<1>5. Types'
  BY <1>0, <1>1, <1>4 DEF IInv, Types, Turn
<1>6. Whole'
  BY <1>1, WholeKept DEF IInv
<1>7. Placed'
  <2>1. \A g \in Callers : Tame(g)
    BY <1>0, <1>3, <1>4 DEF Turn, Tame, InLock, Creating
  <2>2. QED
    BY <1>1, <2>1, PlacedKept DEF IInv
<1>8. Claimed'
  <2>1. h \in Claiming /\ Claiming' \subseteq Claiming \ {h}
    BY <1>0, <1>3, <1>4 DEF Claiming, Turn, Claims
  <2>2. /\ Cardinality(Claiming') + 1 <= Cardinality(Claiming)
        /\ Cardinality(Claiming) \in Nat /\ Cardinality(Claiming') \in Nat
    <3>1. Claiming \in SUBSET Callers /\ Claiming' \in SUBSET Callers
      BY DEF Claiming
    <3>2. QED
      BY <2>1, <3>1, ClaimsCount
  <2>3. Unclaimed' = Unclaimed /\ Unclaimed \in Nat
    <3>1. ~button \/ (Unmarked # {} /\ Unmarked' # {})
      BY <1>0, <1>3 DEF Unmarked
    <3>2. QED
      BY <1>1, <3>1 DEF Unclaimed
  <2>4. button => \A g \in Callers : call'[g].pc # "claim"
    BY <1>3 DEF IInv, Claimed
  <2>5. QED
    BY <1>0, <1>1, <2>2, <2>3, <2>4 DEF IInv, Types, Claimed
<1>9. QED
  BY <1>5, <1>6, <1>7, <1>8 DEF IInv

-----------------------------------------------------------------------------
(* The inductive invariant holds initially ...                             *)
LEMMA InitHolds == Init => IInv
<1> SUFFICES ASSUME Init PROVE IInv
  OBVIOUS
<1>1. /\ Empty.bind = [c \in Chats |-> Unbound] /\ Empty.rec = 0
      /\ Empty.act = "pending" /\ IsStore(Empty)
  BY DEF Empty, IsStore, Unbound, Row
<1>2. AtRest \in Calls /\ AtRest.pc = "idle" /\ AtRest.topic = 0
  <2>1. LinkChat \in Chats /\ "idle" \in Place
    BY TopicsAssumption DEF Place
  <2>2. QED
    BY <2>1 DEF AtRest, Calls
<1>3. \A h \in Callers : call[h] = AtRest
  BY DEF Init
<1>4. Types
  <2>1. call \in [Callers -> Calls]
    BY <1>2 DEF Init
  <2>2. QED
    BY <1>1, <2>1 DEF Init, Types
<1>5. Whole
  BY <1>1 DEF Init, Whole, InTransaction
<1>6. Placed
  BY <1>2, <1>3 DEF Init, Placed, OneLocked, HeldToBind, CreatesForFree,
                    TopicsAreBound, InLock, Creating
<1>7. Claimed
  <2>1. Claiming = {}
    BY <1>2, <1>3 DEF Claiming, Claims
  <2>2. /\ Cardinality(Claiming) = 0 /\ Unclaimed \in 0..1
        /\ joins = 0 /\ faults = 0 /\ doubled = 0
    BY <2>1, FS_EmptySet DEF Init, Unclaimed
  <2>3. QED
    BY <1>2, <1>3, <2>2 DEF Claimed
<1>8. QED
  BY <1>4, <1>5, <1>6, <1>7 DEF IInv

(* ... is kept by every step, one case per action ...                      *)
LEMMA NextKeeps == IInv /\ [Next]_vars => IInv'
<1> SUFFICES ASSUME IInv, [Next]_vars PROVE IInv'
  OBVIOUS
<1>1. CASE UNCHANGED vars
  <2>1. /\ UNCHANGED <<button, db, view, began, depth, call, recorder, cmd,
                       made, excused, joins, doubled, faults>>
    BY <1>1 DEF vars, conn, world
  <2>2. Types' /\ Whole'
    BY <2>1 DEF IInv, Types, Whole, InTransaction
  <2>3. Placed' /\ Claimed'
    BY <2>1, NoTurn, PlacedKept, ClaimedKept DEF IInv
  <2>4. QED
    BY <2>2, <2>3 DEF IInv
<1>2. ASSUME NEW h \in Callers, CallStep(h) \/ CreateLost(h) \/ Press(h)
      PROVE  IInv'
  BY <1>2, MovesKeep, EnterKeeps, LookUpKeeps, CreationsKeep, SaveKeeps,
     PressKeeps, ClaimKeeps, JoinKeeps DEF CallStep
<1>3. ASSUME NEW h \in Handlers, NEW c \in Chats, Arrive(h, c)
      PROVE  IInv'
  BY <1>3, MovesKeep DEF Callers
<1>4. CASE RecordStep \/ RecordRaised \/ RecordCancelled
  BY <1>4, RecordKeeps, RollbackKeeps
<1>5. CASE ScanStep \/ CacheLapses
  BY <1>5, ScanKeeps
<1>6. CASE \/ \E t \in Topics, c \in Chats : StartRemap(t, c)
           \/ CommandStep \/ ExpireRequests
  BY <1>6, CommandsKeep, MoveKeeps DEF CommandStep
<1>7. CASE Crash
  BY <1>7, CrashKeeps
<1>8. QED
  BY <1>1, <1>2, <1>3, <1>4, <1>5, <1>6, <1>7 DEF Next

(* ... and so holds in every reachable state.                              *)
LEMMA Invariance == Spec => []IInv
  BY InitHolds, NextKeeps, PTL DEF Spec

(* Every topic that was created is some chat's or held by the call that    *)
(* binds it (topics.py:62-121, bindings.py:55-77), unless a fault or the   *)
(* owner's remap took it.                                                  *)
THEOREM EveryTopicIsBound == Spec => []TopicsAreBound
<1>1. IInv => TopicsAreBound
  BY DEF IInv, Placed
<1>2. QED
  BY <1>1, Invariance, PTL

(* Over crashes and rollbacks, the two statements of a recording           *)
(* transaction are committed together (repository.py:81-98), although      *)
(* every other task commits on the same connection (base.py:24-26); unless *)
(* the recording task was cancelled in between.                            *)
THEOREM TransactionsStayWhole == Spec => []TransactionsAreWhole
<1>1. IInv => TransactionsAreWhole
  BY DEF IInv, Whole, TransactionsAreWhole
<1>2. QED
  BY <1>1, Invariance, PTL

(* However many presses there are of a button, the owner's or a message's, *)
(* the link is joined once, and once more for every fault that gave a      *)
(* claim back and for every press of a message's button that began before  *)
(* an earlier one was marked (callback_actions.py:94-104, join.py:86-105,  *)
(* actions.py:116-163).                                                    *)
THEOREM ButtonsJoinOnce == Spec => []JoinsOnce
<1>1. IInv => JoinsOnce
  <2> SUFFICES ASSUME IInv PROVE joins <= 1 + faults + doubled
    BY DEF JoinsOnce
  <2>1. Cardinality(Claiming) \in Nat /\ Unclaimed \in Nat
    BY ClaimsCount DEF Claiming, Unclaimed
  <2>2. QED
    BY <2>1 DEF IInv, Types, Claimed
<1>2. QED
  BY <1>1, Invariance, PTL

=============================================================================
