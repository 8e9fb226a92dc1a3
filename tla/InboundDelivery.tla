---------------------------- MODULE InboundDelivery ----------------------------
(***************************************************************************)
(* MAX -> TG: a MAX message reaches handle_max_message as a live event, or *)
(* again by a history sweep (or a redelivery after a reconnect).  The      *)
(* handler asks message_map whether the message is known, writes its key,  *)
(* finds the topic, sends to Telegram and records the result.  A text that *)
(* Telegram did not take goes to pending_inbound_messages, which one retry *)
(* worker works off.                                                       *)
(*                                                                         *)
(* Live handlers and the sweep are tasks of one event loop: between the    *)
(* duplicate check and the key of one, the other may run.  The process may *)
(* crash between any two steps; only the database survives.                *)
(***************************************************************************)
EXTENDS RetryQueue, FiniteSets

CONSTANTS Messages,
          MediaMessages,  \* not candidates for the text queue
          Live, Sweep,    \* the two origins of a call of the handler
          Swept,          \* those the history sweep may replay
          None,
          PollLimit,
          SendAttempts,   \* sends per call of TelegramAdapter.send_text
          LoseReplies,    \* Telegram may post a text whose send then fails
          MaxFaults       \* crashes and failed transactions that may happen

ASSUME InboundAssumption ==
  /\ MediaMessages \subseteq Messages
  /\ Live # Sweep
  /\ Swept \subseteq Messages
  /\ None \notin Messages
  /\ PollLimit \in Nat \ {0}
  /\ SendAttempts \in Nat \ {0}
  /\ LoseReplies \in BOOLEAN
  /\ MaxFaults \in Nat

Origins == {Live, Sweep}

VARIABLES
  row,      \* pending_inbound_messages
  keyed,    \* messages with a row in message_map
  mapped,   \* those whose row has a Telegram message id
  logged,   \* last status in delivery_log
  handler,  \* what each call of handle_max_message is doing
  worker,   \* what the retry worker is doing
  batch,
  snap,
  job,
  copies,   \* how often Telegram has posted each message
  faults

db == <<row, keyed, mapped, logged>>
queue == <<batch, snap, job>>
vars == <<db, handler, worker, queue, copies, faults>>

-----------------------------------------------------------------------------
HandlerPC == {"idle",
              "checking",   \* about to ask is_duplicate
              "accepted",   \* not a duplicate; the key is not written yet
              "keyed",      \* the key is written
              "routed",     \* the topic is known and the chat is enabled
              "sent", "retryable", "refused"}  \* Telegram has answered
WorkerPC == {"idle", "leased", "sent", "retryable", "refused"}
LogStatus == {"none", "delivered", "pending", "failed", "disabled"}

TypeOK ==
  /\ row \in [Messages -> Row]
  /\ keyed \subseteq Messages
  /\ mapped \subseteq Messages
  /\ logged \in [Messages -> LogStatus]
  /\ handler \in [Messages -> [Origins -> HandlerPC]]
  /\ worker \in WorkerPC
  /\ batch \subseteq Messages
  /\ snap \in [Messages -> 0..AttemptCap]
  /\ job \in Messages \cup {None}
  /\ copies \in [Messages -> Nat]
  /\ faults \in 0..MaxFaults

Init ==
  /\ row = [m \in Messages |-> NoRow]
  /\ keyed = {}
  /\ mapped = {}
  /\ logged = [m \in Messages |-> "none"]
  /\ handler = [m \in Messages |-> [o \in Origins |-> "idle"]]
  /\ worker = "idle"
  /\ batch = {}
  /\ snap = [m \in Messages |-> 0]
  /\ job = None
  /\ copies = [m \in Messages |-> 0]
  /\ faults = 0

At(m, o, pc) == handler[m][o] = pc
Goto(m, o, pc) == handler' = [handler EXCEPT ![m][o] = pc]

-----------------------------------------------------------------------------
(* handle_max_message                                                      *)

(* A live event may come at any time; the sweep replays one message after  *)
(* the other, and only messages it does not find in message_map.           *)
Arrive(m, o) ==
  /\ At(m, o, "idle")
  /\ o = Sweep => /\ m \in Swept
                  /\ m \notin keyed
                  /\ \A n \in Messages : At(n, Sweep, "idle")
  /\ Goto(m, o, "checking")
  /\ UNCHANGED <<db, worker, queue, copies, faults>>

(* Variant: only a delivered message counts as a duplicate.                *)
CheckDelivered(m, o) ==
  /\ At(m, o, "checking")
  /\ Goto(m, o, IF m \in mapped THEN "idle" ELSE "accepted")
  /\ UNCHANGED <<db, worker, queue, copies, faults>>

CheckDuplicate(m, o) ==
  /\ At(m, o, "checking")
  /\ Goto(m, o, IF m \in keyed THEN "idle" ELSE "accepted")
  /\ UNCHANGED <<db, worker, queue, copies, faults>>

SaveKey(m, o) ==
  /\ At(m, o, "accepted")
  /\ keyed' = keyed \cup {m}
  /\ Goto(m, o, "keyed")
  /\ UNCHANGED <<row, mapped, logged, worker, queue, copies, faults>>

(* get_or_create_topic gives no topic: the message is logged as failed.    *)
NoTopic(m, o) ==
  /\ At(m, o, "keyed")
  /\ logged' = [logged EXCEPT ![m] = "failed"]
  /\ Goto(m, o, "idle")
  /\ UNCHANGED <<row, keyed, mapped, worker, queue, copies, faults>>

(* A disabled chat: the code writes nothing; the model notes the reason.   *)
ChatDisabled(m, o) ==
  /\ At(m, o, "keyed")
  /\ logged' = [logged EXCEPT ![m] = "disabled"]
  /\ Goto(m, o, "idle")
  /\ UNCHANGED <<row, keyed, mapped, worker, queue, copies, faults>>

Routed(m, o) ==
  /\ At(m, o, "keyed")
  /\ Goto(m, o, "routed")
  /\ UNCHANGED <<db, worker, queue, copies, faults>>

(* send_text tries SendAttempts times.  Every try whose answer is lost may *)
(* have posted the text.                                                   *)
Answers == {"sent", "retryable", "refused"}
Posted(m, answer, n) ==
  /\ answer = "sent" => n >= 1
  /\ ~LoseReplies => n = IF answer = "sent" THEN 1 ELSE 0
  /\ copies' = [copies EXCEPT ![m] = @ + n]

Forward(m, o) ==
  /\ At(m, o, "routed")
  /\ \E answer \in Answers, n \in 0..SendAttempts :
       /\ Posted(m, answer, n)
       /\ Goto(m, o, answer)
  /\ UNCHANGED <<db, worker, queue, faults>>

(* One transaction: message_map with the Telegram id, and delivery_log.    *)
RecordForwarded(m, o) ==
  /\ At(m, o, "sent")
  /\ mapped' = mapped \cup {m}
  /\ keyed' = keyed \cup {m}
  /\ logged' = [logged EXCEPT ![m] = "delivered"]
  /\ Goto(m, o, "idle")
  /\ UNCHANGED <<row, worker, queue, copies, faults>>

(* One transaction: the queue row and delivery_log.                        *)
QueueText(m, o) ==
  /\ At(m, o, "retryable")
  /\ m \notin MediaMessages
  /\ row' = [row EXCEPT ![m] = Enqueued(@, 1)]
  /\ logged' = [logged EXCEPT ![m] = "pending"]
  /\ Goto(m, o, "idle")
  /\ UNCHANGED <<keyed, mapped, worker, queue, copies, faults>>

(* Variant: a refused message leaves no trace.                             *)
LogNoFailure(m, o) ==
  /\ \/ At(m, o, "refused")
     \/ At(m, o, "retryable") /\ m \in MediaMessages
  /\ Goto(m, o, "idle")
  /\ UNCHANGED <<db, worker, queue, copies, faults>>

LogFailure(m, o) ==
  /\ \/ At(m, o, "refused")
     \/ At(m, o, "retryable") /\ m \in MediaMessages
  /\ logged' = [logged EXCEPT ![m] = "failed"]
  /\ Goto(m, o, "idle")
  /\ UNCHANGED <<row, keyed, mapped, worker, queue, copies, faults>>

(* Repository.transaction raises when another task has one open; the MAX   *)
(* event dispatcher logs the exception and the message is over.            *)
RecordingRaised(m, o) ==
  /\ faults < MaxFaults
  /\ \/ At(m, o, "sent")
     \/ At(m, o, "retryable") /\ m \notin MediaMessages
  /\ faults' = faults + 1
  /\ Goto(m, o, "idle")
  /\ UNCHANGED <<db, worker, queue, copies>>

HandlerStep(m, o) ==
  \/ CheckDuplicate(m, o) \/ SaveKey(m, o)
  \/ NoTopic(m, o) \/ ChatDisabled(m, o) \/ Routed(m, o)
  \/ Forward(m, o)
  \/ RecordForwarded(m, o) \/ QueueText(m, o) \/ LogFailure(m, o)

-----------------------------------------------------------------------------
(* run_pending_inbound_messages and process_pending_inbound_message.  The  *)
(* worker does not ask whether anything is connected.                      *)

DueRows == {m \in Messages : IsDue(row[m])}

Poll ==
  /\ worker = "idle"
  /\ batch = {}
  /\ \E polled \in SUBSET DueRows :
       /\ polled # {}
       /\ \/ polled = DueRows /\ Cardinality(DueRows) <= PollLimit
          \/ Cardinality(polled) = PollLimit
       /\ batch' = polled
       /\ snap' = [m \in Messages |-> IF m \in polled THEN row[m].attempts
                                                      ELSE 0]
  /\ UNCHANGED <<db, handler, worker, job, copies, faults>>

LeaseJob(m) ==
  /\ worker = "idle"
  /\ m \in batch
  /\ batch' = batch \ {m}
  /\ IF CanLease(row[m])
     THEN /\ row' = [row EXCEPT ![m] = Leased(@)]
          /\ worker' = "leased"
          /\ job' = m
     ELSE UNCHANGED <<row, worker, job>>
  /\ UNCHANGED <<keyed, mapped, logged, handler, snap, copies, faults>>

JobOver == worker' = "idle" /\ job' = None

ExpireJob ==
  /\ worker = "leased"
  /\ IsExpired(row[job])
  /\ row' = [row EXCEPT ![job] = Failed(@)]
  /\ JobOver
  /\ UNCHANGED <<keyed, mapped, logged, handler, batch, snap, copies,
                 faults>>

SendJob ==
  /\ worker = "leased"
  /\ ~IsExpired(row[job])
  /\ \E answer \in Answers, n \in 0..SendAttempts :
       /\ Posted(job, answer, n)
       /\ worker' = answer
  /\ UNCHANGED <<db, handler, queue, faults>>

(* One transaction: message_map, delivery_log and the queue row.           *)
JobSent ==
  /\ worker = "sent"
  /\ mapped' = mapped \cup {job}
  /\ keyed' = keyed \cup {job}
  /\ logged' = [logged EXCEPT ![job] = "delivered"]
  /\ row' = [row EXCEPT ![job] = Delivered(@)]
  /\ JobOver
  /\ UNCHANGED <<handler, batch, snap, copies, faults>>

RetryJob ==
  /\ worker = "retryable"
  /\ row' = [row EXCEPT ![job] = Retried(@, NextDelay(snap[job]))]
  /\ JobOver
  /\ UNCHANGED <<keyed, mapped, logged, handler, batch, snap, copies,
                 faults>>

GiveUpJob ==
  /\ worker = "refused"
  /\ row' = [row EXCEPT ![job] = Failed(@)]
  /\ JobOver
  /\ UNCHANGED <<keyed, mapped, logged, handler, batch, snap, copies,
                 faults>>

JobStep == ExpireJob \/ SendJob \/ JobSent \/ RetryJob \/ GiveUpJob

-----------------------------------------------------------------------------
Tick ==
  /\ row' = [m \in Messages |-> Aged(row[m])]
  /\ UNCHANGED <<keyed, mapped, logged, handler, worker, queue, copies,
                 faults>>

(* An exception in the worker ends the bridge as a crash does.             *)
Crash ==
  /\ faults < MaxFaults
  /\ faults' = faults + 1
  /\ handler' = [m \in Messages |-> [o \in Origins |-> "idle"]]
  /\ worker' = "idle"
  /\ batch' = {}
  /\ snap' = [m \in Messages |-> 0]
  /\ job' = None
  /\ UNCHANGED <<db, copies>>

Next ==
  \/ \E m \in Messages, o \in Origins :
       Arrive(m, o) \/ HandlerStep(m, o) \/ RecordingRaised(m, o)
  \/ Poll \/ (\E m \in Messages : LeaseJob(m)) \/ JobStep
  \/ Tick \/ Crash

Spec == Init /\ [][Next]_vars

(* Every await of a handler or of the worker has a timeout; the worker     *)
(* polls for as long as the bridge lives, and time passes.                 *)
FairSpec ==
  /\ Spec
  /\ \A m \in Messages, o \in Origins : WF_vars(HandlerStep(m, o))
  /\ WF_vars(Poll) /\ (\A m \in Messages : WF_vars(LeaseJob(m)))
  /\ WF_vars(JobStep) /\ WF_vars(Tick)

-----------------------------------------------------------------------------
(* Properties                                                              *)

InHand(m) == \E o \in Origins : handler[m][o] \notin {"idle", "checking"}

(* While nothing crashes, a known message nobody has in hand was posted,   *)
(* waits in the queue, was given up, or has its failure in delivery_log:   *)
(* the key that keeps it from being handled again never stands alone.      *)
NoSilentLoss ==
  faults = 0 => \A m \in Messages :
    m \in keyed /\ ~InHand(m) =>
      \/ m \in mapped
      \/ row[m].status # "absent"
      \/ logged[m] \in {"failed", "disabled"}

(* If Telegram answers every send, a message is posted once, once more if  *)
(* the sweep replays it, and a crash costs at most one further copy.       *)
BoundedCopies ==
  ~LoseReplies => \A m \in Messages :
    copies[m] <= (IF m \in Swept THEN 2 ELSE 1) + faults

(* What TextContract sees of a message.                                    *)
Fate ==
  [m \in Messages \ Swept |->
     CASE m \in mapped -> "delivered"
       [] m \notin mapped /\ IsOpen(row[m]) -> "queued"
       [] m \notin mapped /\ ~IsOpen(row[m]) /\
            (row[m].status = "failed" \/ logged[m] \in {"failed", "disabled"})
            -> "dropped"
       [] OTHER -> "offered"]

Contract == INSTANCE TextContract WITH Texts <- Messages \ Swept, fate <- Fate

(* For a message no sweep replays, handlers and worker keep the contract   *)
(* over crashes, and every queued text is posted or given up in the end.   *)
InboundContract == Contract!Spec

(* Stated by the project description: the bridge deduplicates what MAX     *)
(* delivers again.                                                         *)
PostedOnce == \A m \in Messages : copies[m] <= 1
===============================================================================
