--------------------------- MODULE OutboundDelivery ---------------------------
(***************************************************************************)
(* TG -> MAX: a reply written in a Telegram topic is sent to a MAX chat by *)
(* handle_tg_reply, or, when MAX certainly did not take it, kept in        *)
(* pending_outbound_messages and sent later by the one retry worker.       *)
(*                                                                         *)
(* Every reply is handled by a task of its own (aiogram runs a handler per *)
(* update), so handlers of several replies and the worker are in           *)
(* MaxAdapter.send_message at once.  They share one connection and one     *)
(* last-outbound-failure slot, which a caller reads after its own call has *)
(* returned None to decide whether the text may be queued.                 *)
(*                                                                         *)
(* The process may crash between any two steps: the database survives, the *)
(* tasks do not, and Telegram may deliver the update again.                *)
(***************************************************************************)
EXTENDS RetryQueue, FiniteSets

CONSTANTS Replies,      \* Telegram messages, each a (topic, message) key
          MediaReplies, \* those that carry a file; a file is never queued
          Worker,       \* the retry worker
          None,
          MaxAttempts,  \* sends per send_message call
          PollLimit,    \* rows taken per poll
          LoseReplies,  \* MAX may take a text whose send then fails
          LoseNotices,  \* Telegram may refuse a notice to the sender
          MaxFaults,    \* crashes and failed transactions that may happen
          MaxDrops      \* times the MAX connection may drop by itself

ASSUME OutboundAssumption ==
  /\ MediaReplies \subseteq Replies
  /\ Worker \notin Replies
  /\ None \notin Replies
  /\ MaxAttempts \in Nat \ {0}
  /\ PollLimit \in Nat \ {0}
  /\ LoseReplies \in BOOLEAN
  /\ LoseNotices \in BOOLEAN
  /\ MaxFaults \in Nat
  /\ MaxDrops \in Nat

Callers == Replies \cup {Worker}

VARIABLES
  row,       \* pending_outbound_messages, one row per reply
  mapped,    \* replies whose MAX message id is in message_map
  call,      \* what each task is doing
  slot,      \* MaxAdapter._last_outbound_failure
  connected, \* MaxAdapter is started and its session is online
  batch,     \* rows of the current poll still to be leased
  snap,      \* attempts of the polled rows, as the poll read them
  job,       \* the row the worker holds
  copies,    \* how often MAX has taken each text
  unsure,    \* replies with a send whose result nobody learned
  notices,   \* what the bridge sent the user about each reply
  faults,
  drops

db == <<row, mapped>>
worker == <<batch, snap, job>>
world == <<copies, unsure>>
budget == <<faults, drops>>
vars == <<db, call, slot, connected, worker, world, notices, budget>>

-----------------------------------------------------------------------------
(* An error text is what is_definite_unsent_outbound_error makes of it.    *)
Error == {"none", "definite", "ambiguous"}

PC == {"new",      \* the update has not reached the bridge
       "idle",     \* worker between jobs
       "leased",   \* worker holds a lease
       "waiting",  \* send_message waits for a connection
       "trying",   \* send_message is in an attempt
       "pausing",  \* send_message sleeps before the next attempt
       "closing",  \* send_message closes the broken connection
       "sent", "failed",      \* send_message has returned
       "noticing",            \* the outcome is stored, the user not yet told
       "done"}

(* A notice is sent by TelegramAdapter.send_text, which gives up after     *)
(* three attempts and returns None; nobody who sends a notice reads that.  *)
(* Into a disabled chat none is sent.                                      *)
Notice == {"refused", "disabled", "queued", "late", "gaveup", "expired"}
Notices == [note: Notice, heard: BOOLEAN]

Notify(m, note) ==
  \E heard \in IF note = "disabled" THEN {FALSE} ELSE {TRUE, ~LoseNotices} :
    notices' = [notices EXCEPT ![m] = @ \cup {[note |-> note, heard |-> heard]}]

(* error and tries are what the caller read from the slot, own is what its *)
(* own last attempt raised.                                                *)
Call == [pc: PC, attempt: 0..MaxAttempts, own: Error, error: Error,
         tries: 0..MaxAttempts, note: Notice \cup {"none"}]

AtRest(pc) == [pc |-> pc, attempt |-> 0, own |-> "none", error |-> "none",
               tries |-> 0, note |-> "none"]
Noticing(note) == [AtRest("noticing") EXCEPT !.note = note]
GaveNothing == [error |-> "none", attempts |-> 0]

(* How one attempt can fail: the class of the error it raises, whether     *)
(* is_retryable_send_error makes send_message try again, and whether the   *)
(* last such error makes it close the connection.  An ack timeout is the   *)
(* only failure that is retried without being an exception.                *)
AckTimeout == [class |-> "ambiguous", again |-> TRUE, close |-> FALSE]
Failures == {AckTimeout,
             [class |-> "ambiguous", again |-> TRUE,  close |-> TRUE],
             [class |-> "definite",  again |-> TRUE,  close |-> TRUE],
             [class |-> "ambiguous", again |-> FALSE, close |-> FALSE],
             [class |-> "definite",  again |-> FALSE, close |-> FALSE]}

(* The reply whose text caller c is sending.                               *)
TextOf(c) == IF c = Worker THEN job ELSE c

TypeOK ==
  /\ row \in [Replies -> Row]
  /\ mapped \subseteq Replies
  /\ call \in [Callers -> Call]
  /\ slot \in [error: Error, attempts: 0..MaxAttempts]
  /\ connected \in BOOLEAN
  /\ batch \subseteq Replies
  /\ snap \in [Replies -> 0..AttemptCap]
  /\ job \in Replies \cup {None}
  /\ copies \in [Replies -> Nat]
  /\ unsure \subseteq Replies
  /\ notices \in [Replies -> SUBSET Notices]
  /\ faults \in 0..MaxFaults
  /\ drops \in 0..MaxDrops

Init ==
  /\ row = [m \in Replies |-> NoRow]
  /\ mapped = {}
  /\ call = [c \in Callers |-> IF c = Worker THEN AtRest("idle")
                                             ELSE AtRest("new")]
  /\ slot = GaveNothing
  /\ connected \in BOOLEAN
  /\ batch = {}
  /\ snap = [m \in Replies |-> 0]
  /\ job = None
  /\ copies = [m \in Replies |-> 0]
  /\ unsure = {}
  /\ notices = [m \in Replies |-> {}]
  /\ faults = 0
  /\ drops = 0

-----------------------------------------------------------------------------
(* MaxAdapter.send_message, run by any caller.                             *)

(* The call clears the shared slot first, whoever else is about to read it. *)
BeginSend(c) ==
  /\ call' = [call EXCEPT ![c] = [AtRest(IF connected THEN "trying"
                                                      ELSE "waiting")
                                  EXCEPT !.attempt = 1]]
  /\ slot' = GaveNothing

(* A caller that gets None reads the slot at once: no other task runs      *)
(* between the return and get_last_outbound_error.                         *)
ReturnNone(c, own, failure) ==
  call' = [call EXCEPT ![c] = [AtRest("failed") EXCEPT
             !.own = own,
             !.error = IF failure.error = "definite" THEN "definite"
                                                     ELSE "ambiguous",
             !.tries = failure.attempts]]

ConnectionCame(c) ==
  /\ call[c].pc = "waiting"
  /\ connected
  /\ call' = [call EXCEPT ![c].pc = "trying"]
  /\ UNCHANGED <<db, slot, connected, worker, world, notices, budget>>

NeverConnected(c) ==
  /\ call[c].pc = "waiting"
  /\ ~connected
  /\ slot' = [error |-> "definite", attempts |-> 1]
  /\ ReturnNone(c, "definite", slot')
  /\ UNCHANGED <<db, connected, worker, world, notices, budget>>

(* MAX took the text and its id came back, in the result or as the echo.   *)
AttemptAcked(c) ==
  /\ call[c].pc = "trying"
  /\ connected
  /\ copies' = [copies EXCEPT ![TextOf(c)] = @ + 1]
  /\ slot' = [error |-> "none", attempts |-> call[c].attempt]
  /\ call' = [call EXCEPT ![c] = AtRest("sent")]
  /\ UNCHANGED <<db, connected, worker, unsure, notices, budget>>

(* MAX may have taken the text of a failed attempt if the reply was lost.  *)
Reaches(c, reached) ==
  /\ reached => connected /\ LoseReplies
  /\ copies' = [copies EXCEPT ![TextOf(c)] = IF reached THEN @ + 1 ELSE @]

AttemptFailed(c) ==
  /\ call[c].pc = "trying"
  /\ \E f \in Failures, reached \in BOOLEAN :
       /\ ~connected => f.class = "definite"
       /\ Reaches(c, reached)
       /\ unsure' = IF f = AckTimeout THEN unsure \cup {TextOf(c)} ELSE unsure
       /\ \/ /\ f.again /\ call[c].attempt < MaxAttempts
             /\ call' = [call EXCEPT ![c].pc = "pausing"]
             /\ UNCHANGED <<slot, connected>>
          \/ /\ ~(f.again /\ call[c].attempt < MaxAttempts)
             /\ slot' = [error |-> f.class, attempts |-> call[c].attempt]
             /\ IF f.close
                THEN /\ call' = [call EXCEPT ![c].pc = "closing",
                                              ![c].own = f.class]
                     /\ connected' = FALSE
                ELSE /\ ReturnNone(c, f.class, slot')
                     /\ UNCHANGED connected
  /\ UNCHANGED <<db, worker, notices, budget>>

NextAttempt(c) ==
  /\ call[c].pc = "pausing"
  /\ call' = [call EXCEPT ![c].pc = "trying", ![c].attempt = @ + 1]
  /\ UNCHANGED <<db, slot, connected, worker, world, notices, budget>>

(* client.close() has returned; other tasks may have written the slot.     *)
Closed(c) ==
  /\ call[c].pc = "closing"
  /\ ReturnNone(c, call[c].own, slot)
  /\ UNCHANGED <<db, slot, connected, worker, world, notices, budget>>

(* with_timeout_or_none cancels send_message, whose attempt may have       *)
(* reached MAX; nothing is written to the slot before it is read.          *)
CallTimedOut(c) ==
  /\ call[c].pc \in {"trying", "pausing", "closing"}
  /\ \E reached \in BOOLEAN :
       /\ reached => call[c].pc = "trying"
       /\ Reaches(c, reached)
  /\ unsure' = IF call[c].pc = "trying" THEN unsure \cup {TextOf(c)} ELSE unsure
  /\ ReturnNone(c, IF call[c].own = "none" THEN "ambiguous" ELSE call[c].own, slot)
  /\ UNCHANGED <<db, slot, connected, worker, notices, budget>>

SendStep(c) ==
  \/ ConnectionCame(c) \/ NeverConnected(c)
  \/ AttemptAcked(c) \/ AttemptFailed(c)
  \/ NextAttempt(c) \/ Closed(c) \/ CallTimedOut(c)

-----------------------------------------------------------------------------
(* handle_tg_reply                                                         *)

(* No binding, a readonly or disabled chat, or a file over the limit: the  *)
(* user is told, except in a disabled chat.                                *)
RefuseReply(m) ==
  /\ call[m].pc = "new"
  /\ \E note \in {"refused", "disabled"} : Notify(m, note)
  /\ call' = [call EXCEPT ![m] = AtRest("done")]
  /\ UNCHANGED <<db, slot, connected, worker, world, budget>>

(* Variant: the text is queued before it is sent.                          *)
StartReplyQueued(m) ==
  /\ call[m].pc = "new"
  /\ BeginSend(m)
  /\ row' = [row EXCEPT ![m] = Enqueued(@, 0)]
  /\ UNCHANGED <<mapped, connected, worker, world, notices, budget>>

StartReply(m) ==
  /\ call[m].pc = "new"
  /\ BeginSend(m)
  /\ UNCHANGED <<db, connected, worker, world, notices, budget>>

(* One transaction: message_map and delivery_log.                          *)
ReplySent(m) ==
  /\ call[m].pc = "sent"
  /\ mapped' = mapped \cup {m}
  /\ call' = [call EXCEPT ![m] = AtRest("done")]
  /\ UNCHANGED <<row, slot, connected, worker, world, notices, budget>>

(* Only a text whose error says MAX did not take it is queued, in one      *)
(* transaction with its delivery_log entry.                                *)
QueueReply(m) ==
  /\ call[m].pc = "failed"
  /\ m \notin MediaReplies
  /\ call[m].error = "definite"
  /\ row' = [row EXCEPT ![m] = Enqueued(@, GreaterOf(call[m].tries, 1))]
  /\ call' = [call EXCEPT ![m] = Noticing("queued")]
  /\ UNCHANGED <<mapped, slot, connected, worker, world, notices, budget>>

AbandonReply(m) ==
  /\ call[m].pc = "failed"
  /\ m \in MediaReplies \/ call[m].error # "definite"
  /\ call' = [call EXCEPT ![m] = Noticing("gaveup")]
  /\ UNCHANGED <<db, slot, connected, worker, world, notices, budget>>

TellSender(m) ==
  /\ call[m].pc = "noticing"
  /\ Notify(m, call[m].note)
  /\ call' = [call EXCEPT ![m] = AtRest("done")]
  /\ UNCHANGED <<db, slot, connected, worker, world, budget>>

(* Repository.transaction raises when another task's transaction is open;  *)
(* the dispatcher logs the exception and the reply is over.                *)
RecordingRaised(m) ==
  /\ faults < MaxFaults
  /\ call[m].pc \in {"sent", "failed"}
  /\ faults' = faults + 1
  /\ call' = [call EXCEPT ![m] = AtRest("done")]
  /\ UNCHANGED <<db, slot, connected, worker, world, notices, drops>>

ReplyStep(m) ==
  \/ RefuseReply(m) \/ StartReply(m) \/ ReplySent(m)
  \/ QueueReply(m) \/ AbandonReply(m) \/ TellSender(m)

-----------------------------------------------------------------------------
(* run_pending_outbound_messages and process_pending_outbound_message      *)

DueRows == {m \in Replies : IsDue(row[m])}

Poll ==
  /\ call[Worker].pc = "idle"
  /\ batch = {}
  /\ connected
  /\ \E polled \in SUBSET DueRows :
       /\ polled # {}
       /\ \/ polled = DueRows /\ Cardinality(DueRows) <= PollLimit
          \/ Cardinality(polled) = PollLimit
       /\ batch' = polled
       /\ snap' = [m \in Replies |-> IF m \in polled THEN row[m].attempts
                                                     ELSE 0]
  /\ UNCHANGED <<db, call, slot, connected, job, world, notices, budget>>

(* The lease is a compare-and-set: a row leased or closed since the poll   *)
(* is skipped.                                                             *)
LeaseJob(m) ==
  /\ call[Worker].pc = "idle"
  /\ m \in batch
  /\ batch' = batch \ {m}
  /\ IF CanLease(row[m])
     THEN /\ row' = [row EXCEPT ![m] = Leased(@)]
          /\ call' = [call EXCEPT ![Worker] = AtRest("leased")]
          /\ job' = m
     ELSE UNCHANGED <<row, call, job>>
  /\ UNCHANGED <<mapped, slot, connected, snap, world, notices, budget>>

ExpireJob ==
  /\ call[Worker].pc = "leased"
  /\ IsExpired(row[job])
  /\ row' = [row EXCEPT ![job] = Failed(@)]
  /\ call' = [call EXCEPT ![Worker] = Noticing("expired")]
  /\ UNCHANGED <<mapped, slot, connected, worker, world, notices, budget>>

StartJob ==
  /\ call[Worker].pc = "leased"
  /\ ~IsExpired(row[job])
  /\ BeginSend(Worker)
  /\ UNCHANGED <<db, connected, worker, world, notices, budget>>

(* Variant: the row is not marked delivered.                               *)
JobSentUnmarked ==
  /\ call[Worker].pc = "sent"
  /\ mapped' = mapped \cup {job}
  /\ call' = [call EXCEPT ![Worker] = Noticing("late")]
  /\ UNCHANGED <<row, slot, connected, worker, world, notices, budget>>

(* One transaction: message_map, delivery_log and the queue row.           *)
JobSent ==
  /\ call[Worker].pc = "sent"
  /\ mapped' = mapped \cup {job}
  /\ row' = [row EXCEPT ![job] = Delivered(@)]
  /\ call' = [call EXCEPT ![Worker] = Noticing("late")]
  /\ UNCHANGED <<slot, connected, worker, world, notices, budget>>

(* The backoff comes from the attempts the poll read, not from the row.    *)
RetryJob ==
  /\ call[Worker].pc = "failed"
  /\ call[Worker].error = "definite"
  /\ row' = [row EXCEPT ![job] = Retried(@, NextDelay(snap[job]))]
  /\ call' = [call EXCEPT ![Worker] = AtRest("idle")]
  /\ job' = None
  /\ UNCHANGED <<mapped, slot, connected, batch, snap, world, notices, budget>>

(* Variant: the user is not told that a queued text was given up.          *)
GiveUpJobSilently ==
  /\ call[Worker].pc = "failed"
  /\ call[Worker].error # "definite"
  /\ row' = [row EXCEPT ![job] = Failed(@)]
  /\ call' = [call EXCEPT ![Worker] = AtRest("idle")]
  /\ job' = None
  /\ UNCHANGED <<mapped, slot, connected, batch, snap, world, notices, budget>>

GiveUpJob ==
  /\ call[Worker].pc = "failed"
  /\ call[Worker].error # "definite"
  /\ row' = [row EXCEPT ![job] = Failed(@)]
  /\ call' = [call EXCEPT ![Worker] = Noticing("gaveup")]
  /\ UNCHANGED <<mapped, slot, connected, worker, world, notices, budget>>

TellAboutJob ==
  /\ call[Worker].pc = "noticing"
  /\ Notify(job, call[Worker].note)
  /\ call' = [call EXCEPT ![Worker] = AtRest("idle")]
  /\ job' = None
  /\ UNCHANGED <<db, slot, connected, batch, snap, world, budget>>

JobStep ==
  \/ ExpireJob \/ StartJob \/ JobSent \/ RetryJob \/ GiveUpJob \/ TellAboutJob

-----------------------------------------------------------------------------
(* Time, the connection and the process.                                   *)

Tick ==
  /\ row' = [m \in Replies |-> Aged(row[m])]
  /\ UNCHANGED <<mapped, call, slot, connected, worker, world, notices, budget>>

Connect ==
  /\ ~connected
  /\ connected' = TRUE
  /\ UNCHANGED <<db, call, slot, worker, world, notices, budget>>

Drop ==
  /\ connected
  /\ drops < MaxDrops
  /\ drops' = drops + 1
  /\ connected' = FALSE
  /\ UNCHANGED <<db, call, slot, worker, world, notices, faults>>

(* The worker runs outside any try, so an exception there ends the bridge  *)
(* as a crash does.  Telegram sends again any set of the updates it has    *)
(* not seen confirmed; the handlers of the others are gone.                *)
Crash ==
  /\ faults < MaxFaults
  /\ faults' = faults + 1
  /\ \E again \in SUBSET Replies :
       call' = [c \in Callers |->
                  IF c = Worker THEN AtRest("idle")
                  ELSE IF call[c].pc = "new" \/ c \in again THEN AtRest("new")
                  ELSE AtRest("done")]
  /\ slot' = GaveNothing
  /\ connected' = FALSE
  /\ batch' = {}
  /\ snap' = [m \in Replies |-> 0]
  /\ job' = None
  /\ UNCHANGED <<db, world, notices, drops>>

Next ==
  \/ \E c \in Callers : SendStep(c)
  \/ \E m \in Replies : ReplyStep(m) \/ RecordingRaised(m)
  \/ Poll \/ (\E m \in Replies : LeaseJob(m)) \/ JobStep
  \/ Tick \/ Connect \/ Drop \/ Crash

Spec == Init /\ [][Next]_vars

(* A send ends: every await of it has a timeout.  The worker polls, and    *)
(* works off what it polled, for as long as the bridge lives.  Time passes.*)
WorkerFairness ==
  /\ \A c \in Callers : WF_vars(SendStep(c))
  /\ \A m \in Replies : WF_vars(ReplySent(m) \/ QueueReply(m)
                                \/ AbandonReply(m) \/ TellSender(m))
  /\ WF_vars(Poll)
  /\ \A m \in Replies : WF_vars(LeaseJob(m))
  /\ WF_vars(JobStep)
  /\ WF_vars(Tick)

(* The reconnect loop brings MAX back in the end.                          *)
FairSpec == Spec /\ WorkerFairness /\ WF_vars(Connect)

(* MAX may stay away for good, for instance while it waits for a login.    *)
OfflineSpec == Spec /\ WorkerFairness

-----------------------------------------------------------------------------
(* Properties                                                              *)

Sending(c) ==
  call[c].pc \in {"waiting", "trying", "pausing", "closing", "sent", "failed"}

(* A text leaves the database when its row is closed, and a row that is    *)
(* open still has it: process_pending_outbound_message never meets a row   *)
(* without text.                                                           *)
TextOnlyWhileOpen == \A m \in Replies : row[m].text <=> IsOpen(row[m])

(* What the database calls delivered was delivered: message_map and the    *)
(* queue row change together, after MAX took the text.                     *)
RecordsAreTrue ==
  \A m \in Replies :
    /\ row[m].status = "delivered" => m \in mapped
    /\ m \in mapped => copies[m] > 0

(* Each task stands where its pc says: the worker holds a row exactly      *)
(* while it works, only an open one until the outcome is stored, and what  *)
(* a send returned as sent is with MAX; a send that sleeps has an attempt  *)
(* left, and a caller about to tell the user has something to say.         *)
CallsFit ==
  /\ call[Worker].pc \notin {"new", "done"}
  /\ job = None <=> call[Worker].pc = "idle"
  /\ job # None /\ call[Worker].pc # "noticing" => IsOpen(row[job])
  /\ \A m \in Replies : call[m].pc \notin {"idle", "leased"}
  /\ \A c \in Callers :
       /\ call[c].pc = "sent" => copies[TextOf(c)] > 0
       /\ call[c].pc = "pausing" => call[c].attempt < MaxAttempts
       /\ call[c].pc = "noticing" => call[c].note # "none"

(* Nobody sends a text the worker holds, and the worker holds it under a   *)
(* lease: handler and worker hand over through the row, unless Telegram    *)
(* sent the update again after a crash.                                    *)
OneSenderPerText ==
  faults = 0 /\ job # None =>
    /\ ~Sending(job)
    /\ Sending(Worker) => row[job].status = "leased"

(* If MAX answers every send, a text reaches it once; a crash or a failed  *)
(* transaction costs at most two further copies of it, one by the update   *)
(* Telegram sends again and one by the row that is leased again.           *)
BoundedCopies ==
  ~LoseReplies => \A m \in Replies : copies[m] <= 1 + 2 * faults

(* "Queued" is no last word: what was queued ends with a second message.   *)
LastWords == [note: Notice \ {"queued"}, heard: BOOLEAN]

(* While nothing crashes and no transaction is refused, a reply whose      *)
(* handler is done has reached MAX, or is in the queue, or the bridge has  *)
(* a last word on it for its sender, sent or about to be.  The bridge does *)
(* not see whether Telegram took that word: a text is lost in silence when *)
(* Telegram refuses it, and only then (EveryLossIsTold).                   *)
NoSilentLoss ==
  faults = 0 => \A m \in Replies :
    call[m].pc = "done" =>
      \/ m \in mapped
      \/ IsOpen(row[m])
      \/ notices[m] \cap LastWords # {}
      \/ job = m /\ call[Worker].pc = "noticing"

(* A row that was delivered is never opened again: the upsert of a second  *)
(* handler leaves it alone.                                                *)
DeliveredForGood ==
  [][\A m \in Replies :
       row[m].status = "delivered" => row'[m].status = "delivered"]_vars

(* What TextContract sees of a reply.                                      *)
Fate ==
  [m \in Replies |->
     CASE m \in mapped -> "delivered"
       [] m \notin mapped /\ IsOpen(row[m]) -> "queued"
       [] m \notin mapped /\ ~IsOpen(row[m]) /\
            (row[m].status = "failed" \/ call[m].pc \in {"noticing", "done"})
            -> "dropped"
       [] OTHER -> "offered"]

Contract == INSTANCE TextContract WITH Texts <- Replies, fate <- Fate

(* Without a crash the handlers and the worker together keep the contract: *)
(* neither of them takes back what the other has settled.                  *)
OutboundContract ==
  /\ Contract!Init
  /\ [][faults' = 0 => Contract!Next \/ UNCHANGED Fate]_vars

(* Every queued text is sent or given up in the end.                       *)
QueueDrains == \A m \in Replies : IsOpen(row[m]) ~> ~IsOpen(row[m])

(* Stated by the runbook and a test: a text goes to the queue only when it *)
(* certainly did not reach MAX, never after an acknowledgement timed out.  *)
QueuedWasNotSent ==
  \A m \in Replies : row[m].status = "pending" => m \notin unsure

(* What a sender would wish, and the code does not give: a text that was   *)
(* given up outside a disabled chat is known to its sender as lost, also   *)
(* when Telegram refused the notice.                                       *)
EveryLossIsTold ==
  faults = 0 => \A m \in Replies :
    call[m].pc = "done" =>
      \/ m \in mapped
      \/ IsOpen(row[m])
      \/ \E n \in notices[m] \cap LastWords : n.heard \/ n.note = "disabled"
      \/ job = m /\ call[Worker].pc = "noticing"

(* Stated by the architecture document: plaintext stays in the queue until *)
(* delivery or the TTL.                                                    *)
TtlClearsText ==
  \A m \in Replies : IsOpen(row[m]) /\ IsExpired(row[m]) ~> ~row[m].text
===============================================================================
