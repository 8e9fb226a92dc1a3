------------------------ MODULE OutboundDelivery_proofs ------------------------
(* TG -> MAX, for every number of replies, attempts, faults and every      *)
(* timing: what the database says stays true.                              *)
EXTENDS OutboundDelivery, TLAPS

-----------------------------------------------------------------------------
(* What the statements of the queue do to one row.                         *)

(* Counting an attempt stays within the cap.                               *)
LEMMA CapAttemptsType ==
  ASSUME NEW n \in Nat PROVE CapAttempts(n) \in 0..AttemptCap
  BY QueueAssumption DEF CapAttempts

(* The backoff of any snapshot of a row is a backoff.                      *)
LEMMA NextDelayType ==
  ASSUME NEW n \in Nat PROVE NextDelay(n) \in 0..MaxDelay
<1>1. CapAttempts(n + 1) \in 1..AttemptCap
  BY QueueAssumption DEF CapAttempts
<1>2. QED BY <1>1, QueueAssumption DEF NextDelay

(* Every statement turns a row into a row.                                 *)
LEMMA ZeroType == 0 \in 0..(Lease + 1) /\ 0 \in 0..MaxDelay /\ 0 \in 0..AttemptCap
  BY QueueAssumption

(* Each statement maps rows to rows: no row yet,                           *)
LEMMA NoRowType == NoRow \in Row
<1>1. "absent" \in Status /\ 0 \in 0..Ttl
  BY QueueAssumption DEF Status
<1>2. QED BY <1>1, ZeroType DEF NoRow, Row

(* the upsert,                                                             *)
LEMMA EnqueuedType ==
  ASSUME NEW r \in Row, NEW n \in Nat PROVE Enqueued(r, n) \in Row
<1>1. CapAttempts(n) \in 0..AttemptCap
  BY CapAttemptsType
<1>2. GreaterOf(r.attempts, CapAttempts(n)) \in 0..AttemptCap
  BY <1>1 DEF GreaterOf, Row
<1>3. "pending" \in Status /\ r.age \in 0..Ttl /\ TRUE \in BOOLEAN
  BY DEF Status, OpenStatus, Row
<1>4. QED BY <1>2, <1>3, ZeroType DEF Enqueued, Row

(* the lease,                                                              *)
LEMMA LeasedType ==
  ASSUME NEW r \in Row PROVE Leased(r) \in Row
<1>1. Lease + 1 \in 0..(Lease + 1)
  BY QueueAssumption
<1>2. "leased" \in Status
  BY DEF Status, OpenStatus
<1>3. QED BY <1>1, <1>2 DEF Leased, Row

(* the two ends,                                                           *)
LEMMA ClosedType ==
  ASSUME NEW r \in Row PROVE Delivered(r) \in Row /\ Failed(r) \in Row
<1>1. CapAttempts(r.attempts + 1) \in 0..AttemptCap
  BY QueueAssumption DEF Row, CapAttempts
<1>2. {"delivered", "failed"} \subseteq Status
  BY DEF Status
<1>3. Delivered(r) \in Row
  BY <1>1, <1>2, ZeroType DEF Delivered, Row
<1>4. Failed(r) \in Row
  BY <1>1, <1>2, ZeroType DEF Failed, Row
<1>5. QED BY <1>3, <1>4

(* a retry,                                                                *)
LEMMA RetriedType ==
  ASSUME NEW r \in Row, NEW d \in 0..MaxDelay PROVE Retried(r, d) \in Row
<1>1. CapAttempts(r.attempts + 1) \in 0..AttemptCap
  BY QueueAssumption DEF Row, CapAttempts
<1>2. "retry" \in Status
  BY DEF Status, OpenStatus
<1>3. QED BY <1>1, <1>2, ZeroType DEF Retried, Row

(* and a second that passes.                                               *)
LEMMA AgedType ==
  ASSUME NEW r \in Row PROVE Aged(r) \in Row
<1>1. OneLess(r.wait) \in 0..MaxDelay /\ OneLess(r.lease) \in 0..(Lease + 1)
  BY QueueAssumption DEF OneLess, Row
<1>2. (IF r.age < Ttl THEN r.age + 1 ELSE r.age) \in 0..Ttl
  BY QueueAssumption DEF Row
<1>3. QED BY <1>1, <1>2 DEF Aged, Row

-----------------------------------------------------------------------------

(* The inductive invariant: the invariants the runs check, together.       *)
IInv == TypeOK /\ TextOnlyWhileOpen /\ RecordsAreTrue /\ CallsFit

-----------------------------------------------------------------------------
(* Calls                                                                   *)

(* The values a call takes between the steps of a send.                    *)
LEMMA AtRestType == \A pc \in PC : AtRest(pc) \in Call
<1>1. 0 \in 0..MaxAttempts /\ "none" \in Error /\ "none" \in Notice \cup {"none"}
  BY OutboundAssumption DEF Error
<1>2. QED BY <1>1 DEF AtRest, Call

LEMMA NoticingType == \A note \in Notice : Noticing(note) \in Call
<1>1. AtRest("noticing") \in Call
  BY AtRestType DEF PC
<1>2. QED BY <1>1 DEF Noticing, Call

LEMMA NoFailureType == GaveNothing \in [error: Error, attempts: 0..MaxAttempts]
  BY OutboundAssumption DEF GaveNothing, Error

(* A send begins: the shared failure slot is cleared.                      *)
LEMMA BeginSendType ==
  ASSUME TypeOK, NEW c \in Callers, BeginSend(c)
  PROVE  /\ call' \in [Callers -> Call]
         /\ slot' \in [error: Error, attempts: 0..MaxAttempts]
         /\ call'[c].pc \in {"trying", "waiting"}
         /\ \A d \in Callers \ {c} : call'[d] = call[d]
<1>1. AtRest("trying") \in Call /\ AtRest("waiting") \in Call
  BY AtRestType DEF PC
<1>2. 1 \in 0..MaxAttempts
  BY OutboundAssumption
<1>3. [AtRest(IF connected THEN "trying" ELSE "waiting") EXCEPT !.attempt = 1]
         \in Call
  BY <1>1, <1>2 DEF Call
<1>4. AtRest(IF connected THEN "trying" ELSE "waiting").pc
         \in {"trying", "waiting"}
  BY DEF AtRest
<1>5. QED BY <1>3, <1>4, <1>1, NoFailureType DEF BeginSend, TypeOK, Call

(* A send returns None: its caller reads the slot, whoever wrote it.       *)
LEMMA ReturnNoneType ==
  ASSUME TypeOK, NEW c \in Callers, NEW own \in Error,
         NEW failure \in [error: Error, attempts: 0..MaxAttempts],
         ReturnNone(c, own, failure)
  PROVE  /\ call' \in [Callers -> Call]
         /\ call'[c].pc = "failed"
         /\ \A d \in Callers \ {c} : call'[d] = call[d]
<1>1. AtRest("failed") \in Call
  BY AtRestType DEF PC
<1>2. {"definite", "ambiguous"} \subseteq Error
  BY DEF Error
<1>3. AtRest("failed").pc = "failed"
  BY DEF AtRest
<1>4. QED BY <1>1, <1>2, <1>3 DEF ReturnNone, TypeOK, Call

-----------------------------------------------------------------------------
(* Sending                                                                 *)

(* A step inside send_message moves one caller within the call, leaves the *)
(* database and the worker's job alone, and never takes a text back.       *)
LEMMA WithinSend ==
  ASSUME IInv, NEW c \in Callers,
         call[c].pc \in {"waiting", "trying", "pausing", "closing"},
         UNCHANGED <<db, worker, notices, budget>>,
         copies' \in [Replies -> Nat],
         \A m \in Replies : copies'[m] >= copies[m],
         unsure' \subseteq Replies, connected' \in BOOLEAN,
         slot' \in [error: Error, attempts: 0..MaxAttempts],
         call' \in [Callers -> Call],
         \A d \in Callers \ {c} : call'[d] = call[d],
         call'[c].pc \in {"trying", "pausing", "closing", "sent", "failed"},
         call'[c].pc = "sent" => copies'[TextOf(c)] > 0,
         call'[c].pc = "pausing" => call'[c].attempt < MaxAttempts
  PROVE  IInv'
<1> USE DEF IInv
<1>1. TypeOK'
  BY DEF TypeOK, db, worker, budget
<1>2. TextOnlyWhileOpen'
  BY DEF TextOnlyWhileOpen, db
<1>3. RecordsAreTrue'
  <2>1. \A m \in Replies : copies[m] > 0 => copies'[m] > 0
    BY DEF TypeOK
  <2>2. QED BY <2>1 DEF RecordsAreTrue, db
<1>4. CallsFit'
  <2>1. \A m \in Replies : copies[m] > 0 => copies'[m] > 0
    BY DEF TypeOK
  <2>2. call'[Worker].pc \notin {"new", "done"}
    BY DEF CallsFit, Callers
  <2>3. job' = None <=> call'[Worker].pc = "idle"
    BY DEF CallsFit, Callers, worker
  <2>4. job' # None /\ call'[Worker].pc # "noticing" => IsOpen(row'[job'])
    BY DEF CallsFit, Callers, worker, db
  <2>5. \A m \in Replies : call'[m].pc \notin {"idle", "leased"}
    BY DEF CallsFit, Callers
  <2>6. \A d \in Callers : call'[d].pc = "sent" => copies'[TextOf(d)'] > 0
    <3> SUFFICES ASSUME NEW d \in Callers, call'[d].pc = "sent"
                 PROVE  copies'[TextOf(d)'] > 0
      OBVIOUS
    <3>1. TextOf(d)' = TextOf(d)
      BY DEF TextOf, worker
    <3>2. CASE d = c
      BY <3>1, <3>2
    <3>3. CASE d # c
      <4>1. call[d].pc = "sent" /\ copies[TextOf(d)] > 0
        BY <3>3 DEF CallsFit
      <4>2. TextOf(d) \in Replies
        BY <4>1 DEF TextOf, Callers, CallsFit, TypeOK
      <4>3. QED BY <3>1, <4>1, <4>2, <2>1
    <3>4. QED BY <3>2, <3>3
  <2>7. \A d \in Callers :
          /\ call'[d].pc = "pausing" => call'[d].attempt < MaxAttempts
          /\ call'[d].pc = "noticing" => call'[d].note # "none"
    BY DEF CallsFit
  <2>8. QED BY <2>2, <2>3, <2>4, <2>5, <2>6, <2>7 DEF CallsFit
<1>5. QED BY <1>1, <1>2, <1>3, <1>4

(* The text of a call under way is a reply's.                              *)
LEMMA SentText ==
  ASSUME IInv, NEW c \in Callers, call[c].pc # "idle"
  PROVE  TextOf(c) \in Replies
  BY DEF IInv, TypeOK, CallsFit, TextOf, Callers

(* MAX takes the text or not, and the copies count it.                     *)
LEMMA ReachesType ==
  ASSUME IInv, NEW c \in Callers, call[c].pc # "idle",
         NEW reached \in BOOLEAN, Reaches(c, reached)
  PROVE  /\ copies' \in [Replies -> Nat]
         /\ \A m \in Replies : copies'[m] >= copies[m]
<1>1. TextOf(c) \in Replies
  BY SentText
<1>2. QED BY <1>1 DEF Reaches, IInv, TypeOK

(* The steps of send_message, in a handler or the worker.                  *)
LEMMA SendStepKeeps ==
  ASSUME IInv, NEW c \in Callers, SendStep(c) PROVE IInv'
<1> USE DEF IInv
<1>1. CASE ConnectionCame(c)
  <2>1. [call EXCEPT ![c].pc = "trying"] \in [Callers -> Call]
    BY DEF TypeOK, Call, PC
  <2>2. QED BY <1>1, <2>1, WithinSend DEF ConnectionCame, TypeOK, world
<1>2. CASE NeverConnected(c)
  <2>1. slot' \in [error: Error, attempts: 0..MaxAttempts] /\ "definite" \in Error
    BY <1>2, OutboundAssumption DEF NeverConnected, Error
  <2>2. /\ call' \in [Callers -> Call] /\ call'[c].pc = "failed"
        /\ \A d \in Callers \ {c} : call'[d] = call[d]
    BY <1>2, <2>1, ReturnNoneType DEF NeverConnected
  <2>3. QED BY <1>2, <2>1, <2>2, WithinSend DEF NeverConnected, TypeOK, world
<1>3. CASE AttemptAcked(c)
  <2>1. TextOf(c) \in Replies
    BY <1>3, SentText DEF AttemptAcked
  <2>2. /\ copies' \in [Replies -> Nat] /\ copies'[TextOf(c)] > 0
        /\ \A m \in Replies : copies'[m] >= copies[m]
    BY <1>3, <2>1 DEF AttemptAcked, TypeOK
  <2>3. AtRest("sent") \in Call /\ AtRest("sent").pc = "sent"
    BY AtRestType DEF PC, AtRest
  <2>4. slot' \in [error: Error, attempts: 0..MaxAttempts]
    BY <1>3 DEF AttemptAcked, TypeOK, Call, Error
  <2>5. QED BY <1>3, <2>2, <2>3, <2>4, WithinSend DEF AttemptAcked, TypeOK
<1>4. CASE AttemptFailed(c)
  <2> PICK f \in Failures, reached \in BOOLEAN :
        /\ Reaches(c, reached)
        /\ unsure' = IF f = AckTimeout THEN unsure \cup {TextOf(c)} ELSE unsure
        /\ \/ /\ call[c].attempt < MaxAttempts
              /\ call' = [call EXCEPT ![c].pc = "pausing"]
              /\ UNCHANGED <<slot, connected>>
           \/ /\ slot' = [error |-> f.class, attempts |-> call[c].attempt]
              /\ IF f.close
                 THEN /\ call' = [call EXCEPT ![c].pc = "closing",
                                               ![c].own = f.class]
                      /\ connected' = FALSE
                 ELSE /\ ReturnNone(c, f.class, slot')
                      /\ UNCHANGED connected
    BY <1>4 DEF AttemptFailed
  <2>1. /\ copies' \in [Replies -> Nat]
        /\ \A m \in Replies : copies'[m] >= copies[m]
    BY <1>4, ReachesType DEF AttemptFailed
  <2>2. unsure' \subseteq Replies
    BY <1>4, SentText DEF AttemptFailed, TypeOK
  <2>3. f.class \in Error
    BY DEF Failures, AckTimeout, Error
  <2>4. UNCHANGED <<db, worker, notices, budget>> /\ call[c].pc = "trying"
    BY <1>4 DEF AttemptFailed
  <2>5. CASE /\ call[c].attempt < MaxAttempts
             /\ call' = [call EXCEPT ![c].pc = "pausing"]
             /\ UNCHANGED <<slot, connected>>
    <3>1. /\ call' \in [Callers -> Call] /\ call'[c].pc = "pausing"
          /\ call'[c].attempt < MaxAttempts
          /\ \A d \in Callers \ {c} : call'[d] = call[d]
      BY <2>5 DEF TypeOK, Call, PC
    <3>2. QED BY <2>1, <2>2, <2>4, <2>5, <3>1, WithinSend DEF TypeOK
  <2>6. CASE /\ slot' = [error |-> f.class, attempts |-> call[c].attempt]
             /\ IF f.close
                THEN /\ call' = [call EXCEPT ![c].pc = "closing",
                                              ![c].own = f.class]
                     /\ connected' = FALSE
                ELSE /\ ReturnNone(c, f.class, slot')
                     /\ UNCHANGED connected
    <3>1. slot' \in [error: Error, attempts: 0..MaxAttempts]
      BY <2>3, <2>6 DEF TypeOK, Call
    <3>2. CASE f.close
      <4>1. /\ call' = [call EXCEPT ![c].pc = "closing", ![c].own = f.class]
            /\ connected' = FALSE
        BY <2>6, <3>2
      <4>2. /\ call' \in [Callers -> Call] /\ call'[c].pc = "closing"
            /\ \A d \in Callers \ {c} : call'[d] = call[d]
        BY <2>3, <4>1 DEF TypeOK, Call, PC
      <4>3. QED BY <2>1, <2>2, <2>4, <3>1, <4>1, <4>2, WithinSend
    <3>3. CASE ~f.close
      <4>1. ReturnNone(c, f.class, slot') /\ UNCHANGED connected
        BY <2>6, <3>3
      <4>2. /\ call' \in [Callers -> Call] /\ call'[c].pc = "failed"
            /\ \A d \in Callers \ {c} : call'[d] = call[d]
        BY <2>3, <3>1, <4>1, ReturnNoneType
      <4>3. QED BY <2>1, <2>2, <2>4, <3>1, <4>1, <4>2, WithinSend DEF TypeOK
    <3>4. QED BY <3>2, <3>3
  <2>7. QED BY <2>5, <2>6
<1>5. CASE NextAttempt(c)
  <2>1. call[c].attempt + 1 \in 0..MaxAttempts
    BY <1>5, OutboundAssumption DEF NextAttempt, CallsFit, TypeOK, Call
  <2>2. /\ call' \in [Callers -> Call] /\ call'[c].pc = "trying"
        /\ \A d \in Callers \ {c} : call'[d] = call[d]
    BY <1>5, <2>1 DEF NextAttempt, TypeOK, Call, PC
  <2>3. QED BY <1>5, <2>2, WithinSend DEF NextAttempt, TypeOK, world
<1>6. CASE Closed(c)
  <2>1. /\ call' \in [Callers -> Call] /\ call'[c].pc = "failed"
        /\ \A d \in Callers \ {c} : call'[d] = call[d]
    BY <1>6, ReturnNoneType DEF Closed, TypeOK, Call
  <2>2. QED BY <1>6, <2>1, WithinSend DEF Closed, TypeOK, world
<1>7. CASE CallTimedOut(c)
  <2>1. /\ copies' \in [Replies -> Nat]
        /\ \A m \in Replies : copies'[m] >= copies[m]
    BY <1>7, ReachesType DEF CallTimedOut
  <2>2. unsure' \subseteq Replies
    BY <1>7, SentText DEF CallTimedOut, TypeOK
  <2>3. (IF call[c].own = "none" THEN "ambiguous" ELSE call[c].own) \in Error
    BY DEF TypeOK, Call, Error
  <2>4. /\ call' \in [Callers -> Call] /\ call'[c].pc = "failed"
        /\ \A d \in Callers \ {c} : call'[d] = call[d]
    BY <1>7, <2>3, ReturnNoneType DEF CallTimedOut, TypeOK
  <2>5. QED BY <1>7, <2>1, <2>2, <2>4, WithinSend DEF CallTimedOut, TypeOK
<1>8. QED
  BY <1>1, <1>2, <1>3, <1>4, <1>5, <1>6, <1>7 DEF SendStep

-----------------------------------------------------------------------------
(* Handlers and the worker                                                 *)

(* A step between sends moves one caller and keeps the job; the job's row  *)
(* stays open unless its outcome has just been stored.                     *)
LEMMA CallsFitStep ==
  ASSUME IInv, NEW c \in Callers,
         copies' = copies, job' = job,
         call' \in [Callers -> Call],
         \A d \in Callers \ {c} : call'[d] = call[d],
         call'[c].pc \notin {"idle", "sent", "pausing"},
         call'[c].pc = "noticing" => call'[c].note # "none",
         c = Worker => call[c].pc # "idle" /\ call'[c].pc \notin {"new", "done"},
         c # Worker => call'[c].pc # "leased",
         job # None /\ call'[Worker].pc # "noticing" => IsOpen(row'[job])
  PROVE  CallsFit'
<1> USE DEF IInv
<1>1. call'[Worker].pc \notin {"new", "done"}
  BY DEF CallsFit, Callers
<1>2. job' = None <=> call'[Worker].pc = "idle"
  BY DEF CallsFit, Callers
<1>3. \A m \in Replies : call'[m].pc \notin {"idle", "leased"}
  BY OutboundAssumption DEF CallsFit, Callers
<1>4. \A d \in Callers : /\ call'[d].pc = "sent" => copies'[TextOf(d)'] > 0
                         /\ call'[d].pc = "pausing"
                              => call'[d].attempt < MaxAttempts
                         /\ call'[d].pc = "noticing" => call'[d].note # "none"
  BY DEF CallsFit, TextOf
<1>5. QED BY <1>1, <1>2, <1>3, <1>4 DEF CallsFit

(* The job is over: the worker is idle again.                              *)
LEMMA CallsFitOver ==
  ASSUME IInv, copies' = copies, job' = None,
         call' = [call EXCEPT ![Worker] = AtRest("idle")]
  PROVE  CallsFit' /\ call' \in [Callers -> Call]
<1> USE DEF IInv
<1>1. AtRest("idle") \in Call /\ AtRest("idle").pc = "idle"
  BY AtRestType DEF PC, AtRest
<1>2. call' \in [Callers -> Call]
  BY <1>1 DEF TypeOK
<1>3. call'[Worker].pc = "idle" /\ \A m \in Replies : call'[m] = call[m]
  BY <1>1, OutboundAssumption DEF TypeOK, Callers
<1>4. \A d \in Callers : /\ call'[d].pc = "sent" => copies'[TextOf(d)'] > 0
                         /\ call'[d].pc = "pausing"
                              => call'[d].attempt < MaxAttempts
                         /\ call'[d].pc = "noticing" => call'[d].note # "none"
  BY <1>3, OutboundAssumption DEF CallsFit, TextOf, Callers
<1>5. QED BY <1>2, <1>3, <1>4 DEF CallsFit

(* Where a call at rest or with a notice to send stands.                   *)
LEMMA RestingAndNoticing ==
  /\ \A pc \in PC : AtRest(pc).pc = pc
  /\ \A note \in Notice : Noticing(note).pc = "noticing" /\ Noticing(note).note = note
BY DEF AtRest, Noticing

(* A notice is remembered with what became of it, and none is forgotten.   *)
LEMMA NotifyAdds ==
  ASSUME TypeOK, NEW m \in Replies, NEW note \in Notice, Notify(m, note)
  PROVE  /\ notices' \in [Replies -> SUBSET Notices]
         /\ \A n \in Replies : notices[n] \subseteq notices'[n]
         /\ \A n \in Replies \ {m} : notices'[n] = notices[n]
         /\ note # "queued" => notices'[m] \cap LastWords # {}
<1>1. PICK heard \in BOOLEAN :
        notices' = [notices EXCEPT
          ![m] = @ \cup {[note |-> note, heard |-> heard]}]
  BY OutboundAssumption DEF Notify
<1> DEFINE new == [note |-> note, heard |-> heard]
<1>2. new \in Notices /\ (note # "queued" => new \in LastWords)
  BY DEF Notices, LastWords
<1>3. notices' = [notices EXCEPT ![m] = @ \cup {new}]
  BY <1>1
<1> HIDE DEF new
<1>4. QED BY <1>2, <1>3 DEF TypeOK

(* The steps of handle_tg_reply.                                           *)
LEMMA ReplyStepKeeps ==
  ASSUME IInv, NEW m \in Replies, ReplyStep(m) \/ RecordingRaised(m)
  PROVE  IInv'
<1> USE DEF IInv
<1>0. m \in Callers /\ m # Worker
  BY OutboundAssumption DEF Callers
<1>1. CASE RefuseReply(m)
  <2>1. AtRest("done") \in Call /\ AtRest("done").pc = "done"
    BY AtRestType, RestingAndNoticing DEF PC
  <2>2. call' \in [Callers -> Call] /\ call'[m].pc = "done"
        /\ \A d \in Callers \ {m} : call'[d] = call[d]
    BY <1>0, <1>1, <2>1 DEF RefuseReply, TypeOK
  <2>3. notices' \in [Replies -> SUBSET Notices]
    BY <1>1, NotifyAdds DEF RefuseReply, Notice
  <2>4. TypeOK'
    BY <1>1, <2>2, <2>3 DEF RefuseReply, TypeOK, db, worker, world, budget
  <2>5. CallsFit'
    BY <1>0, <1>1, <2>2, CallsFitStep
       DEF RefuseReply, db, worker, world, CallsFit, Callers
  <2>6. QED
    BY <1>1, <2>4, <2>5
       DEF RefuseReply, TextOnlyWhileOpen, RecordsAreTrue, db, world
<1>2. CASE StartReply(m)
  <2>1. /\ call' \in [Callers -> Call] /\ call'[m].pc \in {"trying", "waiting"}
        /\ \A d \in Callers \ {m} : call'[d] = call[d]
        /\ slot' \in [error: Error, attempts: 0..MaxAttempts]
    BY <1>0, <1>2, BeginSendType DEF StartReply
  <2>2. TypeOK'
    BY <1>2, <2>1 DEF StartReply, TypeOK, db, worker, world, budget
  <2>3. CallsFit'
    BY <1>0, <1>2, <2>1, CallsFitStep
       DEF StartReply, db, worker, world, CallsFit, Callers
  <2>4. QED
    BY <1>2, <2>2, <2>3
       DEF StartReply, TextOnlyWhileOpen, RecordsAreTrue, db, world
<1>3. CASE ReplySent(m)
  <2>1. AtRest("done") \in Call /\ AtRest("done").pc = "done"
    BY AtRestType, RestingAndNoticing DEF PC
  <2>2. call' \in [Callers -> Call] /\ call'[m].pc = "done"
        /\ \A d \in Callers \ {m} : call'[d] = call[d]
    BY <1>0, <1>3, <2>1 DEF ReplySent, TypeOK
  <2>3. TypeOK'
    BY <1>3, <2>2 DEF ReplySent, TypeOK, worker, world, budget
  <2>4. CallsFit'
    BY <1>0, <1>3, <2>2, CallsFitStep
       DEF ReplySent, worker, world, CallsFit, Callers
  <2>5. copies[m] > 0
    BY <1>0, <1>3 DEF ReplySent, CallsFit, TextOf
  <2>6. QED
    BY <1>3, <2>3, <2>4, <2>5
       DEF ReplySent, TextOnlyWhileOpen, RecordsAreTrue, world
<1>4. CASE QueueReply(m)
  <2>1. /\ Noticing("queued") \in Call /\ Noticing("queued").pc = "noticing"
        /\ Noticing("queued").note # "none"
    BY NoticingType, RestingAndNoticing DEF Notice
  <2>2. call' \in [Callers -> Call] /\ call'[m].pc = "noticing"
        /\ call'[m].note # "none"
        /\ \A d \in Callers \ {m} : call'[d] = call[d]
    BY <1>0, <1>4, <2>1 DEF QueueReply, TypeOK
  <2>3. /\ GreaterOf(call[m].tries, 1) \in Nat
        /\ row[m] \in Row
    BY <1>0 DEF GreaterOf, TypeOK, Call
  <2> DEFINE new == Enqueued(row[m], GreaterOf(call[m].tries, 1))
  <2>4. new \in Row
    BY <2>3, EnqueuedType
  <2>5. row' = [row EXCEPT ![m] = new]
    BY <1>4 DEF QueueReply
  <2>6. /\ (new.text <=> IsOpen(new))
        /\ new.status = "delivered" => row[m].status = "delivered"
        /\ IsOpen(row[m]) => IsOpen(new)
    <3>1. row[m].text <=> IsOpen(row[m])
      BY DEF TextOnlyWhileOpen
    <3>2. QED BY <2>3, <3>1 DEF Enqueued, IsOpen, OpenStatus
  <2> HIDE DEF new
  <2>7. TypeOK'
    BY <1>4, <2>2, <2>4, <2>5 DEF QueueReply, TypeOK, worker, world, budget
  <2>8. TextOnlyWhileOpen'
    BY <2>5, <2>6 DEF TextOnlyWhileOpen, TypeOK
  <2>9. RecordsAreTrue'
    BY <1>4, <2>5, <2>6 DEF QueueReply, RecordsAreTrue, TypeOK, world
  <2>10. job # None /\ call'[Worker].pc # "noticing" => IsOpen(row'[job])
    BY <1>0, <2>2, <2>5, <2>6 DEF CallsFit, Callers, TypeOK
  <2>11. CallsFit'
    BY <1>0, <1>4, <2>2, <2>10, CallsFitStep DEF QueueReply, worker, world
  <2>12. QED BY <2>7, <2>8, <2>9, <2>11
<1>5. CASE AbandonReply(m)
  <2>1. /\ Noticing("gaveup") \in Call /\ Noticing("gaveup").pc = "noticing"
        /\ Noticing("gaveup").note # "none"
    BY NoticingType, RestingAndNoticing DEF Notice
  <2>2. call' \in [Callers -> Call] /\ call'[m].pc = "noticing"
        /\ call'[m].note # "none"
        /\ \A d \in Callers \ {m} : call'[d] = call[d]
    BY <1>0, <1>5, <2>1 DEF AbandonReply, TypeOK
  <2>3. TypeOK'
    BY <1>5, <2>2 DEF AbandonReply, TypeOK, db, worker, world, budget
  <2>4. CallsFit'
    BY <1>0, <1>5, <2>2, CallsFitStep
       DEF AbandonReply, db, worker, world, CallsFit, Callers
  <2>5. QED
    BY <1>5, <2>3, <2>4
       DEF AbandonReply, TextOnlyWhileOpen, RecordsAreTrue, db, world
<1>6. CASE TellSender(m)
  <2>1. AtRest("done") \in Call /\ AtRest("done").pc = "done"
    BY AtRestType, RestingAndNoticing DEF PC
  <2>2. call' \in [Callers -> Call] /\ call'[m].pc = "done"
        /\ \A d \in Callers \ {m} : call'[d] = call[d]
    BY <1>0, <1>6, <2>1 DEF TellSender, TypeOK
  <2>3. call[m].note \in Notice
    BY <1>0, <1>6 DEF TellSender, CallsFit, TypeOK, Call
  <2>4. TypeOK'
    BY <1>6, <2>2, <2>3, NotifyAdds
       DEF TellSender, TypeOK, db, worker, world, budget
  <2>5. CallsFit'
    BY <1>0, <1>6, <2>2, CallsFitStep
       DEF TellSender, db, worker, world, CallsFit, Callers
  <2>6. QED
    BY <1>6, <2>4, <2>5
       DEF TellSender, TextOnlyWhileOpen, RecordsAreTrue, db, world
<1>7. CASE RecordingRaised(m)
  <2>1. AtRest("done") \in Call /\ AtRest("done").pc = "done"
    BY AtRestType, RestingAndNoticing DEF PC
  <2>2. call' \in [Callers -> Call] /\ call'[m].pc = "done"
        /\ \A d \in Callers \ {m} : call'[d] = call[d]
    BY <1>0, <1>7, <2>1 DEF RecordingRaised, TypeOK
  <2>3. faults + 1 \in 0..MaxFaults
    BY <1>7, OutboundAssumption DEF RecordingRaised, TypeOK
  <2>4. TypeOK'
    BY <1>7, <2>2, <2>3 DEF RecordingRaised, TypeOK, db, worker, world
  <2>5. CallsFit'
    BY <1>0, <1>7, <2>2, CallsFitStep
       DEF RecordingRaised, db, worker, world, CallsFit, Callers
  <2>6. QED
    BY <1>7, <2>4, <2>5
       DEF RecordingRaised, TextOnlyWhileOpen, RecordsAreTrue, db, world
<1>8. QED
  BY <1>1, <1>2, <1>3, <1>4, <1>5, <1>6, <1>7 DEF ReplyStep

-----------------------------------------------------------------------------
(* The worker                                                              *)

(* What a worker step may do to the row it holds.                          *)
LEMMA JobRow ==
  ASSUME IInv, NEW m \in Replies, NEW new \in Row,
         row' = [row EXCEPT ![m] = new],
         new.text <=> IsOpen(new),
         new.status = "delivered" => m \in mapped',
         mapped \subseteq mapped',
         mapped' \subseteq mapped \cup {m},
         m \in mapped' => copies[m] > 0,
         copies' = copies
  PROVE  /\ row' \in [Replies -> Row] /\ mapped' \subseteq Replies
         /\ TextOnlyWhileOpen' /\ RecordsAreTrue'
<1> USE DEF IInv
<1>1. /\ row' \in [Replies -> Row] /\ row'[m] = new
      /\ \A n \in Replies \ {m} : row'[n] = row[n]
  BY DEF TypeOK
<1>2. TextOnlyWhileOpen'
  BY <1>1 DEF TextOnlyWhileOpen
<1>3. RecordsAreTrue'
  BY <1>1 DEF RecordsAreTrue, TypeOK
<1>4. QED BY <1>1, <1>2, <1>3 DEF TypeOK

(* What the statements of the worker make of the text of a row.            *)
LEMMA ClosedRow ==
  ASSUME NEW r \in Row, r.text <=> IsOpen(r), NEW d \in 0..MaxDelay
  PROVE  /\ Failed(r).text <=> IsOpen(Failed(r))
         /\ Failed(r).status = "failed"
         /\ Delivered(r).text <=> IsOpen(Delivered(r))
         /\ IsOpen(r) => /\ Leased(r).text /\ IsOpen(Leased(r))
                         /\ Leased(r).status # "delivered"
                         /\ Retried(r, d).text /\ IsOpen(Retried(r, d))
                         /\ Retried(r, d).status # "delivered"
  BY DEF Failed, Delivered, Leased, Retried, IsOpen, OpenStatus, Row

(* The steps of the outbound retry worker.                                 *)
LEMMA WorkerStepKeeps ==
  ASSUME IInv, Poll \/ (\E m \in Replies : LeaseJob(m)) \/ JobStep PROVE IInv'
<1> USE DEF IInv
<1>0. Worker \in Callers /\ Worker \notin Replies /\ None \notin Replies
  BY OutboundAssumption DEF Callers
<1>1. CASE Poll
  <2>1. batch' \subseteq Replies /\ snap' \in [Replies -> 0..AttemptCap]
    <3>1. 0 \in 0..AttemptCap
      BY QueueAssumption
    <3>2. \A m \in Replies : row[m].attempts \in 0..AttemptCap
      BY DEF TypeOK, Row
    <3>3. QED BY <1>1, <3>1, <3>2 DEF Poll, DueRows
  <2>2. TypeOK'
    BY <1>1, <2>1 DEF Poll, TypeOK, db, world, budget
  <2>3. CallsFit'
    BY <1>1 DEF Poll, CallsFit, TextOf, db, world
  <2>4. QED
    BY <1>1, <2>2, <2>3
       DEF Poll, TextOnlyWhileOpen, RecordsAreTrue, db, world
<1>2. ASSUME NEW m \in Replies, LeaseJob(m) PROVE IInv'
  <2>1. CASE CanLease(row[m])
    <3>1. AtRest("leased") \in Call /\ AtRest("leased").pc = "leased"
      BY AtRestType, RestingAndNoticing DEF PC
    <3>2. /\ call' \in [Callers -> Call] /\ call'[Worker].pc = "leased"
          /\ \A d \in Callers \ {Worker} : call'[d] = call[d]
      BY <1>0, <1>2, <2>1, <3>1 DEF LeaseJob, TypeOK
    <3> DEFINE new == Leased(row[m])
    <3>3. row[m] \in Row /\ (row[m].text <=> IsOpen(row[m])) /\ 0 \in 0..MaxDelay
      BY QueueAssumption DEF TypeOK, TextOnlyWhileOpen
    <3>4. /\ new \in Row /\ new.text /\ IsOpen(new)
          /\ new.status # "delivered"
      BY <2>1, <3>3, LeasedType, ClosedRow DEF CanLease
    <3>5. row' = [row EXCEPT ![m] = new]
      BY <1>2, <2>1 DEF LeaseJob
    <3> HIDE DEF new
    <3>6. mapped' = mapped /\ copies' = copies /\ job' = m
      BY <1>2, <2>1 DEF LeaseJob, world
    <3>7. m \in mapped => copies[m] > 0
      BY DEF RecordsAreTrue
    <3>8. /\ row' \in [Replies -> Row] /\ mapped' \subseteq Replies
          /\ TextOnlyWhileOpen' /\ RecordsAreTrue'
      BY <3>4, <3>5, <3>6, <3>7, JobRow
    <3>9. TypeOK'
      BY <1>2, <3>2, <3>6, <3>8 DEF LeaseJob, TypeOK, world, budget
    <3>10. IsOpen(row'[m])
      BY <3>4, <3>5 DEF TypeOK
    <3>11. \A d \in Callers :
             /\ call'[d].pc = "sent" => copies'[TextOf(d)'] > 0
             /\ call'[d].pc = "pausing" => call'[d].attempt < MaxAttempts
             /\ call'[d].pc = "noticing" => call'[d].note # "none"
      BY <3>2, <3>6 DEF CallsFit, TextOf
    <3>12. CallsFit'
      BY <1>0, <3>2, <3>6, <3>10, <3>11 DEF CallsFit, Callers
    <3>13. QED BY <3>8, <3>9, <3>12
  <2>2. CASE ~CanLease(row[m])
    <3>1. TypeOK'
      BY <1>2, <2>2 DEF LeaseJob, TypeOK, db, world, budget
    <3>2. CallsFit'
      BY <1>2, <2>2 DEF LeaseJob, CallsFit, TextOf, world
    <3>3. QED
      BY <1>2, <2>2, <3>1, <3>2
         DEF LeaseJob, TextOnlyWhileOpen, RecordsAreTrue, world
  <2>3. QED BY <2>1, <2>2
<1>3. ASSUME call[Worker].pc # "idle"
      PROVE  /\ job \in Replies /\ row[job] \in Row
             /\ row[job].text <=> IsOpen(row[job])
             /\ job \in mapped => copies[job] > 0
             /\ call[Worker].pc # "noticing" => IsOpen(row[job])
  BY <1>3 DEF CallsFit, TypeOK, TextOnlyWhileOpen, RecordsAreTrue
<1>4. ASSUME NEW note \in Notice, call[Worker].pc \notin {"idle", "noticing"},
             row' = [row EXCEPT ![job] = Failed(@)],
             call' = [call EXCEPT ![Worker] = Noticing(note)],
             UNCHANGED <<mapped, slot, connected, worker, world, notices, budget>>
      PROVE  IInv'
  <2>1. Noticing(note) \in Call /\ Noticing(note).pc = "noticing"
        /\ Noticing(note).note # "none"
    BY NoticingType, RestingAndNoticing DEF Notice
  <2>2. /\ call' \in [Callers -> Call] /\ call'[Worker] = Noticing(note)
        /\ \A d \in Callers \ {Worker} : call'[d] = call[d]
    BY <1>0, <1>4, <2>1 DEF TypeOK
  <2> DEFINE new == Failed(row[job])
  <2>3. new \in Row /\ (new.text <=> IsOpen(new)) /\ new.status # "delivered"
    BY <1>3, <1>4, ClosedType, ClosedRow, QueueAssumption
  <2>4. row' = [row EXCEPT ![job] = new]
    BY <1>4
  <2> HIDE DEF new
  <2>5. /\ row' \in [Replies -> Row] /\ mapped' \subseteq Replies
        /\ TextOnlyWhileOpen' /\ RecordsAreTrue'
    BY <1>3, <1>4, <2>3, <2>4, JobRow DEF world
  <2>6. TypeOK'
    BY <1>4, <2>2, <2>5 DEF TypeOK, worker, world, budget
  <2>7. CallsFit'
    BY <1>0, <1>4, <2>1, <2>2, CallsFitStep DEF worker, world
  <2>8. QED BY <2>5, <2>6, <2>7
<1>5. CASE ExpireJob
  BY <1>4, <1>5 DEF ExpireJob, Notice
<1>6. CASE GiveUpJob
  BY <1>4, <1>6 DEF GiveUpJob, Notice
<1>7. CASE StartJob
  <2>1. /\ call' \in [Callers -> Call]
        /\ call'[Worker].pc \in {"trying", "waiting"}
        /\ \A d \in Callers \ {Worker} : call'[d] = call[d]
        /\ slot' \in [error: Error, attempts: 0..MaxAttempts]
    BY <1>0, <1>7, BeginSendType DEF StartJob
  <2>2. TypeOK'
    BY <1>7, <2>1 DEF StartJob, TypeOK, db, worker, world, budget
  <2>3. CallsFit'
    BY <1>0, <1>3, <1>7, <2>1, CallsFitStep DEF StartJob, db, worker, world
  <2>4. QED
    BY <1>7, <2>2, <2>3
       DEF StartJob, TextOnlyWhileOpen, RecordsAreTrue, db, world
<1>8. CASE JobSent
  <2>1. /\ Noticing("late") \in Call /\ Noticing("late").pc = "noticing"
        /\ Noticing("late").note # "none"
    BY NoticingType, RestingAndNoticing DEF Notice
  <2>2. /\ call' \in [Callers -> Call] /\ call'[Worker] = Noticing("late")
        /\ \A d \in Callers \ {Worker} : call'[d] = call[d]
    BY <1>0, <1>8, <2>1 DEF JobSent, TypeOK
  <2> DEFINE new == Delivered(row[job])
  <2>3. new \in Row /\ (new.text <=> IsOpen(new))
    BY <1>3, <1>8, ClosedType, ClosedRow, QueueAssumption DEF JobSent
  <2>4. row' = [row EXCEPT ![job] = new]
    BY <1>8 DEF JobSent
  <2> HIDE DEF new
  <2>5. copies[job] > 0
    BY <1>0, <1>8 DEF JobSent, CallsFit, TextOf
  <2>6. /\ row' \in [Replies -> Row] /\ mapped' \subseteq Replies
        /\ TextOnlyWhileOpen' /\ RecordsAreTrue'
    BY <1>3, <1>8, <2>3, <2>4, <2>5, JobRow DEF JobSent, world
  <2>7. TypeOK'
    BY <1>8, <2>2, <2>6 DEF JobSent, TypeOK, worker, world, budget
  <2>8. CallsFit'
    BY <1>0, <1>8, <2>1, <2>2, CallsFitStep DEF JobSent, worker, world
  <2>9. QED BY <2>6, <2>7, <2>8
<1>9. CASE RetryJob
  <2> DEFINE new == Retried(row[job], NextDelay(snap[job]))
  <2>1. NextDelay(snap[job]) \in 0..MaxDelay
    BY <1>3, <1>9, NextDelayType, QueueAssumption DEF RetryJob, TypeOK
  <2>2. /\ new \in Row /\ new.text /\ IsOpen(new)
        /\ new.status # "delivered"
    BY <1>3, <1>9, <2>1, RetriedType, ClosedRow DEF RetryJob
  <2>3. row' = [row EXCEPT ![job] = new]
    BY <1>9 DEF RetryJob
  <2> HIDE DEF new
  <2>4. /\ row' \in [Replies -> Row] /\ mapped' \subseteq Replies
        /\ TextOnlyWhileOpen' /\ RecordsAreTrue'
    BY <1>3, <1>9, <2>2, <2>3, JobRow DEF RetryJob, world
  <2>5. CallsFit' /\ call' \in [Callers -> Call]
    BY <1>9, CallsFitOver DEF RetryJob, world
  <2>6. TypeOK'
    BY <1>9, <2>4, <2>5 DEF RetryJob, TypeOK, world, budget
  <2>7. QED BY <2>4, <2>5, <2>6
<1>10. CASE TellAboutJob
  <2>1. CallsFit' /\ call' \in [Callers -> Call]
    BY <1>10, CallsFitOver DEF TellAboutJob, world
  <2>2. call[Worker].note \in Notice
    BY <1>0, <1>10 DEF TellAboutJob, CallsFit, TypeOK, Call
  <2>3. TypeOK'
    <3>1. notices' \in [Replies -> SUBSET Notices]
      BY <1>3, <1>10, <2>2, NotifyAdds DEF TellAboutJob
    <3>2. QED
      BY <1>10, <2>1, <3>1 DEF TellAboutJob, TypeOK, db, world, budget
  <2>4. QED
    BY <1>10, <2>1, <2>3
       DEF TellAboutJob, TextOnlyWhileOpen, RecordsAreTrue, db, world
<1>11. QED
  BY <1>1, <1>2, <1>5, <1>6, <1>7, <1>8, <1>9, <1>10 DEF JobStep

-----------------------------------------------------------------------------
(* Time, the connection and the process                                    *)

(* Time, the connection and a crash.                                       *)
LEMMA EnvironmentKeeps ==
  ASSUME IInv, Tick \/ Connect \/ Drop \/ Crash PROVE IInv'
<1> USE DEF IInv
<1>1. CASE Tick
  <2>1. \A m \in Replies : /\ row'[m] \in Row
                           /\ row'[m].status = row[m].status
                           /\ row'[m].text = row[m].text
    <3> SUFFICES ASSUME NEW m \in Replies
                 PROVE  /\ row'[m] \in Row
                        /\ row'[m].status = row[m].status
                        /\ row'[m].text = row[m].text
      OBVIOUS
    <3>1. row[m] \in Row /\ row'[m] = Aged(row[m])
      BY <1>1 DEF Tick, TypeOK
    <3>2. Aged(row[m]) \in Row
      BY <3>1, AgedType
    <3>3. Aged(row[m]).status = row[m].status /\ Aged(row[m]).text = row[m].text
      BY <3>1 DEF Aged, Row
    <3>4. QED BY <3>1, <3>2, <3>3
  <2>2. row' \in [Replies -> Row]
    BY <1>1, <2>1 DEF Tick
  <2>3. TypeOK'
    BY <1>1, <2>2 DEF Tick, TypeOK, worker, world, budget
  <2>4. CallsFit'
    BY <1>1, <2>1 DEF Tick, CallsFit, TextOf, worker, world, IsOpen, TypeOK
  <2>5. QED
    BY <1>1, <2>1, <2>3, <2>4
       DEF Tick, TextOnlyWhileOpen, RecordsAreTrue, IsOpen, world
<1>2. CASE Connect \/ Drop
  <2>0. connected' \in BOOLEAN
    BY <1>2 DEF Connect, Drop
  <2>1. drops' \in 0..MaxDrops
    <3>1. drops' = drops \/ (drops < MaxDrops /\ drops' = drops + 1)
      BY <1>2 DEF Connect, Drop, budget
    <3>2. QED BY <3>1, OutboundAssumption DEF TypeOK
  <2>2. faults' = faults /\ UNCHANGED <<db, call, slot, worker, world, notices>>
    BY <1>2 DEF Connect, Drop, budget
  <2>3. TypeOK'
    BY <2>0, <2>1, <2>2 DEF TypeOK, db, worker, world
  <2>4. CallsFit'
    BY <2>2 DEF CallsFit, TextOf, db, worker, world
  <2>5. QED
    BY <2>2, <2>3, <2>4 DEF TextOnlyWhileOpen, RecordsAreTrue, db, world
<1>3. CASE Crash
  <2>1. /\ AtRest("idle") \in Call /\ AtRest("idle").pc = "idle"
        /\ AtRest("new") \in Call /\ AtRest("new").pc = "new"
        /\ AtRest("done") \in Call /\ AtRest("done").pc = "done"
    BY AtRestType, RestingAndNoticing DEF PC
  <2>2. /\ call' \in [Callers -> Call]
        /\ call'[Worker].pc = "idle"
        /\ \A m \in Replies : call'[m].pc \in {"new", "done"}
        /\ \A c \in Callers : call'[c].pc \in {"idle", "new", "done"}
    BY <1>3, <2>1, OutboundAssumption DEF Crash, Callers
  <2>3. slot' \in [error: Error, attempts: 0..MaxAttempts]
    BY <1>3, NoFailureType DEF Crash
  <2>4. snap' \in [Replies -> 0..AttemptCap] /\ faults' \in 0..MaxFaults
    BY <1>3, QueueAssumption, OutboundAssumption DEF Crash, TypeOK
  <2>5. TypeOK'
    BY <1>3, <2>2, <2>3, <2>4 DEF Crash, TypeOK, db, world
  <2>6. CallsFit'
    BY <1>3, <2>2 DEF Crash, CallsFit
  <2>7. QED
    BY <1>3, <2>5, <2>6 DEF Crash, TextOnlyWhileOpen, RecordsAreTrue, db, world
<1>4. QED BY <1>1, <1>2, <1>3

-----------------------------------------------------------------------------
(* The inductive invariant holds initially ...                             *)
LEMMA InitIInv == Init => IInv
<1> SUFFICES ASSUME Init PROVE IInv
  OBVIOUS
<1>1. /\ AtRest("idle") \in Call /\ AtRest("idle").pc = "idle"
      /\ AtRest("new") \in Call /\ AtRest("new").pc = "new"
  BY AtRestType, RestingAndNoticing DEF PC
<1>2. /\ call \in [Callers -> Call] /\ call[Worker].pc = "idle"
      /\ \A m \in Replies : call[m].pc = "new"
      /\ \A c \in Callers : call[c].pc \in {"idle", "new"}
  BY <1>1, OutboundAssumption DEF Init, Callers
<1>3. row \in [Replies -> Row] /\ snap \in [Replies -> 0..AttemptCap]
  BY NoRowType, QueueAssumption DEF Init
<1>4. TypeOK
  BY <1>2, <1>3, NoFailureType, OutboundAssumption DEF Init, TypeOK
<1>5. CallsFit
  BY <1>2 DEF Init, CallsFit
<1>6. TextOnlyWhileOpen /\ RecordsAreTrue
  BY DEF Init, TextOnlyWhileOpen, RecordsAreTrue, NoRow, IsOpen, OpenStatus
<1>7. QED BY <1>4, <1>5, <1>6 DEF IInv

(* ... is kept by every step, one case per action ...                      *)
LEMMA NextIInv == IInv /\ [Next]_vars => IInv'
<1> SUFFICES ASSUME IInv, [Next]_vars PROVE IInv'
  OBVIOUS
<1>1. CASE UNCHANGED vars
  BY <1>1 DEF vars, IInv, TypeOK, TextOnlyWhileOpen, RecordsAreTrue, CallsFit,
              TextOf, db, worker, world, budget
<1>2. ASSUME NEW c \in Callers, SendStep(c) PROVE IInv'
  BY <1>2, SendStepKeeps
<1>3. ASSUME NEW m \in Replies, ReplyStep(m) \/ RecordingRaised(m) PROVE IInv'
  BY <1>3, ReplyStepKeeps
<1>4. CASE Poll \/ (\E m \in Replies : LeaseJob(m)) \/ JobStep
  BY <1>4, WorkerStepKeeps
<1>5. CASE Tick \/ Connect \/ Drop \/ Crash
  BY <1>5, EnvironmentKeeps
<1>6. QED BY <1>1, <1>2, <1>3, <1>4, <1>5 DEF Next

(* ... and so holds in every reachable state.                              *)
LEMMA AlwaysIInv == Spec => []IInv
<1>1. QED BY InitIInv, NextIInv, PTL DEF Spec

(* Every reachable state is well typed, for any number of replies, any     *)
(* backoff table and any bound on attempts, crashes and connection losses. *)
THEOREM TypeCorrect == Spec => []TypeOK
<1>1. IInv => TypeOK
  BY DEF IInv
<1>2. QED BY <1>1, AlwaysIInv, PTL

(* No statement order, crash or second handler leaves a closed row with    *)
(* its plaintext, or an open row without it.                               *)
THEOREM TextIsKeptWhileOpen == Spec => []TextOnlyWhileOpen
<1>1. IInv => TextOnlyWhileOpen
  BY DEF IInv
<1>2. QED BY <1>1, AlwaysIInv, PTL

(* message_map and the queue never claim a delivery that did not happen.   *)
THEOREM RecordsStayTrue == Spec => []RecordsAreTrue
<1>1. IInv => RecordsAreTrue
  BY DEF IInv
<1>2. QED BY <1>1, AlwaysIInv, PTL

-----------------------------------------------------------------------------
(* Delivered rows                                                          *)

(* No statement of the queue gives a delivered row another status.         *)
LEMMA DeliveredStep ==
  ASSUME IInv, [Next]_vars, NEW m \in Replies, row[m].status = "delivered"
  PROVE  row'[m].status = "delivered"
<1> USE DEF IInv
<1>0. row[m] \in Row /\ ~IsOpen(row[m])
  BY DEF TypeOK, IsOpen, OpenStatus
<1>1. CASE UNCHANGED row
  BY <1>1
<1>2. ASSUME NEW n \in Replies, QueueReply(n) PROVE row'[m].status = "delivered"
  BY <1>2 DEF QueueReply, Enqueued, TypeOK
<1>3. ASSUME NEW n \in Replies, LeaseJob(n) PROVE row'[m].status = "delivered"
  BY <1>0, <1>3 DEF LeaseJob, CanLease, TypeOK
<1>4. ASSUME call[Worker].pc \notin {"idle", "noticing"}, NEW new,
             row' = [row EXCEPT ![job] = new]
      PROVE  row'[m].status = "delivered"
  BY <1>0, <1>4 DEF CallsFit, TypeOK
<1>5. CASE ExpireJob \/ JobSent \/ RetryJob \/ GiveUpJob
  BY <1>4, <1>5 DEF ExpireJob, JobSent, RetryJob, GiveUpJob
<1>6. CASE Tick
  BY <1>0, <1>6 DEF Tick, Aged
<1>7. ASSUME NEW c \in Callers, SendStep(c) PROVE UNCHANGED row
  BY <1>7 DEF SendStep, ConnectionCame, NeverConnected, AttemptAcked,
     AttemptFailed, NextAttempt, Closed, CallTimedOut, db
<1>8. ASSUME NEW n \in Replies,
             RefuseReply(n) \/ StartReply(n) \/ ReplySent(n) \/ AbandonReply(n)
             \/ TellSender(n) \/ RecordingRaised(n)
      PROVE  UNCHANGED row
  BY <1>8 DEF RefuseReply, StartReply, ReplySent, AbandonReply, TellSender,
     RecordingRaised, db
<1>9. CASE Poll \/ StartJob \/ TellAboutJob \/ Connect \/ Drop \/ Crash
  BY <1>1, <1>9 DEF Poll, StartJob, TellAboutJob, Connect, Drop, Crash, db
<1>10. QED
  BY <1>1, <1>2, <1>3, <1>5, <1>6, <1>7, <1>8, <1>9
     DEF Next, ReplyStep, JobStep, vars, db

(* The upsert of a second handler and the worker's statements never reopen *)
(* a delivered row.                                                        *)
THEOREM DeliveredStays == Spec => DeliveredForGood
<1>1. IInv /\ [Next]_vars
        => [\A m \in Replies : row[m].status = "delivered"
                               => row'[m].status = "delivered"]_vars
  BY DeliveredStep
<1>2. QED BY <1>1, AlwaysIInv, PTL DEF Spec, DeliveredForGood

-----------------------------------------------------------------------------
(* Handing over: who has a text in hand while nothing has crashed          *)

(* A row appears when its handler has stopped sending, and what the worker *)
(* holds is leased until its outcome is stored.                            *)
HandOver ==
  faults = 0 =>
    /\ \A m \in Replies : row[m].status # "absent"
                            => call[m].pc \in {"noticing", "done"}
    /\ job # None => row[job].status # "absent"
    /\ job # None /\ call[Worker].pc # "noticing" => row[job].status = "leased"

Settled(m) ==
  \/ m \in mapped
  \/ IsOpen(row[m])
  \/ notices[m] \cap LastWords # {}
  \/ job = m /\ call[Worker].pc = "noticing"

(* A text that has left its handler is settled, whoever settled it.        *)
Accounted ==
  faults = 0 =>
    /\ \A m \in Replies : row[m].status # "absent" => Settled(m)
    /\ \A m \in Replies : call[m].pc = "done" => Settled(m)
    /\ \A m \in Replies : call[m].pc = "noticing" /\ call[m].note = "queued"
                            => row[m].status # "absent"
    /\ call[Worker].pc = "noticing" => call[Worker].note # "queued"

HInv == IInv /\ HandOver /\ Accounted

(* A step of a send moves one caller between the points of the call.       *)
LEMMA SendMoves ==
  ASSUME IInv, NEW c \in Callers, SendStep(c)
  PROVE  /\ UNCHANGED <<row, mapped, job, notices, faults>>
         /\ call[c].pc \in {"waiting", "trying", "pausing", "closing"}
         /\ call'[c].pc \in {"trying", "pausing", "closing", "sent", "failed"}
         /\ \A d \in Callers \ {c} : call'[d] = call[d]
<1> USE DEF IInv
<1>1. /\ UNCHANGED <<row, mapped, job, notices, faults>>
      /\ call[c].pc \in {"waiting", "trying", "pausing", "closing"}
  BY DEF SendStep, ConnectionCame, NeverConnected, AttemptAcked, AttemptFailed,
     NextAttempt, Closed, CallTimedOut, db, worker, budget
<1>2. \E new : /\ call' = [call EXCEPT ![c] = new]
               /\ new.pc \in {"trying", "pausing", "closing", "sent", "failed"}
  <2>1. AtRest("sent").pc = "sent" /\ AtRest("failed").pc = "failed"
    BY RestingAndNoticing DEF PC
  <2>2. call[c] \in Call
    BY DEF TypeOK
  <2>3. ASSUME NEW own, NEW failure, ReturnNone(c, own, failure)
        PROVE  \E new : call' = [call EXCEPT ![c] = new] /\ new.pc = "failed"
    <3> DEFINE new == [AtRest("failed") EXCEPT
             !.own = own,
             !.error = IF failure.error = "definite" THEN "definite"
                                                     ELSE "ambiguous",
             !.tries = failure.attempts]
    <3>1. new.pc = "failed"
      BY DEF AtRest
    <3>2. call' = [call EXCEPT ![c] = new]
      BY <2>3 DEF ReturnNone
    <3> HIDE DEF new
    <3>3. QED BY <3>1, <3>2
  <2>4. CASE ConnectionCame(c) \/ NextAttempt(c)
    <3>1. PICK p \in {"trying"}, n \in Nat :
            call' = [call EXCEPT ![c].pc = p, ![c].attempt = n]
      BY <2>2, <2>4, OutboundAssumption
         DEF ConnectionCame, NextAttempt, Call, TypeOK
    <3>2. [call[c] EXCEPT !.pc = p, !.attempt = n].pc = p
      BY <2>2 DEF Call
    <3>3. QED BY <3>1, <3>2
  <2>5. CASE NeverConnected(c) \/ Closed(c) \/ CallTimedOut(c)
    BY <2>3, <2>5 DEF NeverConnected, Closed, CallTimedOut
  <2>6. CASE AttemptAcked(c)
    BY <2>1, <2>6 DEF AttemptAcked
  <2>7. CASE AttemptFailed(c)
    <3>1. PICK f \in Failures :
            \/ call' = [call EXCEPT ![c].pc = "pausing"]
            \/ call' = [call EXCEPT ![c].pc = "closing", ![c].own = f.class]
            \/ ReturnNone(c, f.class, slot')
      BY <2>7 DEF AttemptFailed
    <3>2. /\ [call[c] EXCEPT !.pc = "pausing"].pc = "pausing"
          /\ [call[c] EXCEPT !.pc = "closing", !.own = f.class].pc = "closing"
      BY <2>2 DEF Call
    <3>3. CASE call' = [call EXCEPT ![c].pc = "pausing"]
      BY <3>2, <3>3
    <3>4. CASE call' = [call EXCEPT ![c].pc = "closing", ![c].own = f.class]
      BY <3>2, <3>4
    <3>5. CASE ReturnNone(c, f.class, slot')
      BY <2>3, <3>5
    <3>6. QED BY <3>1, <3>3, <3>4, <3>5
  <2>8. QED BY <2>4, <2>5, <2>6, <2>7 DEF SendStep
<1>3. QED BY <1>1, <1>2 DEF TypeOK

(* A step inside a send hands nothing over.                                *)
LEMMA SendStepHandsOver ==
  ASSUME HInv, NEW c \in Callers, SendStep(c) PROVE HandOver' /\ Accounted'
<1> USE DEF HInv
<1>1. /\ UNCHANGED <<row, mapped, job, notices, faults>>
      /\ call[c].pc \in {"waiting", "trying", "pausing", "closing"}
      /\ call'[c].pc \in {"trying", "pausing", "closing", "sent", "failed"}
      /\ \A d \in Callers \ {c} : call'[d] = call[d]
  BY SendMoves
<1>2. HandOver'
  BY <1>1 DEF HandOver, Callers
<1>3. (call'[Worker].pc = "noticing") <=> (call[Worker].pc = "noticing")
  BY <1>1 DEF Callers
<1>4. \A m \in Replies : Settled(m) => Settled(m)'
  BY <1>1, <1>3 DEF Settled, IsOpen
<1>5. Accounted'
  BY <1>1, <1>3, <1>4 DEF Accounted, Callers
<1>6. QED BY <1>2, <1>5

(* A handler settles its text in the step that leaves it.                  *)
LEMMA ReplyStepHandsOver ==
  ASSUME HInv, NEW m \in Replies, ReplyStep(m) \/ RecordingRaised(m)
  PROVE  HandOver' /\ Accounted'
<1> USE DEF HInv, IInv
<1> SUFFICES ASSUME faults' = 0 PROVE HandOver' /\ Accounted'
  BY DEF HandOver, Accounted
<1>0. m \in Callers /\ m # Worker /\ Worker \in Callers
  BY OutboundAssumption DEF Callers
<1>1. ASSUME NEW new, call' = [call EXCEPT ![m] = new],
             UNCHANGED <<row, mapped, worker, faults>>,
             \A n \in Replies : notices[n] \subseteq notices'[n],
             row[m].status # "absent" => new.pc \in {"noticing", "done"},
             new.pc = "done" => Settled(m)',
             new.pc = "noticing" => new.note # "queued"
      PROVE  HandOver' /\ Accounted'
  <2>1. /\ call'[m] = new /\ \A c \in Callers \ {m} : call'[c] = call[c]
    BY <1>0, <1>1 DEF TypeOK
  <2>2. HandOver'
    BY <1>0, <1>1, <2>1 DEF HandOver, worker, Callers
  <2>3. \A n \in Replies : Settled(n) => Settled(n)'
    BY <1>0, <1>1, <2>1 DEF Settled, IsOpen, worker
  <2>4. Accounted'
    BY <1>0, <1>1, <2>1, <2>3 DEF Accounted, worker, Callers
  <2>5. QED BY <2>2, <2>4
<1>2. CASE RefuseReply(m)
  <2>1. AtRest("done").pc = "done"
    BY RestingAndNoticing DEF PC
  <2>2. Settled(m)'
    BY <1>2, NotifyAdds DEF RefuseReply, Settled, Notice
  <2>3. \A n \in Replies : notices[n] \subseteq notices'[n]
    BY <1>2, NotifyAdds DEF RefuseReply, Notice
  <2>4. QED
    BY <1>1, <1>2, <2>1, <2>2, <2>3 DEF RefuseReply, db, budget
<1>3. CASE StartReply(m)
  <2> DEFINE new == [AtRest(IF connected THEN "trying" ELSE "waiting")
                     EXCEPT !.attempt = 1]
  <2>1. new.pc \in {"trying", "waiting"}
    BY DEF AtRest
  <2>2. call' = [call EXCEPT ![m] = new]
    BY <1>3 DEF StartReply, BeginSend
  <2> HIDE DEF new
  <2>3. row[m].status = "absent"
    BY <1>3 DEF HandOver, StartReply, budget
  <2>4. QED
    BY <1>1, <1>3, <2>1, <2>2, <2>3 DEF StartReply, db, budget
<1>4. CASE ReplySent(m)
  <2>1. AtRest("done").pc = "done"
    BY RestingAndNoticing DEF PC
  <2>2. /\ call'[m].pc = "done" /\ \A c \in Callers \ {m} : call'[c] = call[c]
    BY <1>0, <1>4, <2>1 DEF ReplySent, TypeOK
  <2>3. UNCHANGED <<row, job, notices, faults>> /\ mapped' = mapped \cup {m}
    BY <1>4 DEF ReplySent, worker, budget
  <2>4. \A n \in Replies : Settled(n) \/ n = m => Settled(n)'
    BY <1>0, <2>2, <2>3 DEF Settled, IsOpen
  <2>5. HandOver'
    BY <1>0, <2>2, <2>3 DEF HandOver, Callers
  <2>6. Accounted'
    BY <1>0, <2>2, <2>3, <2>4 DEF Accounted, Callers
  <2>7. QED BY <2>5, <2>6
<1>5. CASE QueueReply(m)
  <2>1. Noticing("queued").pc = "noticing"
    BY RestingAndNoticing DEF Notice
  <2>2. /\ call'[m].pc = "noticing" /\ \A c \in Callers \ {m} : call'[c] = call[c]
    BY <1>0, <1>5, <2>1 DEF QueueReply, TypeOK
  <2>3. UNCHANGED <<mapped, job, notices, faults>>
    BY <1>5 DEF QueueReply, worker, budget
  <2>4. row[m].status = "absent" /\ job # m
    <3>1. row[m].status = "absent"
      BY <1>5, <2>3 DEF HandOver, QueueReply
    <3>2. job # m
      BY <2>3, <3>1, OutboundAssumption DEF HandOver
    <3>3. QED BY <3>1, <3>2
  <2>5. /\ IsOpen(row'[m]) /\ row'[m].status # "absent"
        /\ \A n \in Replies \ {m} : row'[n] = row[n]
    BY <1>5, <2>4 DEF QueueReply, Enqueued, IsOpen, OpenStatus, TypeOK
  <2>6. \A n \in Replies : Settled(n) \/ n = m => Settled(n)'
    BY <1>0, <2>2, <2>3, <2>5 DEF Settled
  <2>7. HandOver'
    BY <1>0, <2>2, <2>3, <2>4, <2>5 DEF HandOver, TypeOK, Callers
  <2>8. Accounted'
    BY <1>0, <2>2, <2>3, <2>5, <2>6 DEF Accounted, Callers
  <2>9. QED BY <2>7, <2>8
<1>6. CASE AbandonReply(m)
  <2>1. Noticing("gaveup").pc = "noticing" /\ Noticing("gaveup").note = "gaveup"
    BY RestingAndNoticing DEF Notice
  <2>2. QED
    BY <1>1, <1>6, <2>1 DEF AbandonReply, db, budget
<1>7. CASE TellSender(m)
  <2>1. AtRest("done").pc = "done"
    BY RestingAndNoticing DEF PC
  <2>2. call'[Worker] = call[Worker] /\ UNCHANGED <<row, mapped, worker, faults>>
    BY <1>0, <1>7 DEF TellSender, TypeOK, db, budget
  <2>3. /\ \A n \in Replies : notices[n] \subseteq notices'[n]
        /\ call[m].note # "queued" => notices'[m] \cap LastWords # {}
    <3>1. call[m].note \in Notice
      BY <1>0, <1>7 DEF TellSender, CallsFit, TypeOK, Call
    <3>2. QED BY <1>7, <3>1, NotifyAdds DEF TellSender
  <2>4. Settled(m)'
    <3>1. CASE call[m].note = "queued"
      <4>1. Settled(m)
        BY <1>7, <2>2, <3>1 DEF TellSender, Accounted
      <4>2. QED BY <2>2, <2>3, <4>1 DEF Settled, IsOpen, worker
    <3>2. CASE call[m].note # "queued"
      BY <2>3, <3>2 DEF Settled
    <3>3. QED BY <3>1, <3>2
  <2>5. QED
    BY <1>1, <1>7, <2>1, <2>2, <2>3, <2>4 DEF TellSender
<1>8. CASE RecordingRaised(m)
  BY <1>8 DEF RecordingRaised, TypeOK
<1>9. QED
  BY <1>2, <1>3, <1>4, <1>5, <1>6, <1>7, <1>8 DEF ReplyStep

(* Neither does a step that leaves rows, calls and answers alone.          *)
LEMMA NothingMoves ==
  ASSUME HInv, UNCHANGED <<row, mapped, call, job, notices, faults>>
  PROVE  HandOver' /\ Accounted'
<1>1. \A m \in Replies : Settled(m)' <=> Settled(m)
  BY DEF Settled, IsOpen
<1>2. HandOver'
  BY DEF HInv, HandOver
<1>3. QED BY <1>1, <1>2 DEF HInv, Accounted

(* The worker keeps the lease of its row and settles the text it closes.   *)
LEMMA WorkerStepHandsOver ==
  ASSUME HInv, Poll \/ (\E m \in Replies : LeaseJob(m)) \/ JobStep
  PROVE  HandOver' /\ Accounted'
<1> USE DEF HInv, IInv
<1> SUFFICES ASSUME faults' = 0 PROVE HandOver' /\ Accounted'
  BY DEF HandOver, Accounted
<1>0. /\ Worker \in Callers /\ Worker \notin Replies /\ None \notin Replies
      /\ faults = 0
  BY OutboundAssumption
     DEF Callers, Poll, LeaseJob, JobStep, ExpireJob, StartJob, JobSent,
         RetryJob, GiveUpJob, TellAboutJob, budget
<1>1. CASE Poll
  BY <1>0, <1>1, NothingMoves DEF Poll, db
<1>2. ASSUME NEW new, call' = [call EXCEPT ![Worker] = new]
      PROVE  /\ call'[Worker] = new
             /\ \A n \in Replies : call'[n] = call[n]
  BY <1>0, <1>2 DEF TypeOK, Callers
<1>3. ASSUME NEW m \in Replies, LeaseJob(m) PROVE HandOver' /\ Accounted'
  <2>1. CASE CanLease(row[m])
    <3>1. AtRest("leased").pc = "leased"
      BY RestingAndNoticing DEF PC
    <3>2. /\ call'[Worker].pc = "leased"
          /\ \A n \in Replies : call'[n] = call[n]
      BY <1>2, <1>3, <2>1, <3>1 DEF LeaseJob
    <3>3. UNCHANGED <<mapped, notices>> /\ job' = m /\ job = None
      BY <1>3, <2>1 DEF LeaseJob, CallsFit
    <3>4. /\ row'[m].status = "leased" /\ row[m].status # "absent"
          /\ \A n \in Replies \ {m} : row'[n] = row[n]
      <4>1. /\ row' = [row EXCEPT ![m] = Leased(@)] /\ row[m] \in Row
            /\ row[m].status # "absent"
        BY <1>3, <2>1 DEF LeaseJob, CanLease, IsOpen, OpenStatus, TypeOK
      <4>2. Leased(row[m]).status = "leased"
        BY <4>1 DEF Leased, Row
      <4>3. QED BY <4>1, <4>2 DEF TypeOK
    <3>5. \A n \in Replies : Settled(n) => Settled(n)'
      BY <1>0, <1>3, <3>3, <3>4 DEF Settled, IsOpen, OpenStatus
    <3>6. HandOver'
      BY <1>0, <3>2, <3>3, <3>4 DEF HandOver
    <3>7. Accounted'
      BY <1>0, <3>2, <3>4, <3>5 DEF Accounted
    <3>8. QED BY <3>6, <3>7
  <2>2. CASE ~CanLease(row[m])
    BY <1>0, <1>3, <2>2, NothingMoves DEF LeaseJob
  <2>3. QED BY <2>1, <2>2
<1>4. ASSUME call[Worker].pc # "idle" PROVE job \in Replies
  BY <1>4 DEF CallsFit, TypeOK
<1>5. ASSUME NEW note \in Notice \ {"queued"}, NEW new,
             call[Worker].pc # "idle",
             row' = [row EXCEPT ![job] = new], new.status # "absent",
             mapped \subseteq mapped',
             call' = [call EXCEPT ![Worker] = Noticing(note)],
             UNCHANGED <<worker, notices>>
      PROVE  HandOver' /\ Accounted'
  <2>1. /\ call'[Worker].pc = "noticing" /\ call'[Worker].note # "queued"
        /\ \A n \in Replies : call'[n] = call[n]
    <3>1. Noticing(note).pc = "noticing" /\ Noticing(note).note = note
      BY <1>5, RestingAndNoticing
    <3>2. QED BY <1>2, <1>5, <3>1
  <2>2. /\ job \in Replies /\ job' = job /\ row'[job] = new
        /\ \A n \in Replies \ {job} : row'[n] = row[n]
    BY <1>4, <1>5 DEF worker, TypeOK
  <2>3. job # None /\ row[job].status # "absent"
    BY <1>0, <2>2 DEF HandOver
  <2>4. \A n \in Replies : Settled(n) \/ n = job => Settled(n)'
    BY <1>5, <2>1, <2>2 DEF Settled
  <2>5. HandOver'
    BY <1>0, <1>5, <2>1, <2>2, <2>3 DEF HandOver
  <2>6. Accounted'
    BY <1>0, <1>5, <2>1, <2>2, <2>3, <2>4 DEF Accounted
  <2>7. QED BY <2>5, <2>6
<1>6. ASSUME call[Worker].pc # "idle" PROVE row[job] \in Row
  BY <1>4, <1>6 DEF TypeOK
<1>7. CASE ExpireJob
  <2>1. Failed(row[job]).status # "absent"
    BY <1>6, <1>7 DEF ExpireJob, Failed, Row
  <2>2. QED BY <1>5, <1>7, <2>1 DEF ExpireJob, Notice
<1>8. CASE GiveUpJob
  <2>1. Failed(row[job]).status # "absent"
    BY <1>6, <1>8 DEF GiveUpJob, Failed, Row
  <2>2. QED BY <1>5, <1>8, <2>1 DEF GiveUpJob, Notice
<1>9. CASE JobSent
  <2>1. Delivered(row[job]).status # "absent"
    BY <1>6, <1>9 DEF JobSent, Delivered, Row
  <2>2. QED BY <1>5, <1>9, <2>1 DEF JobSent, Notice
<1>10. CASE StartJob
  <2> DEFINE new == [AtRest(IF connected THEN "trying" ELSE "waiting")
                     EXCEPT !.attempt = 1]
  <2>1. new.pc \in {"trying", "waiting"}
    BY DEF AtRest
  <2>2. call' = [call EXCEPT ![Worker] = new]
    BY <1>10 DEF StartJob, BeginSend
  <2> HIDE DEF new
  <2>3. /\ call'[Worker].pc \in {"trying", "waiting"}
        /\ \A n \in Replies : call'[n] = call[n]
    BY <1>2, <2>1, <2>2
  <2>4. UNCHANGED <<row, mapped, job, notices>> /\ call[Worker].pc = "leased"
    BY <1>10 DEF StartJob, db, worker
  <2>5. QED
    BY <1>0, <2>3, <2>4 DEF HandOver, Accounted, Settled, IsOpen
<1>11. CASE RetryJob
  <2>1. AtRest("idle").pc = "idle"
    BY RestingAndNoticing DEF PC
  <2>2. /\ call'[Worker].pc = "idle"
        /\ \A n \in Replies : call'[n] = call[n]
    BY <1>2, <1>11, <2>1 DEF RetryJob
  <2>3. /\ row'[job].status = "retry" /\ row[job].status # "absent"
        /\ \A n \in Replies \ {job} : row'[n] = row[n]
    BY <1>0, <1>4, <1>6, <1>11 DEF RetryJob, Retried, Row, TypeOK, HandOver
  <2>4. job' = None /\ UNCHANGED <<mapped, notices>> /\ call[Worker].pc = "failed"
    BY <1>11 DEF RetryJob
  <2>5. \A n \in Replies : Settled(n) => Settled(n)'
    BY <2>2, <2>3, <2>4 DEF Settled, IsOpen, OpenStatus
  <2>6. HandOver'
    BY <1>0, <2>2, <2>3, <2>4 DEF HandOver
  <2>7. Accounted'
    BY <1>0, <2>2, <2>3, <2>5 DEF Accounted
  <2>8. QED BY <2>6, <2>7
<1>12. CASE TellAboutJob
  <2>1. AtRest("idle").pc = "idle"
    BY RestingAndNoticing DEF PC
  <2>2. /\ call'[Worker].pc = "idle"
        /\ \A n \in Replies : call'[n] = call[n]
    BY <1>2, <1>12, <2>1 DEF TellAboutJob
  <2>3. job' = None /\ UNCHANGED <<row, mapped>>
    BY <1>12 DEF TellAboutJob, db
  <2>4. \A n \in Replies : Settled(n) => Settled(n)'
    <3>0. job \in Replies /\ call[Worker].note \in Notice
      BY <1>0, <1>4, <1>12 DEF TellAboutJob, CallsFit, TypeOK, Call
    <3>1. \A n \in Replies : notices[n] \subseteq notices'[n]
      BY <1>12, <3>0, NotifyAdds DEF TellAboutJob
    <3>2. job \in Replies => notices'[job] \cap LastWords # {}
      BY <1>0, <1>12, <3>0, NotifyAdds DEF TellAboutJob, Accounted
    <3>3. QED BY <2>3, <3>1, <3>2 DEF Settled, IsOpen
  <2>5. HandOver'
    BY <1>0, <2>2, <2>3 DEF HandOver
  <2>6. Accounted'
    BY <1>0, <2>2, <2>3, <2>4 DEF Accounted
  <2>7. QED BY <2>5, <2>6
<1>13. QED
  BY <1>1, <1>3, <1>7, <1>8, <1>9, <1>10, <1>11, <1>12 DEF JobStep

(* Time keeps leases in order; after a crash nothing is claimed.           *)
LEMMA EnvironmentHandsOver ==
  ASSUME HInv, Tick \/ Connect \/ Drop \/ Crash PROVE HandOver' /\ Accounted'
<1> USE DEF HInv, IInv
<1>1. CASE Tick
  <2>1. \A m \in Replies : row'[m].status = row[m].status
    BY <1>1 DEF Tick, Aged, TypeOK, Row
  <2>2. UNCHANGED <<mapped, call, job, notices, faults>>
    BY <1>1 DEF Tick, worker, budget
  <2>3. \A m \in Replies : Settled(m) => Settled(m)'
    BY <2>1, <2>2 DEF Settled, IsOpen
  <2>4. HandOver'
    BY <2>1, <2>2 DEF HandOver, CallsFit, TypeOK
  <2>5. Accounted'
    BY <2>1, <2>2, <2>3 DEF Accounted
  <2>6. QED BY <2>4, <2>5
<1>2. CASE Connect \/ Drop
  BY <1>2, NothingMoves DEF Connect, Drop, db, worker, budget
<1>3. CASE Crash
  BY <1>3 DEF Crash, HandOver, Accounted, TypeOK
<1>4. QED BY <1>1, <1>2, <1>3

(* The invariant of the hand-over holds in every reachable state.          *)
LEMMA AlwaysHInv == Spec => []HInv
<1>1. Init => HInv
  BY InitIInv, RestingAndNoticing
     DEF Init, HInv, HandOver, Accounted, NoRow, PC, Callers, IInv, CallsFit
<1>2. HInv /\ [Next]_vars => HInv'
  <2> SUFFICES ASSUME HInv, [Next]_vars PROVE HInv'
    OBVIOUS
  <2>1. IInv'
    BY NextIInv DEF HInv
  <2>2. CASE UNCHANGED vars
    BY <2>1, <2>2, NothingMoves DEF vars, HInv, db, worker, budget
  <2>3. CASE Next
    BY <2>1, <2>3, SendStepHandsOver, ReplyStepHandsOver, WorkerStepHandsOver,
       EnvironmentHandsOver DEF Next, HInv
  <2>4. QED BY <2>2, <2>3
<1>3. QED BY <1>1, <1>2, PTL DEF Spec

(* Handler and worker never send the same text while nothing has crashed,  *)
(* and the worker sends only under its lease, whatever the lease's length  *)
(* and however long a send takes.                                          *)
THEOREM OneSender == Spec => []OneSenderPerText
<1>1. HInv => OneSenderPerText
  BY OutboundAssumption
     DEF HInv, IInv, HandOver, CallsFit, OneSenderPerText, Sending, TypeOK
<1>2. QED BY <1>1, AlwaysHInv, PTL

(* While nothing has crashed, no reply whose handler is done is forgotten. *)
THEOREM NothingIsLost == Spec => []NoSilentLoss
<1>1. HInv => NoSilentLoss
  BY DEF HInv, Accounted, NoSilentLoss, Settled
<1>2. QED BY <1>1, AlwaysHInv, PTL

-----------------------------------------------------------------------------
(* Copies: how often MAX can still be sent a text, on top of how often it  *)
(* took it                                                                 *)

CanSend == {"new", "waiting", "trying", "pausing", "closing", "failed"}

Chance(m) == IF call[m].pc \in CanSend THEN 1 ELSE 0
RowChance(m) ==
  IF IsOpen(row[m]) /\ ~(job = m /\ call[Worker].pc = "sent") THEN 1 ELSE 0
Spent(m) == copies[m] + Chance(m) + RowChance(m)
WithinBound == \A m \in Replies : Spent(m) <= 1 + 2 * faults

(* What is added up in the bound are numbers.                              *)
LEMMA SpentType ==
  ASSUME TypeOK, NEW m \in Replies
  PROVE  copies[m] \in Nat /\ faults \in Nat /\ Chance(m) \in {0, 1} /\ RowChance(m) \in {0, 1}
  BY OutboundAssumption DEF TypeOK, Chance, RowChance

(* A step without a fault keeps within the bound if it adds, for each      *)
(* reply, no more copies than it takes chances away.                       *)
LEMMA NothingGained ==
  ASSUME TypeOK, TypeOK', WithinBound, faults' = faults,
         \A m \in Replies : copies'[m] + Chance(m)' + RowChance(m)'
                              <= copies[m] + Chance(m) + RowChance(m)
  PROVE  WithinBound'
<1> SUFFICES ASSUME NEW m \in Replies PROVE Spent(m)' <= 1 + 2 * faults
  BY DEF WithinBound
<1>1. /\ copies[m] \in Nat /\ copies'[m] \in Nat /\ faults \in Nat
      /\ Chance(m) \in {0, 1} /\ Chance(m)' \in {0, 1}
      /\ RowChance(m) \in {0, 1} /\ RowChance(m)' \in {0, 1}
  BY OutboundAssumption DEF TypeOK, Chance, RowChance
<1>2. Spent(m) <= 1 + 2 * faults
  BY DEF WithinBound
<1>3. QED BY <1>1, <1>2 DEF Spent

(* When no answer is lost, MAX takes a text exactly when the call is told. *)
LEMMA SendTakesOnce ==
  ASSUME IInv, ~LoseReplies, NEW c \in Callers, SendStep(c)
  PROVE  \/ /\ copies' = [copies EXCEPT ![TextOf(c)] = @ + 1]
            /\ call'[c].pc = "sent"
         \/ /\ copies' = copies
            /\ call'[c].pc \in {"trying", "pausing", "closing", "failed"}
<1>0. TypeOK
  BY DEF IInv
<1>1. AtRest("sent").pc = "sent" /\ AtRest("failed").pc = "failed"
  BY RestingAndNoticing DEF PC
<1>2. CASE AttemptAcked(c)
  BY <1>0, <1>1, <1>2 DEF AttemptAcked, TypeOK
<1>3. ASSUME NEW own, NEW failure, ReturnNone(c, own, failure)
      PROVE  call'[c].pc = "failed"
  <2> DEFINE new == [AtRest("failed") EXCEPT
             !.own = own,
             !.error = IF failure.error = "definite" THEN "definite"
                                                     ELSE "ambiguous",
             !.tries = failure.attempts]
  <2>1. new.pc = "failed"
    BY DEF AtRest
  <2>2. call' = [call EXCEPT ![c] = new]
    BY <1>3 DEF ReturnNone
  <2> HIDE DEF new
  <2>3. QED BY <1>0, <2>1, <2>2 DEF TypeOK
<1>4. ASSUME NEW reached \in BOOLEAN, Reaches(c, reached) PROVE copies' = copies
  BY <1>0, <1>4 DEF Reaches, TypeOK
<1>5. CASE ConnectionCame(c) \/ NextAttempt(c)
  BY <1>0, <1>5 DEF ConnectionCame, NextAttempt, TypeOK, Call, world
<1>6. CASE NeverConnected(c) \/ Closed(c)
  BY <1>3, <1>6 DEF NeverConnected, Closed, world
<1>7. CASE CallTimedOut(c)
  BY <1>3, <1>4, <1>7 DEF CallTimedOut
<1>8. CASE AttemptFailed(c)
  <2>1. PICK f \in Failures, reached \in BOOLEAN :
          /\ Reaches(c, reached)
          /\ \/ call' = [call EXCEPT ![c].pc = "pausing"]
             \/ call' = [call EXCEPT ![c].pc = "closing", ![c].own = f.class]
             \/ ReturnNone(c, f.class, slot')
    BY <1>8 DEF AttemptFailed
  <2>2. copies' = copies
    BY <1>4, <2>1
  <2>3. CASE call' = [call EXCEPT ![c].pc = "pausing"]
    BY <1>0, <2>2, <2>3 DEF TypeOK, Call
  <2>4. CASE call' = [call EXCEPT ![c].pc = "closing", ![c].own = f.class]
    BY <1>0, <2>2, <2>4 DEF TypeOK, Call
  <2>5. CASE ReturnNone(c, f.class, slot')
    BY <1>3, <2>2, <2>5
  <2>6. QED BY <2>1, <2>3, <2>4, <2>5
<1>9. QED BY <1>2, <1>5, <1>6, <1>7, <1>8 DEF SendStep

(* An attempt that reaches MAX spends the chance of its caller.            *)
LEMMA SendWithinBound ==
  ASSUME IInv, WithinBound, ~LoseReplies, NEW c \in Callers, SendStep(c)
  PROVE  WithinBound'
<1>0. TypeOK /\ TypeOK' /\ Worker \in Callers /\ Worker \notin Replies
  BY SendStepKeeps, OutboundAssumption DEF IInv, Callers
<1>1. /\ UNCHANGED <<row, mapped, job, notices, faults>>
      /\ call[c].pc \in {"waiting", "trying", "pausing", "closing"}
      /\ \A d \in Callers \ {c} : call'[d] = call[d]
  BY SendMoves
<1>2. \/ /\ copies' = [copies EXCEPT ![TextOf(c)] = @ + 1]
         /\ call'[c].pc = "sent"
      \/ /\ copies' = copies
         /\ call'[c].pc \in {"trying", "pausing", "closing", "failed"}
  BY SendTakesOnce
<1> SUFFICES ASSUME NEW m \in Replies
             PROVE  copies'[m] + Chance(m)' + RowChance(m)'
                      <= copies[m] + Chance(m) + RowChance(m)
  BY <1>0, <1>1, NothingGained
<1>3. copies[m] \in Nat /\ m \in Callers
  BY <1>0 DEF TypeOK, Callers
<1>4. CASE TextOf(c) # m
  <2>1. copies'[m] = copies[m] /\ c # m
    BY <1>0, <1>2, <1>4 DEF TypeOK, TextOf, Callers
  <2>2. Chance(m)' = Chance(m)
    BY <1>1, <1>3, <2>1 DEF Chance
  <2>3. RowChance(m)' = RowChance(m)
    BY <1>0, <1>1, <1>4 DEF RowChance, TextOf
  <2>4. Chance(m) \in {0, 1} /\ RowChance(m) \in {0, 1}
    BY DEF Chance, RowChance
  <2>5. QED BY <1>3, <2>1, <2>2, <2>3, <2>4
<1>5. CASE TextOf(c) = m /\ c = m
  <2>1. RowChance(m)' = RowChance(m)
    BY <1>0, <1>1, <1>5 DEF RowChance
  <2>2. RowChance(m) \in {0, 1}
    BY DEF RowChance
  <2>3. Chance(m) = 1
    BY <1>1, <1>5 DEF Chance, CanSend
  <2>4. \/ copies'[m] = copies[m] + 1 /\ Chance(m)' = 0
        \/ copies'[m] = copies[m] /\ Chance(m)' = 1
    BY <1>0, <1>2, <1>5 DEF Chance, CanSend, TypeOK
  <2>5. QED BY <1>3, <2>1, <2>2, <2>3, <2>4
<1>6. CASE c = Worker /\ job = m
  <2>1. m # Worker /\ call'[m] = call[m]
    BY <1>0, <1>1, <1>3, <1>6
  <2>2. Chance(m)' = Chance(m) /\ Chance(m) \in {0, 1}
    BY <2>1 DEF Chance
  <2>3. IsOpen(row[m])
    BY <1>0, <1>1, <1>6, OutboundAssumption DEF IInv, CallsFit
  <2>4. RowChance(m) = 1
    BY <1>1, <1>6, <2>3 DEF RowChance
  <2>5. \/ copies'[m] = copies[m] + 1 /\ RowChance(m)' = 0
        \/ copies'[m] = copies[m] /\ RowChance(m)' = 1
    BY <1>0, <1>1, <1>2, <1>6, <2>3 DEF RowChance, TextOf, TypeOK
  <2>6. QED BY <1>3, <2>2, <2>4, <2>5
<1>7. QED BY <1>4, <1>5, <1>6 DEF TextOf

(* A handler passes its chance to the row it queues or keeps it.           *)
LEMMA ReplyWithinBound ==
  ASSUME IInv, WithinBound, NEW m \in Replies, ReplyStep(m) \/ RecordingRaised(m)
  PROVE  WithinBound'
<1>0. TypeOK /\ TypeOK' /\ m \in Callers /\ m # Worker /\ Worker \in Callers
  BY ReplyStepKeeps, OutboundAssumption DEF IInv, Callers
<1>1. /\ AtRest("done").pc = "done"
      /\ \A note \in Notice : Noticing(note).pc = "noticing"
  BY RestingAndNoticing DEF PC
<1>2. /\ \A d \in Callers \ {m} : call'[d] = call[d]
      /\ job' = job /\ copies' = copies
      /\ \A n \in Replies \ {m} : row'[n] = row[n]
  BY <1>0
     DEF ReplyStep, RefuseReply, StartReply, BeginSend, ReplySent, QueueReply,
         AbandonReply, TellSender, RecordingRaised, db, worker, world, TypeOK
<1>3. ASSUME NEW n \in Replies \ {m}
      PROVE  Chance(n)' = Chance(n) /\ RowChance(n)' = RowChance(n)
  BY <1>0, <1>2, <1>3 DEF Chance, RowChance, Callers
<1>4. /\ copies[m] \in Nat
      /\ \A n \in Replies : /\ copies[n] \in Nat
                            /\ Chance(n) \in {0, 1} /\ RowChance(n) \in {0, 1}
  BY <1>0 DEF TypeOK, Chance, RowChance
<1>5. ASSUME faults' = faults,
             Chance(m)' + RowChance(m)' <= Chance(m) + RowChance(m)
      PROVE  WithinBound'
  <2> SUFFICES ASSUME NEW n \in Replies
               PROVE  copies'[n] + Chance(n)' + RowChance(n)'
                        <= copies[n] + Chance(n) + RowChance(n)
    BY <1>0, <1>5, NothingGained
  <2>1. Chance(m)' \in {0, 1} /\ RowChance(m)' \in {0, 1}
    BY DEF Chance, RowChance
  <2>2. CASE n = m
    BY <1>2, <1>4, <1>5, <2>1, <2>2
  <2>3. CASE n # m
    BY <1>2, <1>3, <1>4, <2>3
  <2>4. QED BY <2>2, <2>3
<1>6. CASE RefuseReply(m) \/ ReplySent(m) \/ AbandonReply(m) \/ TellSender(m)
  <2>1. /\ call'[m].pc \in {"done", "noticing"} /\ row' = row /\ faults' = faults
    BY <1>0, <1>1, <1>6
       DEF RefuseReply, ReplySent, AbandonReply, TellSender, TypeOK, db, budget, Notice
  <2>2. Chance(m)' = 0 /\ RowChance(m)' = RowChance(m)
    BY <1>0, <1>2, <2>1 DEF Chance, CanSend, RowChance
  <2>3. QED BY <1>4, <1>5, <2>1, <2>2
<1>7. CASE StartReply(m)
  <2>1. call[m].pc = "new" /\ row' = row /\ faults' = faults
    BY <1>7 DEF StartReply, db, budget
  <2>2. Chance(m) = 1 /\ Chance(m)' \in {0, 1} /\ RowChance(m)' = RowChance(m)
    BY <1>0, <1>2, <2>1 DEF Chance, CanSend, RowChance
  <2>3. QED BY <1>4, <1>5, <2>1, <2>2
<1>8. CASE QueueReply(m)
  <2>1. /\ call[m].pc = "failed" /\ call'[m].pc = "noticing" /\ faults' = faults
    BY <1>0, <1>1, <1>8 DEF QueueReply, TypeOK, budget, Notice
  <2>2. Chance(m) = 1 /\ Chance(m)' = 0 /\ RowChance(m)' \in {0, 1}
    BY <2>1 DEF Chance, CanSend, RowChance
  <2>3. QED BY <1>4, <1>5, <2>1, <2>2
<1>9. CASE RecordingRaised(m)
  <2>1. /\ call'[m].pc = "done" /\ row' = row /\ faults' = faults + 1
    BY <1>0, <1>1, <1>9 DEF RecordingRaised, TypeOK, db
  <2>2. Chance(m)' = 0 /\ RowChance(m)' = RowChance(m)
    BY <1>0, <1>2, <2>1 DEF Chance, CanSend, RowChance
  <2> SUFFICES ASSUME NEW n \in Replies PROVE Spent(n)' <= 1 + 2 * (faults + 1)
    BY <2>1 DEF WithinBound
  <2>3. Spent(n) <= 1 + 2 * faults /\ faults \in Nat
    BY <1>0, SpentType DEF WithinBound
  <2>4. Chance(n)' = Chance(n) \/ Chance(n)' = 0
    BY <1>3, <2>2
  <2>5. RowChance(n)' = RowChance(n)
    BY <1>3, <2>2
  <2>6. QED BY <1>2, <1>4, <2>3, <2>4, <2>5 DEF Spent
<1>10. QED
  BY <1>6, <1>7, <1>8, <1>9 DEF ReplyStep

(* The worker spends the chance of its row.                                *)
LEMMA WorkerWithinBound ==
  ASSUME IInv, WithinBound, Poll \/ (\E m \in Replies : LeaseJob(m)) \/ JobStep
  PROVE  WithinBound'
<1>0. /\ TypeOK /\ TypeOK' /\ Worker \in Callers /\ Worker \notin Replies
      /\ None \notin Replies /\ UNCHANGED <<copies, faults>>
  BY WorkerStepKeeps, OutboundAssumption
     DEF IInv, Callers, Poll, LeaseJob, JobStep, ExpireJob, StartJob, JobSent,
         RetryJob, GiveUpJob, TellAboutJob, world, budget
<1>1. \A n \in Replies : call'[n] = call[n]
  BY <1>0
     DEF Poll, LeaseJob, JobStep, ExpireJob, StartJob, BeginSend, JobSent, RetryJob,
         GiveUpJob, TellAboutJob, TypeOK, Callers
<1>2. \A n \in Replies : /\ copies[n] \in Nat /\ RowChance(n) \in {0, 1}
                         /\ Chance(n) \in {0, 1} /\ Chance(n)' = Chance(n)
  BY <1>0, <1>1 DEF TypeOK, Chance, RowChance
<1>3. ASSUME \A n \in Replies : RowChance(n)' <= RowChance(n)
      PROVE  WithinBound'
  <2>1. \A n \in Replies : RowChance(n)' \in {0, 1}
    BY DEF RowChance
  <2>2. \A n \in Replies : copies'[n] + Chance(n)' + RowChance(n)'
                             <= copies[n] + Chance(n) + RowChance(n)
    BY <1>0, <1>2, <1>3, <2>1
  <2>3. QED BY <1>0, <2>2, NothingGained
<1>4. ASSUME \A n \in Replies : IsOpen(row'[n]) =>
               /\ IsOpen(row[n])
               /\ job = n /\ call[Worker].pc = "sent" =>
                    job' = n /\ call'[Worker].pc = "sent"
      PROVE  WithinBound'
  BY <1>3, <1>4 DEF RowChance
<1>5. CASE Poll
  BY <1>4, <1>5 DEF Poll, db
<1>6. ASSUME NEW m \in Replies, LeaseJob(m) PROVE WithinBound'
  <2>1. call[Worker].pc = "idle"
    BY <1>6 DEF LeaseJob
  <2>2. \A n \in Replies : IsOpen(row'[n]) => IsOpen(row[n])
    BY <1>0, <1>6 DEF LeaseJob, CanLease, TypeOK
  <2>3. QED BY <1>4, <2>1, <2>2
<1>7. ASSUME call[Worker].pc # "idle" PROVE job \in Replies /\ row[job] \in Row
  BY <1>0, <1>7 DEF IInv, CallsFit, TypeOK
<1>8. CASE ExpireJob \/ RetryJob \/ GiveUpJob
  <2>1. /\ call[Worker].pc \in {"leased", "failed"} /\ IsOpen(row[job])
        /\ \A n \in Replies \ {job} : row'[n] = row[n]
    BY <1>0, <1>8 DEF ExpireJob, RetryJob, GiveUpJob, TypeOK, IInv, CallsFit
  <2>2. QED BY <1>4, <2>1
<1>9. CASE StartJob \/ TellAboutJob
  BY <1>4, <1>9 DEF StartJob, TellAboutJob, db
<1>10. CASE JobSent
  <2>1. ~IsOpen(Delivered(row[job]))
    BY <1>7, <1>10 DEF JobSent, IsOpen, OpenStatus, Delivered, Row
  <2>2. /\ ~IsOpen(row'[job]) /\ \A n \in Replies \ {job} : row'[n] = row[n]
    BY <1>0, <1>7, <1>10, <2>1 DEF JobSent, TypeOK
  <2>3. QED BY <1>4, <2>2
<1>11. QED BY <1>5, <1>6, <1>8, <1>9, <1>10 DEF JobStep

(* A crash gives back no more than its fault allows.                       *)
LEMMA EnvironmentWithinBound ==
  ASSUME IInv, WithinBound, Tick \/ Connect \/ Drop \/ Crash
  PROVE  WithinBound'
<1>0. TypeOK /\ TypeOK'
  BY EnvironmentKeeps DEF IInv
<1> SUFFICES ASSUME NEW m \in Replies PROVE Spent(m)' <= 1 + 2 * faults'
  BY DEF WithinBound
<1>1. Spent(m) <= 1 + 2 * faults
  BY DEF WithinBound
<1>2. CASE Tick
  <2>1. row'[m].status = row[m].status
    BY <1>0, <1>2 DEF Tick, TypeOK, Aged, Row
  <2>2. UNCHANGED <<call, job, copies, faults>>
    BY <1>2 DEF Tick, worker, world, budget
  <2>3. QED BY <1>1, <2>1, <2>2 DEF Spent, Chance, RowChance, IsOpen
<1>3. CASE Connect \/ Drop
  <2>1. UNCHANGED <<row, call, job, copies, faults>>
    BY <1>3 DEF Connect, Drop, db, worker, world, budget
  <2>2. QED BY <1>1, <2>1 DEF Spent, Chance, RowChance
<1>4. CASE Crash
  <2>1. /\ Chance(m)' \in {0, 1} /\ RowChance(m)' \in {0, 1}
        /\ faults' = faults + 1 /\ copies' = copies
    BY <1>4 DEF Crash, Chance, RowChance, world
  <2>2. QED BY <1>0, <1>1, <2>1, SpentType DEF Spent
<1>5. QED BY <1>2, <1>3, <1>4

(* MAX takes a text once, and each crash or failed transaction costs at    *)
(* most two further copies of it, when MAX answers every send: one by the  *)
(* update that Telegram sends again, one by the row that is leased again.  *)
THEOREM CopiesAreBounded == Spec => []BoundedCopies
<1> DEFINE BInv == IInv /\ (~LoseReplies => WithinBound)
<1>1. Init => BInv
  <2> SUFFICES ASSUME Init, NEW m \in Replies PROVE Spent(m) <= 1 + 2 * faults
    BY InitIInv DEF WithinBound
  <2>1. copies[m] = 0 /\ RowChance(m) = 0 /\ Chance(m) \in {0, 1} /\ faults = 0
    BY DEF Init, Chance, RowChance, IsOpen, OpenStatus, NoRow
  <2>2. QED BY <2>1 DEF Spent
<1>2. BInv /\ [Next]_vars => BInv'
  <2> SUFFICES ASSUME BInv, [Next]_vars, ~LoseReplies PROVE WithinBound'
    BY NextIInv
  <2>1. CASE UNCHANGED vars
    BY <2>1 DEF vars, db, worker, world, budget, WithinBound, Spent, Chance, RowChance
  <2>2. CASE Next
    BY <2>2, SendWithinBound, ReplyWithinBound, WorkerWithinBound,
       EnvironmentWithinBound DEF Next
  <2>3. QED BY <2>1, <2>2
<1>3. BInv => BoundedCopies
  <2> SUFFICES ASSUME BInv, ~LoseReplies, NEW m \in Replies
               PROVE  copies[m] <= 1 + 2 * faults
    BY DEF BoundedCopies
  <2>1. Spent(m) <= 1 + 2 * faults
    BY DEF WithinBound
  <2>2. QED BY <2>1, SpentType DEF IInv, Spent
<1>4. QED BY <1>1, <1>2, <1>3, PTL DEF Spec

-----------------------------------------------------------------------------
(* The contract                                                            *)

Over == {"noticing", "done"}

(* What decides a reply's fate.                                            *)
SameFate(m) ==
  /\ row'[m].status = row[m].status
  /\ m \in mapped' <=> m \in mapped
  /\ call'[m].pc \in Over <=> call[m].pc \in Over

FateValue(m) ==
  IF m \in mapped THEN "delivered"
  ELSE IF IsOpen(row[m]) THEN "queued"
  ELSE IF row[m].status = "failed" \/ call[m].pc \in Over THEN "dropped"
  ELSE "offered"

(* The mapped variable, reply by reply, now and in the next state.         *)
LEMMA FateIs ==
  /\ Fate = [m \in Replies |-> FateValue(m)]
  /\ \A m \in Replies : Fate[m] = FateValue(m)
  /\ Fate' = [m \in Replies |-> FateValue(m)']
<1> DEFINE Case(m) ==
       CASE m \in mapped -> "delivered"
         [] m \notin mapped /\ IsOpen(row[m]) -> "queued"
         [] m \notin mapped /\ ~IsOpen(row[m]) /\
              (row[m].status = "failed" \/ call[m].pc \in {"noticing", "done"})
              -> "dropped"
         [] OTHER -> "offered"
<1>1. \A m \in Replies : Case(m) = FateValue(m)
  BY DEF FateValue, Over
<1>2. \A m \in Replies : Case(m)' = FateValue(m)'
  BY DEF FateValue, Over
<1>3. Fate = [m \in Replies |-> Case(m)] /\ Fate' = [m \in Replies |-> Case(m)']
  BY DEF Fate
<1> HIDE DEF Case
<1>4. QED BY <1>1, <1>2, <1>3

(* A step that touches one reply keeps the contract if it keeps it for     *)
(* that reply.                                                             *)
LEMMA OneFate ==
  ASSUME NEW m \in Replies,
         \A n \in Replies \ {m} : SameFate(n),
         \/ FateValue(m)' = FateValue(m)
         \/ /\ FateValue(m) = "offered"
            /\ FateValue(m)' \in {"queued", "delivered", "dropped"}
         \/ /\ FateValue(m) = "queued"
            /\ FateValue(m)' \in {"delivered", "dropped"}
  PROVE  Contract!Next \/ UNCHANGED Fate
<1>1. \A n \in Replies : n # m => FateValue(n)' = FateValue(n)
  BY DEF SameFate, FateValue, IsOpen
<1>2. Fate' = [n \in Replies |-> FateValue(n)']
  BY FateIs
<1>3. CASE FateValue(m)' = FateValue(m)
  <2>1. \A n \in Replies : FateValue(n)' = FateValue(n)
    BY <1>1, <1>3
  <2>2. QED BY <1>2, <2>1, FateIs
<1>4. CASE FateValue(m)' # FateValue(m)
  <2>1. Fate' = [Fate EXCEPT ![m] = FateValue(m)']
    BY <1>1, <1>2, FateIs
  <2>2. Contract!Queue(m) \/ Contract!Deliver(m) \/ Contract!Drop(m)
    BY <1>4, <2>1, FateIs
       DEF Contract!Queue, Contract!Deliver, Contract!Drop, Contract!Becomes
  <2>3. QED BY <2>2 DEF Contract!Next
<1>5. QED BY <1>3, <1>4

(* Fate is unchanged if no reply's fate is.                                *)
LEMMA FateStays ==
  ASSUME \A n \in Replies : SameFate(n) PROVE UNCHANGED Fate
<1>1. \A n \in Replies : FateValue(n)' = FateValue(n)
  BY DEF SameFate, FateValue, IsOpen
<1>2. Fate' = [n \in Replies |-> FateValue(n)']
  BY FateIs
<1>3. QED BY <1>1, <1>2, FateIs

(* A handler's step is a step of the contract or a stutter ...             *)
LEMMA ReplyKeepsContract ==
  ASSUME HInv, NEW m \in Replies, ReplyStep(m), faults' = 0
  PROVE  Contract!Next \/ UNCHANGED Fate
<1>0. TypeOK /\ m \in Callers /\ m # Worker
  BY OutboundAssumption DEF HInv, IInv, Callers
<1>1. /\ AtRest("done").pc = "done"
      /\ \A note \in Notice : Noticing(note).pc = "noticing"
  BY RestingAndNoticing DEF PC
<1>2. /\ \A n \in Replies \ {m} : SameFate(n)
      /\ faults = 0
  BY <1>0
     DEF ReplyStep, RefuseReply, StartReply, BeginSend, ReplySent, QueueReply,
         AbandonReply, TellSender, SameFate, db, budget, TypeOK, Callers
<1>3. call[m].pc \notin Over =>
        FateValue(m) = IF m \in mapped THEN "delivered" ELSE "offered"
  BY <1>2 DEF HInv, HandOver, Over, FateValue, IsOpen, OpenStatus
<1>4. CASE RefuseReply(m) \/ AbandonReply(m)
  <2>1. /\ call[m].pc \notin Over /\ call'[m].pc \in Over /\ UNCHANGED <<row, mapped>>
    BY <1>0, <1>1, <1>4 DEF RefuseReply, AbandonReply, Over, db, TypeOK, Notice
  <2>2. row[m].status = "absent"
    BY <1>2, <2>1 DEF HInv, HandOver, Over
  <2>3. FateValue(m)' = IF m \in mapped THEN "delivered" ELSE "dropped"
    BY <2>1, <2>2 DEF FateValue, IsOpen, OpenStatus
  <2>4. QED BY <1>2, <1>3, <2>1, <2>3, OneFate
<1>5. CASE StartReply(m)
  <2>1. /\ call[m].pc \notin Over /\ call'[m].pc \notin Over
        /\ UNCHANGED <<row, mapped>>
    <3>1. call'[m].pc \in {"trying", "waiting"}
      BY <1>0, <1>5, BeginSendType DEF StartReply
    <3>2. QED BY <1>5, <3>1 DEF StartReply, Over, db
  <2>2. SameFate(m)
    BY <2>1 DEF SameFate
  <2>3. QED BY <1>2, <2>2, FateStays
<1>6. CASE ReplySent(m)
  <2>1. call[m].pc \notin Over /\ FateValue(m)' = "delivered"
    BY <1>6 DEF ReplySent, Over, FateValue
  <2>2. QED BY <1>2, <1>3, <2>1, OneFate
<1>7. CASE QueueReply(m)
  <2>1. /\ call[m].pc \notin Over /\ UNCHANGED mapped
        /\ row'[m] = Enqueued(row[m], GreaterOf(call[m].tries, 1))
    BY <1>0, <1>7 DEF QueueReply, Over, TypeOK
  <2>2. row[m].status = "absent"
    BY <1>2, <2>1 DEF HInv, HandOver, Over
  <2>3. IsOpen(row'[m])
    BY <2>1, <2>2 DEF Enqueued, IsOpen, OpenStatus
  <2>4. FateValue(m)' = IF m \in mapped THEN "delivered" ELSE "queued"
    BY <2>1, <2>3 DEF FateValue
  <2>5. QED BY <1>2, <1>3, <2>1, <2>4, OneFate
<1>8. CASE TellSender(m)
  <2>1. SameFate(m)
    BY <1>0, <1>1, <1>8 DEF TellSender, SameFate, Over, db, TypeOK
  <2>2. QED BY <1>2, <2>1, FateStays
<1>9. QED BY <1>4, <1>5, <1>6, <1>7, <1>8 DEF ReplyStep

(* ... and so is a step of the worker.                                     *)
LEMMA WorkerKeepsContract ==
  ASSUME IInv, Poll \/ (\E m \in Replies : LeaseJob(m)) \/ JobStep
  PROVE  Contract!Next \/ UNCHANGED Fate
<1>0. TypeOK
  BY DEF IInv
<1>1. \A n \in Replies : call'[n] = call[n]
  BY <1>0, OutboundAssumption
     DEF Poll, LeaseJob, JobStep, ExpireJob, StartJob, BeginSend, JobSent, RetryJob,
         GiveUpJob, TellAboutJob, TypeOK, Callers
<1>2. CASE Poll \/ StartJob \/ TellAboutJob
  BY <1>1, <1>2, FateStays DEF Poll, StartJob, TellAboutJob, db, SameFate
<1>3. ASSUME NEW m \in Replies, IsOpen(row[m]),
             NEW new, row' = [row EXCEPT ![m] = new],
             \/ IsOpen(new) /\ UNCHANGED mapped
             \/ new.status = "failed" /\ UNCHANGED mapped
             \/ mapped' = mapped \cup {m}
      PROVE  Contract!Next \/ UNCHANGED Fate
  <2>1. row'[m] = new /\ \A n \in Replies \ {m} : SameFate(n)
    BY <1>0, <1>1, <1>3 DEF SameFate, TypeOK
  <2>2. FateValue(m) = IF m \in mapped THEN "delivered" ELSE "queued"
    BY <1>3 DEF FateValue
  <2>3. \/ FateValue(m)' = "delivered"
        \/ /\ FateValue(m)' \in {"queued", "dropped"}
           /\ m \notin mapped
    BY <1>3, <2>1 DEF FateValue
  <2>4. FateValue(m) = "delivered" => FateValue(m)' = "delivered"
    BY <1>3, <2>2 DEF FateValue
  <2>5. QED BY <2>1, <2>2, <2>3, <2>4, OneFate
<1>4. ASSUME NEW m \in Replies, LeaseJob(m)
      PROVE  Contract!Next \/ UNCHANGED Fate
  <2>1. CASE CanLease(row[m])
    <3>1. row[m] \in Row /\ IsOpen(row[m])
      BY <1>0, <2>1 DEF CanLease, TypeOK
    <3>2. IsOpen(Leased(row[m]))
      BY <3>1 DEF Leased, Row, IsOpen, OpenStatus
    <3>3. QED BY <1>3, <1>4, <2>1, <3>1, <3>2 DEF LeaseJob
  <2>2. CASE ~CanLease(row[m])
    BY <1>1, <1>4, <2>2, FateStays DEF LeaseJob, SameFate
  <2>3. QED BY <2>1, <2>2
<1>5. ASSUME call[Worker].pc \notin {"idle", "noticing"}
      PROVE  /\ job \in Replies /\ row[job] \in Row /\ IsOpen(row[job])
             /\ Failed(row[job]).status = "failed"
  <2>1. job \in Replies /\ row[job] \in Row /\ IsOpen(row[job])
    BY <1>5 DEF IInv, CallsFit, TypeOK
  <2>2. QED BY <2>1 DEF Failed, Row
<1>6. CASE ExpireJob \/ GiveUpJob
  BY <1>3, <1>5, <1>6 DEF ExpireJob, GiveUpJob
<1>7. CASE JobSent
  BY <1>3, <1>5, <1>7 DEF JobSent
<1>8. CASE RetryJob
  <2>1. job \in Replies /\ row[job] \in Row /\ IsOpen(row[job])
    BY <1>5, <1>8 DEF RetryJob
  <2>2. IsOpen(Retried(row[job], NextDelay(snap[job])))
    BY <2>1 DEF Retried, IsOpen, OpenStatus, Row
  <2>3. QED BY <1>3, <1>8, <2>1, <2>2 DEF RetryJob
<1>9. QED BY <1>2, <1>4, <1>6, <1>7, <1>8 DEF JobStep

(* Refinement: until something crashes, each step of the handlers, the     *)
(* worker and time is a step of the contract for one reply, or none: what  *)
(* is sent or given up stays so, and neither sender takes back what the    *)
(* other has settled.                                                      *)
THEOREM KeepsTheContract == Spec => OutboundContract
<1> DEFINE Kept == faults' = 0 => Contract!Next \/ UNCHANGED Fate
<1>1. Init => Contract!Init
  <2> SUFFICES ASSUME Init PROVE Contract!Init
    OBVIOUS
  <2>1. AtRest("new").pc = "new"
    BY RestingAndNoticing DEF PC
  <2>2. \A m \in Replies : FateValue(m) = "offered"
    BY <2>1, OutboundAssumption
       DEF Init, FateValue, NoRow, IsOpen, OpenStatus, Over, Callers
  <2>3. QED BY <2>2, FateIs DEF Contract!Init
<1>2. HInv /\ [Next]_vars => [Kept]_vars
  <2> SUFFICES ASSUME HInv, Next, faults' = 0 PROVE Contract!Next \/ UNCHANGED Fate
    OBVIOUS
  <2>1. ASSUME NEW c \in Callers, SendStep(c) PROVE UNCHANGED Fate
    <3>1. /\ UNCHANGED <<row, mapped>>
          /\ call[c].pc \in {"waiting", "trying", "pausing", "closing"}
          /\ call'[c].pc \in {"trying", "pausing", "closing", "sent", "failed"}
          /\ \A d \in Callers \ {c} : call'[d] = call[d]
      BY <2>1, SendMoves DEF HInv
    <3>2. \A m \in Replies : SameFate(m)
      BY <3>1 DEF SameFate, Over, Callers
    <3>3. QED BY <3>2, FateStays
  <2>2. CASE Tick
    <3>1. \A m \in Replies : row'[m].status = row[m].status
      BY <2>2 DEF Tick, HInv, IInv, TypeOK, Aged, Row
    <3>2. QED BY <2>2, <3>1, FateStays DEF Tick, SameFate
  <2>3. CASE Connect \/ Drop
    BY <2>3, FateStays DEF Connect, Drop, db, SameFate
  <2>4. ~Crash /\ \A m \in Replies : ~RecordingRaised(m)
    BY OutboundAssumption DEF Crash, RecordingRaised, HInv, IInv, TypeOK
  <2>5. QED
    BY <2>1, <2>2, <2>3, <2>4, ReplyKeepsContract, WorkerKeepsContract
       DEF Next, HInv
<1>3. QED BY <1>1, <1>2, AlwaysHInv, PTL DEF Spec, OutboundContract
===============================================================================
