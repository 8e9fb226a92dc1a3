------------------------ MODULE InboundDelivery_proofs ------------------------
(* MAX -> TG, for every set of messages, every number of attempts and      *)
(* faults and every timing: how often a message is posted, that none is    *)
(* forgotten, and that handlers and worker keep the contract of a text.    *)
EXTENDS InboundDelivery, TLAPS

-----------------------------------------------------------------------------
(* What the statements of the queue do to one row.                         *)

(* Counting an attempt stays within the cap.                               *)
LEMMA CapAttemptsType ==
  ASSUME NEW n \in Nat PROVE CapAttempts(n) \in 0..AttemptCap
  BY QueueAssumption DEF CapAttempts

(* The backoff of any snapshot of a row is a backoff.                      *)
LEMMA NextDelayType ==
  ASSUME NEW n \in Nat PROVE NextDelay(n) \in 0..MaxDelay
<1>1. CapAttempts(n + 1) \in 1..AttemptCap
  BY QueueAssumption DEF CapAttempts
<1>2. QED BY <1>1, QueueAssumption DEF NextDelay

(* Every statement turns a row into a row.                                 *)
LEMMA ZeroType == 0 \in 0..(Lease + 1) /\ 0 \in 0..MaxDelay /\ 0 \in 0..AttemptCap
  BY QueueAssumption

(* Each statement maps rows to rows: no row yet,                           *)
LEMMA NoRowType == NoRow \in Row
<1>1. "absent" \in Status /\ 0 \in 0..Ttl
  BY QueueAssumption DEF Status
<1>2. QED BY <1>1, ZeroType DEF NoRow, Row

(* the upsert,                                                             *)
LEMMA EnqueuedType ==
  ASSUME NEW r \in Row, NEW n \in Nat PROVE Enqueued(r, n) \in Row
<1>1. CapAttempts(n) \in 0..AttemptCap
  BY CapAttemptsType
<1>2. GreaterOf(r.attempts, CapAttempts(n)) \in 0..AttemptCap
  BY <1>1 DEF GreaterOf, Row
<1>3. "pending" \in Status /\ r.age \in 0..Ttl /\ TRUE \in BOOLEAN
  BY DEF Status, OpenStatus, Row
<1>4. QED BY <1>2, <1>3, ZeroType DEF Enqueued, Row

(* the lease,                                                              *)
LEMMA LeasedType ==
  ASSUME NEW r \in Row PROVE Leased(r) \in Row
<1>1. Lease + 1 \in 0..(Lease + 1)
  BY QueueAssumption
<1>2. "leased" \in Status
  BY DEF Status, OpenStatus
<1>3. QED BY <1>1, <1>2 DEF Leased, Row

(* the two ends,                                                           *)
LEMMA ClosedType ==
  ASSUME NEW r \in Row PROVE Delivered(r) \in Row /\ Failed(r) \in Row
<1>1. CapAttempts(r.attempts + 1) \in 0..AttemptCap
  BY QueueAssumption DEF Row, CapAttempts
<1>2. {"delivered", "failed"} \subseteq Status
  BY DEF Status
<1>3. Delivered(r) \in Row
  BY <1>1, <1>2, ZeroType DEF Delivered, Row
<1>4. Failed(r) \in Row
  BY <1>1, <1>2, ZeroType DEF Failed, Row
<1>5. QED BY <1>3, <1>4

(* a retry,                                                                *)
LEMMA RetriedType ==
  ASSUME NEW r \in Row, NEW d \in 0..MaxDelay PROVE Retried(r, d) \in Row
<1>1. CapAttempts(r.attempts + 1) \in 0..AttemptCap
  BY QueueAssumption DEF Row, CapAttempts
<1>2. "retry" \in Status
  BY DEF Status, OpenStatus
<1>3. QED BY <1>1, <1>2, ZeroType DEF Retried, Row

(* and a second that passes.                                               *)
LEMMA AgedType ==
  ASSUME NEW r \in Row PROVE Aged(r) \in Row
<1>1. OneLess(r.wait) \in 0..MaxDelay /\ OneLess(r.lease) \in 0..(Lease + 1)
  BY QueueAssumption DEF OneLess, Row
<1>2. (IF r.age < Ttl THEN r.age + 1 ELSE r.age) \in 0..Ttl
  BY QueueAssumption DEF Row
<1>3. QED BY <1>1, <1>2 DEF Aged, Row

-----------------------------------------------------------------------------
(* The inductive invariant                                                 *)

(* The worker has a job exactly when it is busy, and the job's row is open *)
(* until the worker closes it itself: a handler can only reopen a row.     *)
WorkerFits ==
  /\ worker = "idle" <=> job = None
  /\ job # None => IsOpen(row[job])

(* The sweep never touches a message it may not replay.                    *)
SweepKeepsOff == \A m \in Messages \ Swept : At(m, Sweep, "idle")

(* A message without a key has left no trace, and no call has passed the   *)
(* statement that writes the key.                                          *)
BeforeKey == {"idle", "checking", "accepted"}

Untouched(m) ==
  /\ row[m].status = "absent"
  /\ m \notin mapped
  /\ logged[m] = "none"

UnkeyedIsNew ==
  \A m \in Messages \ keyed :
    /\ Untouched(m)
    /\ copies[m] = 0
    /\ \A o \in Origins : handler[m][o] \in BeforeKey

(* What no sweep replays is handled once: nothing is recorded of it while  *)
(* its only call is past the duplicate check.                              *)
HandledOnce ==
  \A m \in Messages \ Swept :
    handler[m][Live] \notin {"idle", "checking"} => Untouched(m)

IInv == TypeOK /\ WorkerFits /\ SweepKeepsOff /\ UnkeyedIsNew /\ HandledOnce

-----------------------------------------------------------------------------
(* Steps                                                                   *)

(* A handler step moves the program counter of one call and no other.      *)
LEMMA GotoMoves ==
  ASSUME TypeOK, NEW m \in Messages, NEW o \in Origins, NEW pc \in HandlerPC,
         Goto(m, o, pc)
  PROVE  /\ handler' \in [Messages -> [Origins -> HandlerPC]]
         /\ handler'[m][o] = pc
         /\ \A n \in Messages, p \in Origins :
              n # m \/ p # o => handler'[n][p] = handler[n][p]
  BY DEF TypeOK, Goto

(* A step of a call moves that call and nothing else that is not its       *)
(* message's; only QueueText touches the row, and it opens it.             *)
LEMMA CallMoves ==
  ASSUME TypeOK, NEW m \in Messages, NEW o \in Origins,
         Arrive(m, o) \/ HandlerStep(m, o) \/ RecordingRaised(m, o)
  PROVE  /\ TypeOK'
         /\ UNCHANGED <<worker, queue>>
         /\ handler' \in [Messages -> [Origins -> HandlerPC]]
         /\ \A n \in Messages, p \in Origins :
              n # m \/ p # o => handler'[n][p] = handler[n][p]
         /\ \A n \in Messages \ {m} :
              /\ row'[n] = row[n]
              /\ logged'[n] = logged[n]
              /\ n \in mapped' <=> n \in mapped
              /\ n \in keyed' <=> n \in keyed
              /\ copies'[n] = copies[n]
<1> USE DEF TypeOK
<1>1. CASE Arrive(m, o) \/ CheckDuplicate(m, o) \/ Routed(m, o)
  BY <1>1, GotoMoves
     DEF Arrive, CheckDuplicate, Routed, HandlerPC, db, queue
<1>2. CASE SaveKey(m, o)
  BY <1>2, GotoMoves DEF SaveKey, HandlerPC, queue
<1>3. CASE NoTopic(m, o) \/ ChatDisabled(m, o) \/ LogFailure(m, o)
  <2>1. PICK status \in LogStatus : logged' = [logged EXCEPT ![m] = status]
    BY <1>3 DEF NoTopic, ChatDisabled, LogFailure, LogStatus
  <2>2. Goto(m, o, "idle")
    BY <1>3 DEF NoTopic, ChatDisabled, LogFailure
  <2>3. UNCHANGED <<row, keyed, mapped, worker, batch, snap, job, copies,
                    faults>>
    BY <1>3 DEF NoTopic, ChatDisabled, LogFailure, queue
  <2>4. QED BY <2>1, <2>2, <2>3, GotoMoves DEF HandlerPC, queue
<1>4. CASE Forward(m, o)
  <2>1. PICK answer \in Answers, n \in 0..SendAttempts :
          Posted(m, answer, n) /\ Goto(m, o, answer)
    BY <1>4 DEF Forward
  <2>2. answer \in HandlerPC /\ n \in Nat
    BY InboundAssumption DEF Answers, HandlerPC
  <2>3. /\ copies' \in [Messages -> Nat]
        /\ \A k \in Messages \ {m} : copies'[k] = copies[k]
    BY <2>1, <2>2 DEF Posted
  <2>4. QED BY <1>4, <2>1, <2>2, <2>3, GotoMoves DEF Forward, db, queue
<1>5. CASE RecordForwarded(m, o)
  BY <1>5, GotoMoves DEF RecordForwarded, HandlerPC, LogStatus, queue
<1>6. CASE QueueText(m, o)
  <2>1. Enqueued(row[m], 1) \in Row
    BY EnqueuedType
  <2>2. QED BY <1>6, <2>1, GotoMoves DEF QueueText, HandlerPC, LogStatus, queue
<1>7. CASE RecordingRaised(m, o)
  BY <1>7, GotoMoves, InboundAssumption
     DEF RecordingRaised, HandlerPC, db, queue
<1>8. QED BY <1>1, <1>2, <1>3, <1>4, <1>5, <1>6, <1>7 DEF HandlerStep

(* What a step must do to its own message for the invariant to hold.       *)
LEMMA CallKeeps ==
  ASSUME IInv, NEW m \in Messages, NEW o \in Origins,
         Arrive(m, o) \/ HandlerStep(m, o) \/ RecordingRaised(m, o),
         NEW pc \in HandlerPC, Goto(m, o, pc),
         o = Sweep => m \in Swept,
         IsOpen(row[m]) => IsOpen(row'[m]),
         m \in keyed' \/ (Untouched(m)' /\ copies'[m] = 0 /\ pc \in BeforeKey),
         m \in keyed => m \in keyed',
         pc \in {"idle", "checking"} \/ m \in Swept \/ Untouched(m)'
  PROVE  IInv'
<1> USE DEF IInv
<1>1. TypeOK' /\ UNCHANGED <<worker, job>>
  BY CallMoves DEF queue
<1>2. handler'[m][o] = pc
  BY GotoMoves
<1>3. \A n \in Messages, p \in Origins :
        n # m \/ p # o => handler'[n][p] = handler[n][p]
  BY CallMoves
<1>4. \A n \in Messages \ {m} :
        /\ row'[n] = row[n] /\ copies'[n] = copies[n]
        /\ n \in keyed' <=> n \in keyed
        /\ Untouched(n)' = Untouched(n)
  BY CallMoves DEF Untouched
<1>5. WorkerFits'
  BY <1>1, <1>4 DEF WorkerFits, TypeOK, IsOpen
<1>6. SweepKeepsOff'
  BY <1>3 DEF SweepKeepsOff, At, Origins
<1>7. UnkeyedIsNew'
  BY <1>2, <1>3, <1>4 DEF UnkeyedIsNew
<1>8. HandledOnce'
  BY <1>2, <1>3, <1>4, InboundAssumption DEF HandledOnce, Origins
<1>9. QED BY <1>1, <1>5, <1>6, <1>7, <1>8

(* A call past the key has its key, and is the sweep's only if it may be.  *)
LEMMA InHandIsKeyed ==
  ASSUME IInv, NEW m \in Messages, NEW o \in Origins,
         handler[m][o] \notin BeforeKey
  PROVE  /\ m \in keyed
         /\ m \in Swept \/ Untouched(m)
         /\ o = Sweep => m \in Swept
  BY DEF IInv, UnkeyedIsNew, HandledOnce, SweepKeepsOff, Origins, BeforeKey, At

(* The steps of handle_max_message, of a live event or the sweep.          *)
LEMMA CallStepKeeps ==
  ASSUME IInv, NEW m \in Messages, NEW o \in Origins,
         Arrive(m, o) \/ HandlerStep(m, o) \/ RecordingRaised(m, o)
  PROVE  IInv'
<1>0. {"idle", "checking", "accepted", "keyed", "routed", "sent", "retryable",
       "refused"} = HandlerPC
  BY DEF HandlerPC
<1>1. ASSUME handler[m][o] \notin BeforeKey, keyed \subseteq keyed',
             IsOpen(row[m]) => IsOpen(row'[m]),
             NEW pc \in HandlerPC, Goto(m, o, pc),
             pc = "idle" \/ UNCHANGED <<row, mapped, logged>>
      PROVE  IInv'
  <2>1. m \in keyed /\ (m \in Swept \/ Untouched(m)) /\ (o = Sweep => m \in Swept)
    BY <1>1, InHandIsKeyed
  <2>2. m \in keyed'
    BY <1>1, <2>1
  <2>3. pc \in {"idle", "checking"} \/ m \in Swept \/ Untouched(m)'
    BY <1>1, <2>1 DEF Untouched
  <2>4. QED BY <1>1, <2>1, <2>2, <2>3, CallKeeps
<1>2. CASE Arrive(m, o)
  <2>1. o = Sweep => m \in Swept
    BY <1>2 DEF Arrive
  <2>2. "checking" \in HandlerPC /\ "checking" \in BeforeKey
    BY <1>0 DEF BeforeKey
  <2>3. m \in keyed \/ (Untouched(m) /\ copies[m] = 0)
    BY DEF IInv, UnkeyedIsNew
  <2>4. QED BY <1>2, <2>1, <2>2, <2>3, CallKeeps DEF Arrive, db, Untouched
<1>3. CASE CheckDuplicate(m, o)
  <2>1. PICK pc \in {"idle", "accepted"} :
          Goto(m, o, pc) /\ (pc = "accepted" => m \notin keyed)
    BY <1>3 DEF CheckDuplicate
  <2>2. pc \in HandlerPC /\ pc \in BeforeKey
    BY <1>0 DEF BeforeKey
  <2>3. m \in keyed \/ (Untouched(m) /\ copies[m] = 0)
    BY DEF IInv, UnkeyedIsNew
  <2>4. UNCHANGED <<row, keyed, mapped, logged, copies>>
    BY <1>3 DEF CheckDuplicate, db
  <2>5. o = Sweep => m \in Swept
    BY <1>3 DEF CheckDuplicate, SweepKeepsOff, At, IInv
  <2>6. /\ IsOpen(row[m]) => IsOpen(row'[m])
        /\ m \in keyed' \/ (Untouched(m)' /\ copies'[m] = 0 /\ pc \in BeforeKey)
        /\ m \in keyed => m \in keyed'
        /\ pc \in {"idle", "checking"} \/ m \in Swept \/ Untouched(m)'
    BY <2>1, <2>2, <2>3, <2>4 DEF Untouched
  <2>7. QED BY <1>3, <2>1, <2>2, <2>5, <2>6, CallKeeps
<1>4. CASE SaveKey(m, o)
  <2>1. Goto(m, o, "keyed") /\ UNCHANGED <<row, mapped, logged>> /\ m \in keyed'
        /\ keyed \subseteq keyed'
    BY <1>4 DEF SaveKey
  <2>2. m \in Swept \/ Untouched(m)
    BY <1>4 DEF SaveKey, HandledOnce, SweepKeepsOff, At, Origins, IInv
  <2>3. o = Sweep => m \in Swept
    BY <1>4 DEF SaveKey, SweepKeepsOff, At, IInv
  <2>4. QED BY <1>0, <1>4, <2>1, <2>2, <2>3, CallKeeps DEF Untouched
<1>5. CASE NoTopic(m, o) \/ ChatDisabled(m, o) \/ LogFailure(m, o)
  BY <1>0, <1>1, <1>5 DEF NoTopic, ChatDisabled, LogFailure, At, BeforeKey
<1>6. CASE Routed(m, o)
  BY <1>0, <1>1, <1>6 DEF Routed, At, BeforeKey, db
<1>7. CASE Forward(m, o)
  <2>1. PICK answer \in Answers : Goto(m, o, answer)
    BY <1>7 DEF Forward
  <2>2. QED BY <1>0, <1>1, <1>7, <2>1 DEF Forward, At, BeforeKey, db, Answers
<1>8. CASE RecordForwarded(m, o) \/ RecordingRaised(m, o)
  BY <1>0, <1>1, <1>8 DEF RecordForwarded, RecordingRaised, At, BeforeKey, db
<1>9. CASE QueueText(m, o)
  <2>1. IsOpen(row[m]) => IsOpen(row'[m])
    BY <1>9 DEF QueueText, IInv, TypeOK, Enqueued, IsOpen, OpenStatus
  <2>2. QED BY <1>0, <1>1, <1>9, <2>1 DEF QueueText, At, BeforeKey
<1>10. QED
  BY <1>2, <1>3, <1>4, <1>5, <1>6, <1>7, <1>8, <1>9 DEF HandlerStep

-----------------------------------------------------------------------------
(* The worker                                                              *)

(* The row of the worker's job, and of a message it leases, is open, so    *)
(* its message has its key.                                                *)
LEMMA JobIsKeyed ==
  ASSUME IInv, worker # "idle"
  PROVE  /\ job \in Messages
         /\ row[job] \in Row
         /\ IsOpen(row[job])
         /\ job \in keyed
<1>1. job \in Messages /\ IsOpen(row[job])
  BY DEF IInv, TypeOK, WorkerFits
<1>2. QED BY <1>1 DEF IInv, TypeOK, UnkeyedIsNew, Untouched, IsOpen, OpenStatus

(* A statement on a row of the queue closes the row or leaves it open; the *)
(* message has a key and, if no sweep replays it, no call in hand.         *)
LEMMA RowStepKeeps ==
  ASSUME IInv, NEW m \in Messages, IsOpen(row[m]),
         NEW new \in Row, row' = [row EXCEPT ![m] = new],
         TypeOK', WorkerFits',
         UNCHANGED handler,
         keyed' \in {keyed, keyed \cup {m}},
         mapped' \in {mapped, mapped \cup {m}},
         \A n \in Messages \ {m} : logged'[n] = logged[n] /\ copies'[n] = copies[n]
  PROVE  IInv'
<1> USE DEF IInv
<1>1. m \in keyed /\ ~Untouched(m)
  BY DEF UnkeyedIsNew, Untouched, IsOpen, OpenStatus
<1>2. \A n \in Messages \ {m} :
        /\ row'[n] = row[n]
        /\ n \in keyed' <=> n \in keyed
        /\ Untouched(n)' = Untouched(n)
  BY DEF TypeOK, Untouched
<1>3. SweepKeepsOff'
  BY DEF SweepKeepsOff, At
<1>4. UnkeyedIsNew'
  BY <1>1, <1>2 DEF UnkeyedIsNew
<1>5. HandledOnce'
  BY <1>1, <1>2 DEF HandledOnce
<1>6. QED BY <1>3, <1>4, <1>5

(* The steps of the inbound retry worker.                                  *)
LEMMA WorkerStepKeeps ==
  ASSUME IInv, Poll \/ (\E m \in Messages : LeaseJob(m)) \/ JobStep
  PROVE  IInv'
<1>1. CASE Poll
  <2>1. UNCHANGED <<row, keyed, mapped, logged, handler, worker, job, copies,
                    faults>>
    BY <1>1 DEF Poll, db
  <2>2. batch' \subseteq Messages
    BY <1>1 DEF Poll, DueRows
  <2>3. snap' \in [Messages -> 0..AttemptCap]
    BY <1>1, ZeroType DEF Poll, IInv, TypeOK, Row
  <2>4. QED
    BY <2>1, <2>2, <2>3
       DEF IInv, TypeOK, WorkerFits, SweepKeepsOff, UnkeyedIsNew, HandledOnce,
           Untouched, At
<1>2. ASSUME NEW m \in Messages, LeaseJob(m) PROVE IInv'
  <2>1. CASE CanLease(row[m])
    <3>0. IsOpen(row[m]) /\ row[m] \in Row
      BY <2>1 DEF CanLease, IInv, TypeOK
    <3>1. Leased(row[m]) \in Row /\ IsOpen(Leased(row[m]))
      BY <3>0, LeasedType DEF IsOpen, OpenStatus, Leased, Row
    <3>2. /\ row' = [row EXCEPT ![m] = Leased(row[m])]
          /\ worker' = "leased" /\ job' = m
          /\ UNCHANGED <<keyed, mapped, logged, handler, copies>>
      BY <1>2, <2>1 DEF LeaseJob
    <3>3. WorkerFits'
      BY <3>1, <3>2, InboundAssumption DEF WorkerFits, IInv, TypeOK
    <3>4. TypeOK'
      BY <1>2, <3>1, <3>2 DEF LeaseJob, IInv, TypeOK, WorkerPC
    <3>5. QED BY <3>0, <3>1, <3>2, <3>3, <3>4, RowStepKeeps
  <2>2. CASE ~CanLease(row[m])
    BY <1>2, <2>2
       DEF LeaseJob, IInv, TypeOK, WorkerFits, SweepKeepsOff, UnkeyedIsNew,
           HandledOnce, Untouched, At
  <2>3. QED BY <2>1, <2>2
<1>3. ASSUME worker # "idle", NEW new \in Row,
             row' = [row EXCEPT ![job] = new], JobOver,
             UNCHANGED <<handler, batch, snap, copies, faults>>,
             \/ UNCHANGED <<keyed, mapped, logged>>
             \/ /\ mapped' = mapped \cup {job}
                /\ keyed' = keyed \cup {job}
                /\ logged' = [logged EXCEPT ![job] = "delivered"]
      PROVE  IInv'
  <2>1. job \in Messages /\ IsOpen(row[job])
    BY <1>3, JobIsKeyed
  <2>2. TypeOK'
    BY <1>3, <2>1 DEF IInv, TypeOK, JobOver, WorkerPC, LogStatus
  <2>3. WorkerFits'
    BY <1>3 DEF WorkerFits, JobOver
  <2>4. /\ keyed' \in {keyed, keyed \cup {job}}
        /\ mapped' \in {mapped, mapped \cup {job}}
        /\ \A n \in Messages \ {job} :
             logged'[n] = logged[n] /\ copies'[n] = copies[n]
    BY <1>3 DEF IInv, TypeOK
  <2>5. QED BY <1>3, <2>1, <2>2, <2>3, <2>4, RowStepKeeps
<1>4. CASE ExpireJob \/ GiveUpJob
  <2>1. Failed(row[job]) \in Row
    BY <1>4, JobIsKeyed, ClosedType DEF ExpireJob, GiveUpJob
  <2>2. QED BY <1>3, <1>4, <2>1 DEF ExpireJob, GiveUpJob
<1>5. CASE JobSent
  <2>1. Delivered(row[job]) \in Row
    BY <1>5, JobIsKeyed, ClosedType DEF JobSent
  <2>2. QED BY <1>3, <1>5, <2>1 DEF JobSent
<1>6. CASE RetryJob
  <2>1. job \in Messages /\ row[job] \in Row
    BY <1>6, JobIsKeyed DEF RetryJob
  <2>2. NextDelay(snap[job]) \in 0..MaxDelay
    BY <2>1, NextDelayType, QueueAssumption DEF IInv, TypeOK
  <2>3. Retried(row[job], NextDelay(snap[job])) \in Row
    BY <2>1, <2>2, RetriedType
  <2>4. QED BY <1>3, <1>6, <2>3 DEF RetryJob
<1>7. CASE SendJob
  <2>1. PICK answer \in Answers, n \in 0..SendAttempts :
          Posted(job, answer, n) /\ worker' = answer
    BY <1>7 DEF SendJob
  <2>2. job \in Messages /\ job \in keyed
    BY <1>7, JobIsKeyed DEF SendJob
  <2>3. /\ copies' \in [Messages -> Nat]
        /\ \A k \in Messages \ {job} : copies'[k] = copies[k]
    BY <2>1, <2>2, InboundAssumption DEF Posted, IInv, TypeOK
  <2>4. UNCHANGED <<row, keyed, mapped, logged, handler, batch, snap, job,
                    faults>>
    BY <1>7 DEF SendJob, db, queue
  <2>5. worker' \in WorkerPC /\ worker' # "idle" /\ worker # "idle"
    BY <1>7, <2>1 DEF SendJob, Answers, WorkerPC
  <2>6. TypeOK' /\ WorkerFits'
    BY <2>3, <2>4, <2>5 DEF IInv, TypeOK, WorkerFits
  <2>7. UnkeyedIsNew' /\ HandledOnce' /\ SweepKeepsOff'
    BY <2>2, <2>3, <2>4
       DEF IInv, UnkeyedIsNew, HandledOnce, SweepKeepsOff, Untouched, At
  <2>8. QED BY <2>6, <2>7 DEF IInv
<1>8. QED BY <1>1, <1>2, <1>4, <1>5, <1>6, <1>7 DEF JobStep

(* Time and crashes                                                        *)
LEMMA EnvironmentKeeps ==
  ASSUME IInv, Tick \/ Crash PROVE IInv'
<1>1. CASE Tick
  <2>1. ASSUME NEW m \in Messages
        PROVE  row'[m] \in Row /\ row'[m].status = row[m].status
    <3>1. row[m] \in Row /\ row'[m] = Aged(row[m])
      BY <1>1 DEF Tick, IInv, TypeOK
    <3>2. QED BY <3>1, AgedType DEF Aged, Row
  <2>2. row' = [m \in Messages |-> Aged(row[m])]
    BY <1>1 DEF Tick
  <2>3. row' \in [Messages -> Row]
    BY <2>1, <2>2
  <2>4. UNCHANGED <<keyed, mapped, logged, handler, worker, batch, snap, job,
                    copies, faults>>
    BY <1>1 DEF Tick, queue
  <2>5. TypeOK'
    BY <2>3, <2>4 DEF IInv, TypeOK
  <2>6. WorkerFits'
    BY <2>1, <2>4 DEF IInv, WorkerFits, TypeOK, IsOpen
  <2>7. UnkeyedIsNew' /\ HandledOnce' /\ SweepKeepsOff'
    BY <2>1, <2>4
       DEF IInv, UnkeyedIsNew, HandledOnce, SweepKeepsOff, Untouched, At
  <2>8. QED BY <2>5, <2>6, <2>7 DEF IInv
<1>2. CASE Crash
  <2>1. UNCHANGED <<row, keyed, mapped, logged, copies>>
    BY <1>2 DEF Crash, db
  <2>2. \A m \in Messages, o \in Origins : handler'[m][o] = "idle"
    BY <1>2 DEF Crash
  <2>3. TypeOK'
    BY <1>2, <2>1, InboundAssumption, ZeroType
       DEF Crash, IInv, TypeOK, HandlerPC, WorkerPC
  <2>4. WorkerFits'
    BY <1>2 DEF Crash, WorkerFits
  <2>5. UnkeyedIsNew' /\ HandledOnce' /\ SweepKeepsOff'
    BY <2>1, <2>2
       DEF IInv, UnkeyedIsNew, HandledOnce, SweepKeepsOff, Untouched, At,
           Origins, BeforeKey
  <2>6. QED BY <2>3, <2>4, <2>5 DEF IInv
<1>3. QED BY <1>1, <1>2

-----------------------------------------------------------------------------
(* The inductive invariant holds initially ...                             *)
LEMMA InitIInv == Init => IInv
<1> SUFFICES ASSUME Init PROVE IInv
  OBVIOUS
<1>1. TypeOK
  BY NoRowType, ZeroType, InboundAssumption
     DEF Init, TypeOK, HandlerPC, WorkerPC, LogStatus
<1>2. QED
  BY <1>1
     DEF Init, IInv, WorkerFits, SweepKeepsOff, UnkeyedIsNew, HandledOnce,
         Untouched, NoRow, At, Origins, BeforeKey

(* ... is kept by every step, one case per action ...                      *)
LEMMA NextIInv == IInv /\ [Next]_vars => IInv'
<1> SUFFICES ASSUME IInv, [Next]_vars PROVE IInv'
  OBVIOUS
<1>1. CASE UNCHANGED vars
  BY <1>1
     DEF vars, db, queue, IInv, TypeOK, WorkerFits, SweepKeepsOff,
         UnkeyedIsNew, HandledOnce, Untouched, At
<1>2. CASE Next
  BY <1>2, CallStepKeeps, WorkerStepKeeps, EnvironmentKeeps DEF Next
<1>3. QED BY <1>1, <1>2

(* ... and so holds in every reachable state.                              *)
LEMMA AlwaysIInv == Spec => []IInv
  BY InitIInv, NextIInv, PTL DEF Spec

(* Queue rows, calls, the worker's batch and snapshot keep their types.    *)
THEOREM TypeCorrect == Spec => []TypeOK
  BY AlwaysIInv, PTL DEF IInv

-----------------------------------------------------------------------------
(* No message is forgotten                                                 *)

Settled(m) ==
  \/ m \in mapped
  \/ row[m].status # "absent"
  \/ logged[m] \in {"failed", "disabled"}

(* The step of one message's call leaves the account of the others alone.  *)
LEMMA CallLosesNothing ==
  ASSUME IInv, NoSilentLoss, NEW m \in Messages, NEW o \in Origins,
         Arrive(m, o) \/ HandlerStep(m, o) \/ RecordingRaised(m, o)
  PROVE  NoSilentLoss'
<1> SUFFICES ASSUME faults' = 0 PROVE NoSilentLoss'
  BY DEF NoSilentLoss
<1>0. TypeOK
  BY DEF IInv
<1>1. faults = 0 /\ ~RecordingRaised(m, o)
  BY <1>0, InboundAssumption
     DEF TypeOK, Arrive, HandlerStep, CheckDuplicate, SaveKey, NoTopic,
         ChatDisabled, Routed, Forward, RecordForwarded, QueueText, LogFailure,
         RecordingRaised
<1>2. \A n \in Messages \ {m} :
        /\ n \in keyed' <=> n \in keyed
        /\ InHand(n)' <=> InHand(n)
        /\ Settled(n)' <=> Settled(n)
  BY CallMoves, <1>0 DEF InHand, Settled
<1>3. ASSUME m \in keyed' /\ ~InHand(m)' => Settled(m)' PROVE NoSilentLoss'
  BY <1>1, <1>2, <1>3 DEF NoSilentLoss, Settled
<1>4. ASSUME NEW pc \in HandlerPC, Goto(m, o, pc)
      PROVE  handler'[m][o] = pc
             /\ \A p \in Origins \ {o} : handler'[m][p] = handler[m][p]
  BY <1>0, <1>4, GotoMoves
<1>5. CASE Arrive(m, o) \/ (CheckDuplicate(m, o) /\ m \in keyed)
  <2>1. \E pc \in {"idle", "checking"} : Goto(m, o, pc)
    BY <1>5 DEF Arrive, CheckDuplicate
  <2>2. handler[m][o] \in {"idle", "checking"}
    BY <1>5 DEF Arrive, CheckDuplicate, At
  <2>3. InHand(m)' <=> InHand(m)
    BY <1>4, <2>1, <2>2 DEF InHand, HandlerPC
  <2>4. UNCHANGED <<row, keyed, mapped, logged>>
    BY <1>5 DEF Arrive, CheckDuplicate, db
  <2>5. QED BY <1>1, <1>3, <2>3, <2>4 DEF NoSilentLoss, Settled
<1>6. CASE \/ CheckDuplicate(m, o) /\ m \notin keyed
           \/ SaveKey(m, o) \/ Routed(m, o) \/ Forward(m, o)
  <2>1. PICK pc \in HandlerPC \ {"idle", "checking"} : Goto(m, o, pc)
    BY <1>6
       DEF CheckDuplicate, SaveKey, Routed, Forward, Answers, HandlerPC
  <2>2. InHand(m)'
    BY <1>4, <2>1 DEF InHand
  <2>3. QED BY <1>3, <2>2
<1>7. CASE NoTopic(m, o) \/ ChatDisabled(m, o) \/ LogFailure(m, o)
  BY <1>0, <1>3, <1>7 DEF NoTopic, ChatDisabled, LogFailure, Settled, TypeOK
<1>8. CASE RecordForwarded(m, o)
  BY <1>3, <1>8 DEF RecordForwarded, Settled
<1>9. CASE QueueText(m, o)
  <2>1. row'[m] = Enqueued(row[m], 1)
    BY <1>0, <1>9 DEF QueueText, TypeOK
  <2>2. row'[m].status # "absent"
    BY <2>1 DEF Enqueued
  <2>3. QED BY <1>3, <2>2 DEF Settled
<1>10. QED
  BY <1>1, <1>5, <1>6, <1>7, <1>8, <1>9 DEF HandlerStep

(* The worker closes a row only with a record of its end.                  *)
LEMMA WorkerLosesNothing ==
  ASSUME IInv, NoSilentLoss, Poll \/ (\E m \in Messages : LeaseJob(m)) \/ JobStep
  PROVE  NoSilentLoss'
<1>0. TypeOK
  BY DEF IInv
<1>1. UNCHANGED <<handler, faults>>
  BY DEF Poll, LeaseJob, JobStep, ExpireJob, SendJob, JobSent, RetryJob, GiveUpJob
<1>2. ASSUME NEW m \in Messages, NEW new,
             row[m].status # "absent", new.status # "absent",
             row' = [row EXCEPT ![m] = new],
             keyed' \in {keyed, keyed \cup {m}}, mapped \subseteq mapped',
             \A n \in Messages \ {m} : logged'[n] = logged[n]
      PROVE  NoSilentLoss'
  <2>1. row'[m].status # "absent"
        /\ \A n \in Messages \ {m} : row'[n] = row[n]
    BY <1>0, <1>2 DEF TypeOK
  <2>2. QED BY <1>1, <1>2, <2>1 DEF NoSilentLoss, InHand
<1>3. CASE Poll \/ SendJob
  BY <1>1, <1>3 DEF Poll, SendJob, db, NoSilentLoss, InHand
<1>4. ASSUME NEW m \in Messages, LeaseJob(m) PROVE NoSilentLoss'
  <2>1. CASE CanLease(row[m])
    <3>1. row[m] \in Row /\ row[m].status # "absent"
      BY <1>0, <2>1 DEF CanLease, IsOpen, OpenStatus, TypeOK
    <3>2. Leased(row[m]).status # "absent"
      BY <3>1 DEF Leased, Row
    <3>3. QED BY <1>2, <1>4, <2>1, <3>1, <3>2 DEF LeaseJob
  <2>2. CASE ~CanLease(row[m])
    BY <1>4, <2>2 DEF LeaseJob, NoSilentLoss, InHand
  <2>3. QED BY <2>1, <2>2
<1>5. ASSUME worker # "idle"
      PROVE  /\ job \in Messages /\ row[job].status # "absent"
             /\ Failed(row[job]).status # "absent"
             /\ Delivered(row[job]).status # "absent"
             /\ \A d \in 0..MaxDelay : Retried(row[job], d).status # "absent"
  <2>1. job \in Messages /\ row[job] \in Row /\ IsOpen(row[job])
    BY <1>5, JobIsKeyed
  <2>2. QED BY <2>1 DEF IsOpen, OpenStatus, Failed, Delivered, Retried, Row
<1>6. CASE ExpireJob \/ GiveUpJob
  BY <1>2, <1>5, <1>6 DEF ExpireJob, GiveUpJob
<1>7. CASE JobSent
  BY <1>0, <1>2, <1>5, <1>7 DEF JobSent, TypeOK
<1>8. CASE RetryJob
  <2>1. job \in Messages
    BY <1>8, <1>5 DEF RetryJob
  <2>2. NextDelay(snap[job]) \in 0..MaxDelay
    BY <1>0, <2>1, NextDelayType, QueueAssumption DEF TypeOK
  <2>3. Retried(row[job], NextDelay(snap[job])).status # "absent"
    BY <2>2, <1>5, <1>8 DEF RetryJob
  <2>4. QED BY <1>2, <1>5, <1>8, <2>3 DEF RetryJob
<1>9. QED BY <1>3, <1>4, <1>6, <1>7, <1>8 DEF JobStep

(* While nothing crashes, the key that keeps a message from being handled  *)
(* again never stands alone.                                               *)
THEOREM NothingIsLost == Spec => []NoSilentLoss
<1>1. Init => NoSilentLoss
  BY DEF Init, NoSilentLoss
<1>2. IInv /\ NoSilentLoss /\ [Next]_vars => NoSilentLoss'
  <2> SUFFICES ASSUME IInv, NoSilentLoss, [Next]_vars PROVE NoSilentLoss'
    OBVIOUS
  <2>1. CASE UNCHANGED vars
    BY <2>1 DEF vars, db, NoSilentLoss, InHand
  <2>2. CASE Tick
    <3>1. \A m \in Messages : row'[m].status = row[m].status
      BY <2>2 DEF Tick, IInv, TypeOK, Aged, Row
    <3>2. QED BY <2>2, <3>1 DEF Tick, NoSilentLoss, InHand
  <2>3. CASE Crash
    BY <2>3 DEF Crash, NoSilentLoss, IInv, TypeOK
  <2>4. QED
    BY <2>1, <2>2, <2>3, CallLosesNothing, WorkerLosesNothing DEF Next
<1>3. QED BY <1>1, <1>2, AlwaysIInv, PTL DEF Spec

-----------------------------------------------------------------------------
(* How often a message is posted                                           *)

(* The posts that may still come of a message as things stand: one of each *)
(* call that is past the duplicate check and was not answered for good,    *)
(* one of an open row, unless the worker has the answer in hand.  With the *)
(* copies there are, they never exceed the bound: a fault may turn an      *)
(* answer not recorded into an open row again, but costs one of the bound. *)
CanPost == {"accepted", "keyed", "routed", "retryable"}
Chance(m, o) == IF handler[m][o] \in CanPost THEN 1 ELSE 0
RowChance(m) == IF IsOpen(row[m]) /\ ~(worker = "sent" /\ job = m) THEN 1 ELSE 0
Spent(m) == copies[m] + Chance(m, Live) + Chance(m, Sweep) + RowChance(m)
Bound(m) == (IF m \in Swept THEN 2 ELSE 1) + faults

WithinBound == \A m \in Messages : Spent(m) <= Bound(m)

(* What is added up in the bound are numbers.                              *)
LEMMA SpentType ==
  ASSUME TypeOK, NEW m \in Messages
  PROVE  /\ copies[m] \in Nat /\ faults \in Nat
         /\ Chance(m, Live) \in {0, 1} /\ Chance(m, Sweep) \in {0, 1}
         /\ RowChance(m) \in {0, 1}
  BY InboundAssumption DEF TypeOK, Chance, RowChance

(* A call that may still post gives up its chance when it posts or leaves  *)
(* it to the row it queues.                                                *)
LEMMA CallWithinBound ==
  ASSUME IInv, WithinBound, ~LoseReplies, NEW m \in Messages, NEW o \in Origins,
         Arrive(m, o) \/ HandlerStep(m, o) \/ RecordingRaised(m, o)
  PROVE  WithinBound'
<1>0. TypeOK /\ TypeOK' /\ UNCHANGED <<worker, job>>
  BY CallMoves DEF IInv, queue
<1>1. faults' >= faults
  BY <1>0, InboundAssumption
     DEF TypeOK, Arrive, HandlerStep, CheckDuplicate, SaveKey, NoTopic,
         ChatDisabled, Routed, Forward, RecordForwarded, QueueText, LogFailure,
         RecordingRaised
<1>2. ASSUME NEW n \in Messages \ {m} PROVE Spent(n)' <= Bound(n)'
  <2>1. /\ copies'[n] = copies[n] /\ row'[n] = row[n]
        /\ \A p \in Origins : handler'[n][p] = handler[n][p]
    BY CallMoves, <1>0
  <2>2. Spent(n)' = Spent(n)
    BY <1>0, <2>1 DEF Spent, Chance, RowChance, Origins
  <2>3. Bound(n)' >= Bound(n) /\ Bound(n) \in Nat /\ Bound(n)' \in Nat
    <3>1. PICK later \in Nat : faults' = later /\ faults \in Nat
      BY <1>0, InboundAssumption DEF TypeOK
    <3>2. PICK once \in Nat : once = IF n \in Swept THEN 2 ELSE 1
      OBVIOUS
    <3>3. Bound(n) = once + faults /\ Bound(n)' = once + later
      BY <3>1, <3>2 DEF Bound
    <3>4. later >= faults
      BY <1>1, <3>1
    <3>5. QED BY <3>1, <3>2, <3>3, <3>4
  <2>4. Spent(n) \in Nat
    BY <1>0, SpentType DEF Spent
  <2>5. QED BY <2>2, <2>3, <2>4 DEF WithinBound
<1>3. ASSUME NEW p \in Origins, p # o PROVE Chance(m, p)' = Chance(m, p)
  BY <1>3, CallMoves, <1>0 DEF Chance
<1>4. ASSUME \/ copies'[m] + Chance(m, o)' + RowChance(m)' - faults'
                  <= copies[m] + Chance(m, o) + RowChance(m) - faults
             \/ m \notin keyed /\ UNCHANGED <<row, copies, faults>>
      PROVE  WithinBound'
  <2>1. /\ copies[m] \in Nat /\ faults \in Nat
        /\ copies'[m] \in Nat /\ faults' \in Nat
        /\ \A p \in Origins : Chance(m, p) \in {0, 1} /\ Chance(m, p)' \in {0, 1}
        /\ RowChance(m) \in {0, 1} /\ RowChance(m)' \in {0, 1}
    BY <1>0, InboundAssumption DEF TypeOK, Chance, RowChance
  <2>2. CASE m \notin keyed /\ UNCHANGED <<row, copies, faults>>
    <3>1. copies'[m] = 0 /\ RowChance(m)' = 0
      BY <2>2 DEF IInv, UnkeyedIsNew, Untouched, RowChance, IsOpen, OpenStatus
    <3>2. m \notin Swept => Chance(m, Sweep)' = 0
      <4>1. IInv'
        BY CallStepKeeps
      <4>2. QED BY <4>1 DEF IInv, SweepKeepsOff, At, Chance, CanPost
    <3>3. Spent(m)' <= Bound(m)'
      BY <2>1, <3>1, <3>2 DEF Spent, Bound, Origins
    <3>4. QED BY <1>2, <3>3 DEF WithinBound
  <2>3. CASE copies'[m] + Chance(m, o)' + RowChance(m)' - faults'
                <= copies[m] + Chance(m, o) + RowChance(m) - faults
    <3>1. Spent(m) <= Bound(m)
      BY DEF WithinBound
    <3>2. CASE o = Live
      <4>1. Chance(m, Sweep)' = Chance(m, Sweep)
        BY <1>3, <3>2, InboundAssumption DEF Origins
      <4>2. QED BY <1>2, <2>1, <2>3, <3>1, <3>2, <4>1
                DEF WithinBound, Spent, Bound, Origins
    <3>3. CASE o = Sweep
      <4>1. Chance(m, Live)' = Chance(m, Live)
        BY <1>3, <3>3, InboundAssumption DEF Origins
      <4>2. QED BY <1>2, <2>1, <2>3, <3>1, <3>3, <4>1
                DEF WithinBound, Spent, Bound, Origins
    <3>4. QED BY <3>2, <3>3 DEF Origins
  <2>4. QED BY <1>4, <2>2, <2>3
<1>5. ASSUME NEW pc \in HandlerPC, Goto(m, o, pc)
      PROVE  handler'[m][o] = pc
  BY <1>0, <1>5, GotoMoves
<1>6. copies[m] \in Nat /\ faults \in Nat /\ RowChance(m) \in {0, 1}
  BY <1>0, SpentType
<1>7. CASE Arrive(m, o) \/ SaveKey(m, o) \/ Routed(m, o)
           \/ (CheckDuplicate(m, o) /\ m \in keyed)
  <2>1. Chance(m, o)' = Chance(m, o)
    BY <1>5, <1>7
       DEF Arrive, SaveKey, Routed, CheckDuplicate, At, Chance, CanPost, HandlerPC
  <2>2. RowChance(m)' = RowChance(m) /\ UNCHANGED <<copies, faults>>
    BY <1>0, <1>7
       DEF Arrive, SaveKey, Routed, CheckDuplicate, RowChance, IsOpen, db
  <2>3. Chance(m, o) \in {0, 1}
    BY DEF Chance
  <2>4. QED BY <1>4, <1>6, <2>1, <2>2, <2>3
<1>8. CASE CheckDuplicate(m, o) /\ m \notin keyed
  BY <1>4, <1>8 DEF CheckDuplicate, db
<1>9. CASE NoTopic(m, o) \/ ChatDisabled(m, o) \/ LogFailure(m, o)
           \/ RecordForwarded(m, o) \/ RecordingRaised(m, o)
  <2>1. Chance(m, o)' = 0 /\ Chance(m, o) \in {0, 1}
    BY <1>5, <1>9
       DEF NoTopic, ChatDisabled, LogFailure, RecordForwarded, RecordingRaised,
           Chance, CanPost, HandlerPC
  <2>2. RowChance(m)' = RowChance(m) /\ UNCHANGED copies
    BY <1>0, <1>9
       DEF NoTopic, ChatDisabled, LogFailure, RecordForwarded, RecordingRaised,
           RowChance, IsOpen, db
  <2>3. faults' \in Nat
    BY <1>0, InboundAssumption DEF TypeOK
  <2>4. QED BY <1>1, <1>4, <1>6, <2>1, <2>2, <2>3
<1>10. CASE Forward(m, o)
  <2>1. PICK answer \in Answers, n \in 0..SendAttempts :
          Posted(m, answer, n) /\ Goto(m, o, answer)
    BY <1>10 DEF Forward
  <2>2. copies'[m] = copies[m] + (IF answer = "sent" THEN 1 ELSE 0)
    BY <1>0, <2>1 DEF Posted, TypeOK
  <2>3. Chance(m, o) = 1 /\ Chance(m, o)' = IF answer = "retryable" THEN 1 ELSE 0
    BY <1>5, <1>10, <2>1 DEF Forward, At, Chance, CanPost, HandlerPC, Answers
  <2>4. RowChance(m)' = RowChance(m) /\ UNCHANGED faults
    BY <1>0, <1>10 DEF Forward, RowChance, IsOpen, db
  <2>5. QED BY <1>4, <1>6, <2>2, <2>3, <2>4
<1>11. CASE QueueText(m, o)
  <2>1. Chance(m, o) = 1 /\ Chance(m, o)' = 0
    BY <1>5, <1>11 DEF QueueText, At, Chance, CanPost, HandlerPC
  <2>2. RowChance(m)' \in {0, 1} /\ UNCHANGED <<copies, faults>>
    BY <1>11 DEF QueueText, RowChance
  <2>3. QED BY <1>4, <1>6, <2>1, <2>2
<1>12. QED
  BY <1>7, <1>8, <1>9, <1>10, <1>11 DEF HandlerStep

(* The worker posts at the cost of the chance its row stands for.          *)
LEMMA WorkerWithinBound ==
  ASSUME IInv, WithinBound, ~LoseReplies,
         Poll \/ (\E m \in Messages : LeaseJob(m)) \/ JobStep
  PROVE  WithinBound'
<1>0. TypeOK /\ TypeOK' /\ UNCHANGED <<handler, faults>>
  BY WorkerStepKeeps
     DEF IInv, Poll, LeaseJob, JobStep, ExpireJob, SendJob, JobSent, RetryJob,
         GiveUpJob
<1>1. ASSUME \A n \in Messages :
               copies'[n] + RowChance(n)' <= copies[n] + RowChance(n)
      PROVE  WithinBound'
  <2> SUFFICES ASSUME NEW n \in Messages PROVE Spent(n)' <= Bound(n)'
    BY DEF WithinBound
  <2>1. Spent(n) <= Bound(n)
    BY DEF WithinBound
  <2>2. /\ copies[n] \in Nat /\ copies'[n] \in Nat /\ faults \in Nat
        /\ RowChance(n) \in {0, 1} /\ RowChance(n)' \in {0, 1}
        /\ Chance(n, Live) \in {0, 1} /\ Chance(n, Sweep) \in {0, 1}
    BY <1>0, InboundAssumption DEF TypeOK, Chance, RowChance
  <2>3. Chance(n, Live)' = Chance(n, Live) /\ Chance(n, Sweep)' = Chance(n, Sweep)
    BY <1>0 DEF Chance
  <2>4. Bound(n)' = Bound(n)
    BY <1>0 DEF Bound
  <2>5. QED BY <1>1, <2>1, <2>2, <2>3, <2>4 DEF Spent, Bound
<1>2. \A n \in Messages : copies[n] \in Nat /\ RowChance(n) \in {0, 1}
  BY <1>0, SpentType
<1>3. CASE Poll
  <2>1. \A n \in Messages : RowChance(n)' = RowChance(n)
    BY <1>3 DEF Poll, RowChance, IsOpen, db
  <2>2. QED BY <1>1, <1>2, <1>3, <2>1 DEF Poll
<1>4. ASSUME NEW m \in Messages, LeaseJob(m) PROVE WithinBound'
  <2>1. CASE CanLease(row[m])
    <3>1. /\ row' = [row EXCEPT ![m] = Leased(@)] /\ UNCHANGED copies
          /\ worker = "idle" /\ worker' = "leased"
      BY <1>4, <2>1 DEF LeaseJob
    <3>2. \A n \in Messages : IsOpen(row'[n]) => IsOpen(row[n])
      BY <1>0, <2>1, <3>1 DEF TypeOK, CanLease
    <3>3. \A n \in Messages : RowChance(n)' <= RowChance(n)
      BY <3>1, <3>2 DEF RowChance
    <3>4. \A n \in Messages : RowChance(n)' \in {0, 1}
      BY DEF RowChance
    <3>5. QED BY <1>1, <1>2, <3>1, <3>3, <3>4
  <2>2. CASE ~CanLease(row[m])
    <3>1. \A n \in Messages : RowChance(n)' = RowChance(n)
      BY <1>4, <2>2 DEF LeaseJob, RowChance, IsOpen
    <3>2. QED BY <1>1, <1>2, <1>4, <2>2, <3>1 DEF LeaseJob
  <2>3. QED BY <2>1, <2>2
<1>5. ASSUME worker # "idle" PROVE job \in Messages /\ row[job] \in Row /\ IsOpen(row[job])
  BY <1>5, JobIsKeyed
<1>6. ASSUME worker # "idle", NEW new, row' = [row EXCEPT ![job] = new],
             JobOver, UNCHANGED copies, worker = "sent" => ~IsOpen(new)
      PROVE  WithinBound'
  <2>1. ASSUME NEW n \in Messages PROVE RowChance(n)' <= RowChance(n)
    <3>1. CASE n = job
      <4>1. row'[n] = new
        BY <1>0, <1>6, <3>1 DEF TypeOK
      <4>2. QED BY <1>5, <1>6, <3>1, <4>1 DEF RowChance
    <3>2. CASE n # job
      <4>1. row'[n] = row[n]
        BY <1>0, <1>6, <3>2 DEF TypeOK
      <4>2. QED BY <3>2, <4>1 DEF RowChance
    <3>3. QED BY <3>1, <3>2
  <2>2. \A n \in Messages : RowChance(n)' \in {0, 1}
    BY DEF RowChance
  <2>3. QED BY <1>1, <1>2, <1>6, <2>1, <2>2
<1>7. CASE ExpireJob \/ GiveUpJob \/ RetryJob
  BY <1>6, <1>7 DEF ExpireJob, GiveUpJob, RetryJob
<1>8. CASE JobSent
  <2>1. ~IsOpen(Delivered(row[job]))
    BY <1>5, <1>8 DEF JobSent, IsOpen, OpenStatus, Delivered, Row
  <2>2. QED BY <1>6, <1>8, <2>1 DEF JobSent
<1>9. CASE SendJob
  <2>1. PICK answer \in Answers, n \in 0..SendAttempts :
          Posted(job, answer, n) /\ worker' = answer
    BY <1>9 DEF SendJob
  <2>2. job \in Messages /\ IsOpen(row[job]) /\ worker = "leased"
        /\ UNCHANGED <<row, job>>
    BY <1>5, <1>9 DEF SendJob, db, queue
  <2>3. /\ copies'[job] = copies[job] + (IF answer = "sent" THEN 1 ELSE 0)
        /\ \A k \in Messages \ {job} : copies'[k] = copies[k]
    <3>1. /\ copies' = [copies EXCEPT ![job] = @ + n]
          /\ n = IF answer = "sent" THEN 1 ELSE 0
      BY <2>1 DEF Posted
    <3>2. QED BY <1>0, <2>2, <3>1 DEF TypeOK
  <2>4. /\ RowChance(job) = 1
        /\ RowChance(job)' = IF answer = "sent" THEN 0 ELSE 1
    BY <2>1, <2>2 DEF RowChance
  <2>5. \A k \in Messages \ {job} : RowChance(k)' = RowChance(k)
    BY <2>2 DEF RowChance
  <2>6. QED BY <1>1, <1>2, <2>2, <2>3, <2>4, <2>5
<1>10. QED BY <1>3, <1>4, <1>7, <1>8, <1>9 DEF JobStep

(* A crash gives back at most the one chance it counts as a fault.         *)
LEMMA EnvironmentWithinBound ==
  ASSUME IInv, WithinBound, Tick \/ Crash PROVE WithinBound'
<1>0. TypeOK /\ TypeOK'
  BY EnvironmentKeeps DEF IInv
<1> SUFFICES ASSUME NEW m \in Messages PROVE Spent(m)' <= Bound(m)'
  BY DEF WithinBound
<1>1. Spent(m) <= Bound(m)
  BY DEF WithinBound
<1>2. CASE Tick
  <2>1. row'[m].status = row[m].status
    BY <1>0, <1>2 DEF Tick, TypeOK, Aged, Row
  <2>2. UNCHANGED <<handler, worker, job, copies, faults>>
    BY <1>2 DEF Tick, queue
  <2>3. QED
    BY <1>1, <2>1, <2>2 DEF Spent, Bound, Chance, RowChance, IsOpen
<1>3. CASE Crash
  <2>1. /\ Chance(m, Live)' = 0 /\ Chance(m, Sweep)' = 0
        /\ RowChance(m)' \in {0, 1} /\ faults' = faults + 1
        /\ UNCHANGED copies
    BY <1>3 DEF Crash, Chance, CanPost, RowChance, Origins
  <2>2. QED BY <1>0, <1>1, <2>1, SpentType DEF Spent, Bound
<1>4. QED BY <1>2, <1>3

(* A message is posted once, once more if the sweep may replay it, and     *)
(* each crash or failed transaction costs at most one further copy, when   *)
(* Telegram answers every send.                                            *)
THEOREM CopiesAreBounded == Spec => []BoundedCopies
<1> DEFINE BInv == IInv /\ (~LoseReplies => WithinBound)
<1>1. Init => BInv
  <2> SUFFICES ASSUME Init, NEW m \in Messages PROVE Spent(m) <= Bound(m)
    BY InitIInv DEF WithinBound
  <2>1. Spent(m) = 0
    BY DEF Init, Spent, Chance, CanPost, RowChance, IsOpen, OpenStatus, NoRow,
           Origins
  <2>2. QED BY <2>1 DEF Init, Bound
<1>2. BInv /\ [Next]_vars => BInv'
  <2> SUFFICES ASSUME BInv, [Next]_vars, ~LoseReplies PROVE WithinBound'
    BY NextIInv
  <2>1. CASE UNCHANGED vars
    BY <2>1
       DEF vars, db, queue, WithinBound, Spent, Bound, Chance, RowChance, IsOpen
  <2>2. CASE Next
    BY <2>2, CallWithinBound, WorkerWithinBound, EnvironmentWithinBound DEF Next
  <2>3. QED BY <2>1, <2>2
<1>3. BInv => BoundedCopies
  <2> SUFFICES ASSUME BInv, ~LoseReplies, NEW m \in Messages
               PROVE  copies[m] <= Bound(m)
    BY DEF BoundedCopies, Bound
  <2>1. Spent(m) <= Bound(m)
    BY DEF WithinBound
  <2>2. QED BY <2>1, SpentType DEF IInv, Spent, Bound
<1>4. QED BY <1>1, <1>2, <1>3, PTL DEF Spec

-----------------------------------------------------------------------------
(* The contract                                                            *)

Kept == Messages \ Swept

(* What decides a message's fate.                                          *)
SameFate(m) ==
  /\ row'[m].status = row[m].status
  /\ m \in mapped' <=> m \in mapped
  /\ logged'[m] = logged[m]

FateValue(m) ==
  IF m \in mapped THEN "delivered"
  ELSE IF IsOpen(row[m]) THEN "queued"
  ELSE IF row[m].status = "failed" \/ logged[m] \in {"failed", "disabled"}
       THEN "dropped"
  ELSE "offered"

(* The mapped variable, message by message, now and in the next state.     *)
LEMMA FateIs ==
  /\ Fate = [m \in Kept |-> FateValue(m)]
  /\ \A m \in Kept : Fate[m] = FateValue(m)
  /\ Fate' = [m \in Kept |-> FateValue(m)']
<1> DEFINE Case(m) ==
       CASE m \in mapped -> "delivered"
         [] m \notin mapped /\ IsOpen(row[m]) -> "queued"
         [] m \notin mapped /\ ~IsOpen(row[m]) /\
              (row[m].status = "failed" \/ logged[m] \in {"failed", "disabled"})
              -> "dropped"
         [] OTHER -> "offered"
<1>1. \A m \in Kept : Case(m) = FateValue(m)
  BY DEF FateValue
<1>2. \A m \in Kept : Case(m)' = FateValue(m)'
  BY DEF FateValue
<1>3. Fate = [m \in Kept |-> Case(m)] /\ Fate' = [m \in Kept |-> Case(m)']
  BY DEF Fate, Kept
<1> HIDE DEF Case
<1>4. QED BY <1>1, <1>2, <1>3

(* A step that touches one message keeps the contract if it keeps it for   *)
(* that message.                                                           *)
LEMMA OneFate ==
  ASSUME NEW m \in Messages,
         \A n \in Messages \ {m} : SameFate(n),
         m \in Kept => \/ FateValue(m)' = FateValue(m)
                       \/ /\ FateValue(m) = "offered"
                          /\ FateValue(m)' \in {"queued", "delivered", "dropped"}
                       \/ /\ FateValue(m) = "queued"
                          /\ FateValue(m)' \in {"delivered", "dropped"}
  PROVE  Contract!Next \/ UNCHANGED Fate
<1>1. \A n \in Kept : n # m => FateValue(n)' = FateValue(n)
  BY DEF SameFate, FateValue, IsOpen, Kept
<1>2. Fate' = [n \in Kept |-> FateValue(n)']
  BY FateIs
<1>3. CASE m \notin Kept \/ FateValue(m)' = FateValue(m)
  <2>1. \A n \in Kept : FateValue(n)' = FateValue(n)
    BY <1>1, <1>3
  <2>2. QED BY <1>2, <2>1, FateIs
<1>4. CASE m \in Kept /\ FateValue(m)' # FateValue(m)
  <2>1. Fate' = [Fate EXCEPT ![m] = FateValue(m)']
    BY <1>1, <1>2, <1>4, FateIs
  <2>2. Contract!Queue(m) \/ Contract!Deliver(m) \/ Contract!Drop(m)
    BY <1>4, <2>1, FateIs
       DEF Contract!Queue, Contract!Deliver, Contract!Drop, Contract!Becomes
  <2>3. QED BY <1>4, <2>2 DEF Contract!Next, Kept
<1>5. QED BY <1>3, <1>4

(* A call's step is a step of the contract or a stutter ...                *)
LEMMA CallKeepsContract ==
  ASSUME IInv, NEW m \in Messages, NEW o \in Origins,
         Arrive(m, o) \/ HandlerStep(m, o) \/ RecordingRaised(m, o)
  PROVE  Contract!Next \/ UNCHANGED Fate
<1>0. TypeOK /\ \A n \in Messages \ {m} : SameFate(n)
  BY CallMoves DEF IInv, SameFate
<1>1. m \in Kept /\ handler[m][o] \notin BeforeKey => FateValue(m) = "offered"
  BY InHandIsKeyed DEF Kept, Untouched, FateValue, IsOpen, OpenStatus
<1>2. CASE UNCHANGED <<row, mapped, logged>>
  <2>1. FateValue(m)' = FateValue(m)
    BY <1>2 DEF FateValue, IsOpen
  <2>2. QED BY <1>0, <2>1, OneFate
<1>3. CASE NoTopic(m, o) \/ ChatDisabled(m, o) \/ LogFailure(m, o)
  <2>1. /\ UNCHANGED <<row, mapped>>
        /\ logged'[m] \in {"failed", "disabled"}
        /\ handler[m][o] \notin BeforeKey
    BY <1>0, <1>3 DEF NoTopic, ChatDisabled, LogFailure, TypeOK, At, BeforeKey
  <2>2. m \in Kept => FateValue(m)' = "dropped"
    BY <2>1, InHandIsKeyed DEF Kept, FateValue, Untouched, IsOpen, OpenStatus
  <2>3. QED BY <1>0, <1>1, <2>1, <2>2, OneFate
<1>4. CASE RecordForwarded(m, o)
  <2>1. FateValue(m)' = "delivered" /\ handler[m][o] \notin BeforeKey
    BY <1>4 DEF RecordForwarded, FateValue, At, BeforeKey
  <2>2. QED BY <1>0, <1>1, <2>1, OneFate
<1>5. CASE QueueText(m, o)
  <2>1. /\ row'[m] = Enqueued(row[m], 1) /\ UNCHANGED mapped
        /\ handler[m][o] \notin BeforeKey
    BY <1>0, <1>5 DEF QueueText, TypeOK, At, BeforeKey
  <2>2. m \in Kept => FateValue(m)' = "queued"
    BY <2>1, InHandIsKeyed
       DEF Kept, FateValue, Untouched, Enqueued, IsOpen, OpenStatus
  <2>3. QED BY <1>0, <1>1, <2>1, <2>2, OneFate
<1>6. QED
  BY <1>2, <1>3, <1>4, <1>5
     DEF Arrive, HandlerStep, CheckDuplicate, SaveKey, Routed, Forward,
         RecordingRaised, db

(* ... and so is a step of the worker.                                     *)
LEMMA WorkerKeepsContract ==
  ASSUME IInv, Poll \/ (\E m \in Messages : LeaseJob(m)) \/ JobStep
  PROVE  Contract!Next \/ UNCHANGED Fate
<1>0. TypeOK
  BY DEF IInv
<1>1. ASSUME UNCHANGED <<row, mapped, logged>> PROVE UNCHANGED Fate
  <2>1. \A n \in Kept : FateValue(n)' = FateValue(n)
    BY <1>1 DEF FateValue, IsOpen
  <2>2. Fate' = [n \in Kept |-> FateValue(n)']
    BY FateIs
  <2>3. QED BY <2>1, <2>2, FateIs
<1>2. ASSUME NEW m \in Messages, IsOpen(row[m]),
             NEW new, row' = [row EXCEPT ![m] = new],
             \/ IsOpen(new) /\ UNCHANGED mapped
             \/ new.status = "failed" /\ UNCHANGED mapped
             \/ mapped' = mapped \cup {m},
             \A n \in Messages \ {m} : logged'[n] = logged[n]
      PROVE  Contract!Next \/ UNCHANGED Fate
  <2>1. row'[m] = new /\ \A n \in Messages \ {m} : SameFate(n)
    BY <1>0, <1>2 DEF SameFate, TypeOK
  <2>2. FateValue(m) = IF m \in mapped THEN "delivered" ELSE "queued"
    BY <1>2 DEF FateValue
  <2>3. \/ FateValue(m)' = "delivered"
        \/ /\ FateValue(m)' \in {"queued", "dropped"}
           /\ m \notin mapped
    BY <1>2, <2>1 DEF FateValue
  <2>4. FateValue(m) = "delivered" => FateValue(m)' = "delivered"
    BY <1>2, <2>2 DEF FateValue
  <2>5. QED BY <2>1, <2>2, <2>3, <2>4, OneFate
<1>3. CASE Poll \/ SendJob
  BY <1>1, <1>3 DEF Poll, SendJob, db
<1>4. ASSUME NEW m \in Messages, LeaseJob(m)
      PROVE  Contract!Next \/ UNCHANGED Fate
  <2>1. CASE CanLease(row[m])
    <3>1. row[m] \in Row /\ IsOpen(row[m])
      BY <1>0, <2>1 DEF CanLease, TypeOK
    <3>2. IsOpen(Leased(row[m]))
      BY <3>1 DEF Leased, Row, IsOpen, OpenStatus
    <3>3. QED BY <1>2, <1>4, <2>1, <3>1, <3>2 DEF LeaseJob
  <2>2. CASE ~CanLease(row[m])
    BY <1>1, <1>4, <2>2 DEF LeaseJob
  <2>3. QED BY <2>1, <2>2
<1>5. ASSUME worker # "idle"
      PROVE  /\ job \in Messages /\ IsOpen(row[job])
             /\ Failed(row[job]).status = "failed"
             /\ \A d \in 0..MaxDelay : IsOpen(Retried(row[job], d))
  <2>1. job \in Messages /\ row[job] \in Row /\ IsOpen(row[job])
    BY <1>5, JobIsKeyed
  <2>2. QED BY <2>1 DEF IsOpen, OpenStatus, Failed, Retried, Row
<1>6. CASE ExpireJob \/ GiveUpJob
  BY <1>2, <1>5, <1>6 DEF ExpireJob, GiveUpJob
<1>7. CASE JobSent
  BY <1>0, <1>2, <1>5, <1>7 DEF JobSent, TypeOK
<1>8. CASE RetryJob
  <2>1. job \in Messages
    BY <1>8, <1>5 DEF RetryJob
  <2>2. NextDelay(snap[job]) \in 0..MaxDelay
    BY <1>0, <2>1, NextDelayType, QueueAssumption DEF TypeOK
  <2>3. IsOpen(Retried(row[job], NextDelay(snap[job])))
    BY <2>2, <1>5, <1>8 DEF RetryJob
  <2>4. QED BY <1>2, <1>5, <1>8, <2>3 DEF RetryJob
<1>9. QED BY <1>3, <1>4, <1>6, <1>7, <1>8 DEF JobStep

(* Refinement: for every message no sweep replays, over crashes and failed *)
(* transactions, each step of handlers, worker and time is a step of the   *)
(* contract or none: what is delivered or dropped stays so, and a queued   *)
(* text is never merely offered again.  (That the queue is worked off is   *)
(* fairness, which the run checks.)                                        *)
THEOREM KeepsTheContract == Spec => Contract!Safety
<1>1. Init => Contract!Init
  <2> SUFFICES ASSUME Init PROVE Contract!Init
    OBVIOUS
  <2>1. \A m \in Kept : FateValue(m) = "offered"
    BY DEF Init, FateValue, NoRow, IsOpen, OpenStatus, Kept
  <2>2. QED BY <2>1, FateIs DEF Contract!Init, Kept
<1>2. IInv /\ [Next]_vars => [Contract!Next]_Fate
  <2> SUFFICES ASSUME IInv, [Next]_vars PROVE Contract!Next \/ UNCHANGED Fate
    OBVIOUS
  <2>1. ASSUME \A n \in Messages : SameFate(n) PROVE UNCHANGED Fate
    <3>1. \A n \in Kept : FateValue(n)' = FateValue(n)
      BY <2>1 DEF SameFate, FateValue, IsOpen, Kept
    <3>2. Fate' = [n \in Kept |-> FateValue(n)']
      BY FateIs
    <3>3. QED BY <3>1, <3>2, FateIs
  <2>2. CASE UNCHANGED vars \/ Crash
    BY <2>1, <2>2 DEF vars, Crash, db, SameFate
  <2>3. CASE Tick
    <3>1. \A m \in Messages : row'[m].status = row[m].status
      BY <2>3 DEF Tick, IInv, TypeOK, Aged, Row
    <3>2. QED BY <2>1, <2>3, <3>1 DEF Tick, SameFate
  <2>4. QED BY <2>2, <2>3, CallKeepsContract, WorkerKeepsContract DEF Next
<1>3. QED BY <1>1, <1>2, AlwaysIInv, PTL DEF Spec, Contract!Safety
===============================================================================
