------------------------------- MODULE MaxEvents -------------------------------
(***************************************************************************)
(* One message of MAX on its way to the bridge.  Every notification of it  *)
(* is seen twice, by the raw interceptor and by the typed handler, and     *)
(* either of them may find it empty or its media unusable.  What is empty  *)
(* is looked for in the history: at once, by a task that waits for the     *)
(* history cache, by a worker that keeps a job in a file, and, in a dialog *)
(* of two, by the sweep.                                                   *)
(*                                                                         *)
(* All of them end in the same handler, which forgets the job first and    *)
(* hands the message to the bridge some awaits later.  The bridge drops a  *)
(* message it knows (InboundDelivery says how).                            *)
(***************************************************************************)
EXTENDS Integers, FiniteSets

CONSTANTS MaxNotices,  \* notifications: the first and repeated ones
          MaxLapses,   \* of the marks and the cache, which live for a while
          MaxMisses,   \* requests of the history that fail
          MaxFaults    \* crashes, handlers that raise, files not written

ASSUME EventsAssumption ==
  {MaxNotices, MaxLapses, MaxMisses, MaxFaults} \subseteq Nat

VARIABLES
  kind,        \* of the chat: the sweep only reads dialogs
  interceptor, \* the library takes a raw handler
  history,     \* what the history of MAX shows of the message
  notice,      \* what each notification carries, raw and typed
  pc,          \* who is handling the message, and where
  mark,        \* processed, unwrapped: marks of the raw handler; cached
  job,         \* pending_empty_recoveries: none, wait or due
  saved,       \* the same job in the file
  known,       \* the bridge has the message
  handled,     \* live handlers that have begun to handle content
  owed,        \* the message was accepted
  excused,     \* a fault has hit it where only memory held it
  spent        \* the bounds

vars == <<kind, interceptor, history, notice, pc, mark, job, saved, known,
          handled, owed, excused, spent>>

Kinds == {"dialog", "group", "channel"}
Notices == 1..MaxNotices
Live == {"raw", "typed"} \X Notices
Task == <<"task", 0>>
Worker == <<"worker", 0>>
Sweep == <<"sweep", 0>>
Slots == Live \cup {Task, Worker, Sweep}

(* The typed parser loses what the raw frame wraps, and channel media      *)
(* arrive without a usable reference.                                      *)
Contents(k) ==
  IF k = "channel" THEN {<<"full", "full">>, <<"full", "degraded">>}
  ELSE {<<"full", "full">>, <<"full", "empty">>, <<"empty", "empty">>}

Nothing == [processed |-> FALSE, unwrapped |-> FALSE, cached |-> FALSE]

Init ==
  /\ kind \in Kinds
  /\ interceptor \in BOOLEAN
  /\ history = "none"
  /\ notice = [n \in Notices |-> <<"none", "none">>]
  /\ pc = [s \in Slots |-> "idle"]
  /\ mark = Nothing
  /\ job = "none" /\ saved = FALSE
  /\ known = FALSE
  /\ handled = {}
  /\ owed = FALSE /\ excused = FALSE
  /\ spent = [lapses |-> 0, misses |-> 0, faults |-> 0]

Bounds == [lapses |-> MaxLapses, misses |-> MaxMisses, faults |-> MaxFaults]

Spend(what) ==
  /\ spent[what] < Bounds[what]
  /\ spent' = [spent EXCEPT ![what] = @ + 1]

Go(s, there) == pc' = [pc EXCEPT ![s] = there]

-----------------------------------------------------------------------------
(* pending_empty_recoveries.json: a save that fails is logged.             *)

Save(j) ==
  /\ job' = j
  /\ \/ saved' = (j # "none") /\ UNCHANGED <<spent, excused>>
     \/ /\ Spend("faults")
        /\ excused' = (excused \/ j = "wait") /\ saved' = saved

Forget ==
  IF job = "none" THEN UNCHANGED <<job, saved, spent, excused>> ELSE Save("none")

(* _handle_raw_message of content: the job is forgotten, then the sender   *)
(* is resolved and the media are downloaded.                               *)
Handle(s) ==
  /\ Go(s, "resolve")
  /\ handled' = handled \cup ({s} \cap Live)
  /\ owed' = TRUE
  /\ Forget

(* The same of content from the history, with the marks m: what the raw    *)
(* handler has announced is dropped, and the mark with it.  Channel        *)
(* wrappers may be unwrapped again, and pass.                              *)
Replay(s, m) ==
  \/ /\ m.unwrapped
     /\ mark' = [m EXCEPT !.unwrapped = FALSE]
     /\ Go(s, "idle")
     /\ IF s \in {Task, Worker} THEN Forget ELSE UNCHANGED <<job, saved, spent, excused>>
     /\ UNCHANGED <<handled, owed>>
  \/ /\ m.unwrapped => kind = "channel"
     /\ mark' = m
     /\ Handle(s)

Environment == UNCHANGED <<kind, interceptor>>

-----------------------------------------------------------------------------
(* MAX                                                                     *)

Notify(n) ==
  /\ notice[n][1] = "none"
  /\ \A o \in 1..(n - 1) : notice[o][1] # "none"
  /\ \E c \in Contents(kind) : notice' = [notice EXCEPT ![n] = c]
  /\ pc' = [pc EXCEPT ![<<"raw", n>>] = IF interceptor THEN "begin" ELSE @,
                      ![<<"typed", n>>] = "begin"]
  /\ UNCHANGED <<history, mark, job, saved, known, handled, owed, excused, spent>>
  /\ Environment

Show ==
  /\ notice[1][1] # "none"
  /\ \/ history = "none" /\ history' \in {"empty", "full"}
     \/ history = "empty" /\ history' = "full"
  /\ UNCHANGED <<notice, pc, mark, job, saved, known, handled, owed, excused, spent>>
  /\ Environment

(* Marks live 30 seconds, the cache three minutes.                         *)
Lapse ==
  /\ mark # Nothing
  /\ Spend("lapses")
  /\ mark' = Nothing
  /\ UNCHANGED <<history, notice, pc, job, saved, known, handled, owed, excused>>
  /\ Environment

-----------------------------------------------------------------------------
(* _handle_raw_receive                                                     *)

(* Variant: the typed handler is not told.                                 *)
RawReceiveUnmarked(n) ==
  LET s == <<"raw", n>>
  IN /\ pc[s] = "begin"
     /\ mark' = [mark EXCEPT !.processed = TRUE]
     /\ IF ~mark.processed /\ notice[n][1] = "full" THEN Handle(s)
        ELSE Go(s, "idle") /\ UNCHANGED <<job, saved, handled, owed, excused, spent>>
     /\ UNCHANGED <<history, notice, known>>
     /\ Environment

RawReceive(n) ==
  LET s == <<"raw", n>>
  IN /\ pc[s] = "begin"
     /\ mark' = IF mark.processed THEN mark
                ELSE [mark EXCEPT !.processed = TRUE,
                                  !.unwrapped = @ \/ notice[n][1] = "full"]
     /\ IF ~mark.processed /\ notice[n][1] = "full" THEN Handle(s)
        ELSE Go(s, "idle") /\ UNCHANGED <<job, saved, handled, owed, excused, spent>>
     /\ UNCHANGED <<history, notice, known>>
     /\ Environment

(* _handle_raw_message, after the raw handler has seen the frame.          *)
TypedReceive(n) ==
  LET s == <<"typed", n>>
      read == notice[n][2]
  IN /\ pc[s] = "begin" /\ pc[<<"raw", n>>] # "begin"
     /\ mark' = [mark EXCEPT !.unwrapped = FALSE]
     /\ CASE mark.unwrapped ->
               Go(s, "idle") /\ UNCHANGED <<job, saved, handled, owed, excused, spent>>
          [] ~mark.unwrapped /\ read = "full" -> Handle(s)
          [] ~mark.unwrapped /\ read # "full" ->
               /\ Go(s, "fetch")
               /\ owed' = TRUE
               /\ UNCHANGED <<job, saved, handled, excused, spent>>
     /\ UNCHANGED <<history, notice, known>>
     /\ Environment

-----------------------------------------------------------------------------
(* _recover_empty_message_from_recent_history: the cache, the message      *)
(* alone, the raw history, the parsed history.                             *)

Found(s) ==
  /\ pc[s] = "fetch" /\ s # Sweep
  /\ mark.cached \/ history = "full"
  /\ Replay(s, [mark EXCEPT !.cached = TRUE])
  /\ UNCHANGED <<history, notice, known>>
  /\ Environment

NotFound(s) ==
  /\ pc[s] = "fetch" /\ ~mark.cached
  /\ IF history = "full" THEN Spend("misses") ELSE UNCHANGED spent

(* Variant: a job is only saved when no request has failed.                *)
WaitInMemory(n) ==
  LET s == <<"typed", n>>
  IN /\ notice[n][2] = "empty"
     /\ pc[s] = "fetch" /\ ~mark.cached
     /\ history = "full" => spent.misses < MaxMisses
     /\ pc' = [pc EXCEPT ![s] = "idle", ![Task] = IF @ = "idle" THEN "poll" ELSE @]
     /\ UNCHANGED <<history, notice, mark, known, handled, owed, job, saved, excused, spent>>
     /\ Environment

(* _schedule_empty_recovery_cache_wait                                     *)
WaitForCache(n) ==
  LET s == <<"typed", n>>
  IN /\ notice[n][2] = "empty"
     /\ pc[s] = "fetch" /\ ~mark.cached
     /\ history = "full" => spent.misses < MaxMisses
     /\ IF pc[Task] # "idle"
        THEN Go(s, "idle") /\ UNCHANGED <<job, saved, excused, spent>>
        ELSE /\ pc' = [pc EXCEPT ![s] = "idle", ![Task] = "poll"]
             /\ Save(IF job = "none" THEN "wait" ELSE job)
     /\ UNCHANGED <<history, notice, mark, known, handled, owed>>
     /\ Environment

(* _recover_degraded_channel_media_event, when the history has nothing.    *)
WaitForRaw(n) ==
  LET s == <<"typed", n>>
  IN /\ notice[n][2] = "degraded"
     /\ NotFound(s)
     /\ Go(s, "await")
     /\ UNCHANGED <<history, notice, mark, job, saved, known, handled, owed, excused>>
     /\ Environment

RawArrived(n) ==
  LET s == <<"typed", n>>
  IN /\ pc[s] = "await" /\ mark.processed
     /\ Go(s, "idle")
     /\ UNCHANGED <<history, notice, mark, job, saved, known, handled, owed, excused, spent>>
     /\ Environment

(* The cache has it, or the wait is over and the failure is delivered.     *)
DegradedEnds(n) ==
  LET s == <<"typed", n>>
  IN /\ pc[s] = "await"
     /\ \/ mark.cached /\ Replay(s, mark)
        \/ ~mark.processed /\ Handle(s) /\ UNCHANGED mark
     /\ UNCHANGED <<history, notice, known>>
     /\ Environment

-----------------------------------------------------------------------------
(* _recover_empty_message_from_raw_history_cache_later                     *)

TaskFinds ==
  /\ pc[Task] = "poll" /\ mark.cached
  /\ Replay(Task, mark)
  /\ UNCHANGED <<history, notice, known>>
  /\ Environment

TaskGivesUp ==
  /\ pc[Task] = "poll"
  /\ Go(Task, "idle")
  /\ UNCHANGED <<history, notice, mark, job, saved, known, handled, owed, excused, spent>>
  /\ Environment

(* _run_pending_empty_recoveries, _attempt_pending_empty_recovery          *)

ComesDue ==
  /\ job = "wait"
  /\ job' = "due"
  /\ UNCHANGED <<history, notice, pc, mark, saved, known, handled, owed, excused, spent>>
  /\ Environment

WorkerPick ==
  /\ pc[Worker] = "idle" /\ job = "due"
  /\ Go(Worker, "fetch")
  /\ saved' = TRUE
  /\ UNCHANGED <<history, notice, mark, job, known, handled, owed, excused, spent>>
  /\ Environment

WorkerReschedules ==
  /\ NotFound(Worker)
  /\ Go(Worker, "idle")
  /\ job' = IF job = "none" THEN "none" ELSE "wait"
  /\ saved' = (job # "none")
  /\ UNCHANGED <<history, notice, mark, known, handled, owed, excused>>
  /\ Environment

-----------------------------------------------------------------------------
(* run_dm_history_sweep, replay_recent_history                             *)

SweepStart ==
  /\ kind = "dialog" /\ pc[Sweep] = "idle"
  /\ history # "none" /\ (~known \/ job # "none")
  /\ Go(Sweep, "fetch")
  /\ UNCHANGED <<history, notice, mark, job, saved, known, handled, owed, excused, spent>>
  /\ Environment

(* Empty messages are only logged; the rest wait for is_known_message.     *)
SweepFetch ==
  /\ pc[Sweep] = "fetch"
  /\ \/ /\ history = "full"
        /\ mark' = [mark EXCEPT !.cached = TRUE]
        /\ Go(Sweep, "check")
        /\ UNCHANGED spent
     \/ /\ history = "full" => spent.misses < MaxMisses
        /\ IF history = "full" THEN Spend("misses") ELSE UNCHANGED spent
        /\ Go(Sweep, "idle")
        /\ UNCHANGED mark
  /\ UNCHANGED <<history, notice, job, saved, known, handled, owed, excused>>
  /\ Environment

(* Variant: what the raw handler has seen is left to it.                   *)
SweepSkipsProcessed ==
  /\ pc[Sweep] = "check"
  /\ IF ~known /\ ~mark.processed THEN Replay(Sweep, mark)
     ELSE Go(Sweep, "idle") /\ UNCHANGED <<mark, job, saved, handled, owed, excused, spent>>
  /\ UNCHANGED <<history, notice, known>>
  /\ Environment

SweepCheck ==
  /\ pc[Sweep] = "check"
  /\ IF ~known \/ job # "none" THEN Replay(Sweep, mark)
     ELSE Go(Sweep, "idle") /\ UNCHANGED <<mark, job, saved, handled, owed, excused, spent>>
  /\ UNCHANGED <<history, notice, known>>
  /\ Environment

-----------------------------------------------------------------------------
(* The handlers of the bridge take the message, or something raises first  *)
(* and is logged.                                                          *)
Dispatch(s) ==
  /\ pc[s] = "resolve"
  /\ known' = TRUE
  /\ Go(s, "idle")
  /\ UNCHANGED <<history, notice, mark, job, saved, handled, owed, excused, spent>>
  /\ Environment

HandlerRaises(s) ==
  /\ pc[s] = "resolve"
  /\ Spend("faults")
  /\ Go(s, "idle")
  /\ excused' = TRUE
  /\ UNCHANGED <<history, notice, mark, job, saved, known, handled, owed>>
  /\ Environment

(* The file is read again; next attempts are at most three minutes away.   *)
Crash ==
  /\ Spend("faults")
  /\ pc' = [s \in Slots |-> "idle"]
  /\ mark' = Nothing
  /\ job' = IF saved THEN "wait" ELSE "none"
  /\ excused' = (excused \/ ~saved)
  /\ UNCHANGED <<history, notice, saved, known, handled, owed>>
  /\ Environment

Receive == \E n \in Notices : RawReceive(n) \/ TypedReceive(n)
Look ==
  \/ \E s \in Slots : Found(s)
  \/ \E n \in Notices : WaitForCache(n) \/ WaitForRaw(n) \/ RawArrived(n) \/ DegradedEnds(n)
  \/ TaskFinds \/ TaskGivesUp
Work == ComesDue \/ WorkerPick \/ WorkerReschedules \/ (pc[Worker] = "fetch" /\ Found(Worker))

Next ==
  \/ \E n \in Notices : Notify(n)
  \/ Show \/ Lapse \/ Receive \/ Look
  \/ ComesDue \/ WorkerPick \/ WorkerReschedules
  \/ SweepStart \/ SweepFetch \/ SweepCheck
  \/ \E s \in Slots : Dispatch(s) \/ HandlerRaises(s)
  \/ Crash

Spec == Init /\ [][Next]_vars

(* Handlers run to their end; the worker and the sweep go on for ever.     *)
FairSpec ==
  /\ Spec
  /\ WF_vars(Receive) /\ WF_vars(Look) /\ WF_vars(Work)
  /\ WF_vars(SweepStart) /\ WF_vars(SweepFetch) /\ WF_vars(SweepCheck)
  /\ \A s \in Slots : WF_vars(Dispatch(s))

-----------------------------------------------------------------------------
(* Properties                                                              *)

(* A message that was accepted and is unknown to the bridge is in someone's *)
(* hands or has a job, unless a fault hit it while only memory held it.    *)
KeptUntilKnown ==
  owed /\ ~known /\ ~excused =>
    job # "none" \/ \E s \in Slots : pc[s] \in {"fetch", "await", "resolve"}

Notified == {n \in Notices : notice[n][1] # "none"}

(* Outside dialogs, and while the marks of the raw handler live, a message *)
(* is not handled more often than MAX has notified of it, but once more    *)
(* where two faults, a file not written and a crash, bring back a job that *)
(* was over: it takes the mark that was left for the typed handler, as the *)
(* sweep may in a dialog.                                                  *)
OnePerNotice ==
  kind # "dialog" /\ spent.lapses = 0 =>
    2 * Cardinality(handled) <= 2 * Cardinality(Notified) + spent.faults

(* Once the history shows a message of a dialog, the bridge comes to know  *)
(* it, whatever was lost before.                                           *)
DialogsCatchUp == kind = "dialog" /\ history = "full" ~> known
===============================================================================
