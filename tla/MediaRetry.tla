------------------------------- MODULE MediaRetry -------------------------------
(***************************************************************************)
(* The media of one MAX message.  The message comes as a base version and  *)
(* perhaps as an edited one, each live, again after a reconnect, or with   *)
(* the files MAX had not ready before; an attachment is known by its       *)
(* index.  What the adapter could not download goes into                   *)
(* pending_media_downloads, from where one worker tries again; what        *)
(* Telegram took goes into delivered_media_parts, which both versions      *)
(* share.                                                                  *)
(*                                                                         *)
(* The handlers and the worker are tasks of one event loop.  A timestamp   *)
(* is kept as what the statements ask of it: is the row due, does a lease  *)
(* block it, has the cached payload expired.                               *)
(***************************************************************************)
EXTENDS Integers, FiniteSets

CONSTANTS Parts,        \* indices of the attachments
          EditOnly,     \* those only the edited version has
          Mixes,        \* what kinds of attachment they are
          HasText,      \* the message has a text beside its media
          Calls,        \* numbers of the events, one call of the handler each
          MaxAttempts,  \* VIDEO_MAX_DEFERRED_ATTEMPTS
          PollLimit,
          MaxFaults,    \* crashes and lost answers of Telegram
          MaxSpare      \* excuses remembered, at least one for each that may post

(* How a failed download can be tried again: by a reference MAX accepts at *)
(* any time, by a payload kept encrypted, or only when MAX sends it again; *)
(* a big file is over max_file_size_mb.                                    *)
Refs == {"stable", "cached", "late"}
Kind == [video: BOOLEAN, ref: Refs, big: BOOLEAN]

ASSUME MediaAssumption ==
  /\ Parts \subseteq Nat
  /\ IsFiniteSet(Parts)
  /\ EditOnly \subseteq Parts
  /\ Mixes \subseteq [Parts -> Kind]
  /\ HasText \in BOOLEAN
  /\ MaxAttempts \in Nat \ {0}
  /\ PollLimit \in Nat \ {0}
  /\ MaxFaults \in Nat
  /\ MaxSpare \in Nat \ {0}
  /\ Calls \subseteq Nat
  /\ IsFiniteSet(Calls)
  /\ MaxSpare > Cardinality(Calls)

Versions == {"base", "edit"}
Has(v) == IF v = "base" THEN Parts \ EditOnly ELSE Parts
Keys == {k \in Versions \X Parts : k[2] \in Has(k[1])}

(* canonical_media_base_msg_id: the edit is looked up under the base, too. *)
Aliases(v) == {v, "base"}

VARIABLES
  kind,     \* of each attachment; never changes
  row,      \* pending_media_downloads
  cache,    \* media_recovery_cache: payloads that can be read
  part,     \* delivered_media_parts
  keyed,    \* versions in message_map
  log,      \* last entry of delivery_log for each version
  call,     \* what each call of handle_max_message is doing
  worker,   \* what the retry worker is doing
  batch,    \* the rows of its poll, as they were
  posted,   \* media Telegram has posted
  spare,    \* how many more posts of each are excused: see Excuse
  told,     \* media the user was told are lost
  faults

db == <<row, cache, part, keyed, log>>
seen == <<posted, spare, told>>
vars == <<kind, db, call, worker, batch, seen, faults>>

-----------------------------------------------------------------------------
OpenStatus == {"pending", "retry", "leased"}
Row == [st: OpenStatus \cup {"absent", "delivered", "failed"}, ref: Refs,
        tries: 0..MaxAttempts, held: BOOLEAN]
NoRow == [st |-> "absent", ref |-> "late", tries |-> 0, held |-> FALSE]
IsOpen(r) == r.st \in OpenStatus

(* enqueue_pending_media: an upsert that spares delivered rows.  It keeps  *)
(* the attempts and the lease.                                             *)
Enqueued(r, ref) ==
  IF r.st = "delivered" THEN r
  ELSE [r EXCEPT !.st = "pending", !.ref = ref]
CanLease(r) == IsOpen(r) /\ ~r.held
Leased(r) == [r EXCEPT !.st = "leased", !.held = TRUE]

(* Variant: a retry is not counted as an attempt.                          *)
TriedUncounted(k, r) == [r EXCEPT !.held = FALSE]

(* The three outcomes; their statements ask for the id alone.  Attempts    *)
(* are counted where they matter: for videos, up to MaxAttempts.           *)
Tried(k, r) == [r EXCEPT !.tries = IF kind[k[2]].video /\ @ < MaxAttempts
                                   THEN @ + 1 ELSE @,
                         !.held = FALSE]
Retried(k, r) == [Tried(k, r) EXCEPT !.st = "retry"]
Failed(k, r) == [Tried(k, r) EXCEPT !.st = "failed"]
Delivered == [NoRow EXCEPT !.st = "delivered"]

(* is_retryable_media_failure, is_cached_payload_media_failure             *)
RefOf(p) == kind[p].ref

First(S) == CHOOSE p \in S : \A q \in S : p <= q

(* delivery_log, as far as anybody reads it: "delivered" without an error  *)
(* or as late_media_recovered (is_late_duplicate_resolved_delivery), and   *)
(* "partial" with attachment_download_failed.                              *)
LogStatus == {"none", "delivered", "partial", "other"}
Resolved(v) == log[v] = "delivered"

(* find_delivered_media_part, under the base's id: by index and kind, then *)
(* by reference.                                                           *)
IsDelivered(p) == p \in part

(* is_edit_media_resolved_by_base_delivery: a base that was delivered      *)
(* before parts were recorded vouches for the media of its edits.          *)
EditResolved(v) == v = "edit" /\ part = {} /\ Resolved("base")

(* find_existing_pending_media_for_failure: by message, then by reference. *)
Existing(v, p) ==
  \/ \E w \in Aliases(v) : p \in Has(w) /\ IsOpen(row[<<w, p>>])
  \/ RefOf(p) = "stable" /\ \E k \in Keys :
       k[2] = p /\ IsOpen(row[k]) /\ row[k].ref = "stable"

CallPC == {"idle", "checking", "accepted", "failures", "insert",
           "sending", "saving", "record", "late", "over"}
WorkerPC == {"idle", "look", "download", "relook", "send", "save", "close",
             "giveback", "tell", "fail"}
NoCall == [pc |-> "idle", v |-> "base", got |-> {}, todo |-> {}, want |-> {},
           sent |-> {}, posted |-> FALSE, legacy |-> FALSE]
NoJob == [pc |-> "idle", key |-> <<"base", 0>>, ref |-> "late", tries |-> 0]

TypeOK ==
  /\ kind \in Mixes
  /\ row \in [Keys -> Row]
  /\ cache \subseteq Keys
  /\ part \subseteq Parts
  /\ keyed \subseteq Versions
  /\ log \in [Versions -> LogStatus]
  /\ \A c \in Calls :
       /\ call[c].pc \in CallPC /\ call[c].v \in Versions
       /\ call[c].got \subseteq Has(call[c].v)
       /\ call[c].todo \subseteq Has(call[c].v)
       /\ call[c].want \subseteq Has(call[c].v)
       /\ call[c].sent \subseteq call[c].got
  /\ worker.pc \in WorkerPC
  /\ worker.pc # "idle" => worker.key \in Keys
  /\ \A j \in batch : j.key \in Keys /\ j.ref \in Refs
  /\ posted \subseteq Parts
  /\ spare \in [Parts -> Int]
  /\ told \subseteq Parts
  /\ faults \in 0..MaxFaults

Init ==
  /\ kind \in Mixes
  /\ row = [k \in Keys |-> NoRow]
  /\ cache = {}
  /\ part = {}
  /\ keyed = {}
  /\ log = [v \in Versions |-> "none"]
  /\ call = [c \in Calls |-> NoCall]
  /\ worker = NoJob
  /\ batch = {}
  /\ posted = {}
  /\ spare = [p \in Parts |-> 1]
  /\ told = {}
  /\ faults = 0

-----------------------------------------------------------------------------
(* Who has decided to post a medium and has not yet recorded that it did.  *)
CallHolds(c, p) ==
  \/ call[c].pc \in {"sending", "saving"} /\ p \in call[c].todo
  \/ call[c].pc = "late" /\ p \in call[c].todo \cup call[c].sent
WorkerHolds(p) ==
  worker.pc \in {"send", "save"} /\ worker.key[2] = p

(* Each medium may be posted once, and once more for every excuse.  More   *)
(* than MaxSpare are not remembered.                                       *)
Excuse(S) ==
  spare' = [p \in Parts |-> IF p \in S /\ spare[p] < MaxSpare
                           THEN spare[p] + 1 ELSE spare[p]]
Post(p) ==
  /\ posted' = posted \cup {p}
  /\ spare' = [spare EXCEPT ![p] = @ - 1]
PostUnanswered(p) == posted' = posted \cup {p} /\ UNCHANGED spare

(* Two at once may both post: the look of the second is what allows it.    *)
Overlap(c, S) ==
  Excuse({p \in S : WorkerHolds(p) \/ \E d \in Calls \ {c} : CallHolds(d, p)})

At(c, pc) == call[c].pc = pc
Goto(c, pc) == call' = [call EXCEPT ![c].pc = pc]
Finish(c) == call' = [call EXCEPT ![c] = [NoCall EXCEPT !.pc = "over"]]
Missing(c) == Has(call[c].v) \ call[c].got

-----------------------------------------------------------------------------
(* handle_max_message.  Every event carries some of its files.             *)

(* Calls are alike, so they come in their order.                           *)
Arrive(c, v, got) ==
  /\ At(c, "idle")
  /\ \A d \in Calls : d < c => ~At(d, "idle")
  /\ got \subseteq Has(v)
  /\ call' = [call EXCEPT ![c].pc = "checking", ![c].v = v, ![c].got = got]
  /\ UNCHANGED <<kind, db, worker, batch, seen, faults>>

(* is_duplicate; a known message may bring what was missing.               *)
CheckDuplicate(c) ==
  /\ At(c, "checking")
  /\ call[c].v \notin keyed
  /\ Goto(c, "accepted")
  /\ UNCHANGED <<kind, db, worker, batch, seen, faults>>

(* recover_late_duplicate_media up to its first send.                      *)
Waiting(c) == {p \in call[c].got : ~IsDelivered(p)}
HasPending(c) ==
  \E p \in Waiting(c), w \in Aliases(call[c].v) :
    p \in Has(w) /\ IsOpen(row[<<w, p>>])
LateLook(c) ==
  /\ At(c, "checking")
  /\ call[c].v \in keyed
  /\ IF Waiting(c) # {} /\ (log[call[c].v] = "partial" \/ HasPending(c))
     THEN /\ call' = [call EXCEPT ![c].pc = "late", ![c].todo = Waiting(c),
                                  ![c].want = Waiting(c)]
          /\ Overlap(c, Waiting(c))
     ELSE /\ Finish(c)
          /\ UNCHANGED spare
  /\ UNCHANGED <<kind, db, worker, batch, posted, told, faults>>

(* save_inbound_idempotency_key, and the edit's base is looked up.         *)
SaveKey(c) ==
  /\ At(c, "accepted")
  /\ keyed' = keyed \cup {call[c].v}
  /\ call' = [call EXCEPT ![c].pc = "failures", ![c].todo = Missing(c),
                          ![c].legacy = EditResolved(call[c].v)]
  /\ UNCHANGED <<kind, row, cache, part, log, worker, batch, seen, faults>>

(* save_media_recovery_cache_for_failure, and what a later read finds.     *)
CachePut(k) == IF RefOf(k[2]) = "cached" THEN cache \cup {k} ELSE cache
Cached(k) == k \in cache

(* enqueue_retryable_media_failures, one failure after the other.          *)
Next1(c) == First(call[c].todo)
ExamineFailure(c) ==
  /\ At(c, "failures")
  /\ call[c].todo # {}
  /\ LET p == Next1(c)
         v == call[c].v
         settled == IsDelivered(p) \/ call[c].legacy
     IN /\ cache' = IF settled THEN cache ELSE CachePut(<<v, p>>)
        /\ call' = IF settled \/ Existing(v, p)
                   THEN [call EXCEPT ![c].todo = @ \ {p}]
                   ELSE [call EXCEPT ![c].pc = "insert"]
  /\ UNCHANGED <<kind, row, part, keyed, log, worker, batch, seen, faults>>

InsertFailure(c) ==
  /\ At(c, "insert")
  /\ LET p == Next1(c)
     IN /\ row' = [row EXCEPT ![<<call[c].v, p>>] = Enqueued(@, RefOf(p))]
        /\ call' = [call EXCEPT ![c].pc = "failures", ![c].todo = @ \ {p},
                                ![c].want = @ \cup {p}]
  /\ UNCHANGED <<kind, cache, part, keyed, log, worker, batch, seen, faults>>

(* Nothing is left to send: media_parts_already_delivered or               *)
(* attachment_download_pending_duplicate.                                  *)
FailuresResolved(c) ==
  /\ Missing(c) # {}
  /\ call[c].want = {}
  /\ (\A p \in Missing(c) : IsDelivered(p)) \/ EditResolved(call[c].v)

NothingNew(c) ==
  /\ ~HasText
  /\ \/ call[c].got = {} /\ Missing(c) # {} /\ call[c].want = {}
     \/ Missing(c) = {} /\ call[c].got # {} /\ Waiting(c) = {}

LogOnly(c) ==
  /\ At(c, "failures")
  /\ call[c].todo = {}
  /\ NothingNew(c)
  /\ log' = [log EXCEPT ![call[c].v] = "other"]
  /\ Finish(c)
  /\ UNCHANGED <<kind, row, cache, part, keyed, worker, batch, seen, faults>>

(* forward_to_telegram: the attachments not recorded, one by one.          *)
ForwardStart(c) ==
  /\ At(c, "failures")
  /\ call[c].todo = {}
  /\ ~NothingNew(c)
  /\ call' = [call EXCEPT ![c].pc = "sending", ![c].todo = Waiting(c),
                          ![c].legacy = FailuresResolved(c)]
  /\ Overlap(c, Waiting(c))
  /\ UNCHANGED <<kind, db, worker, batch, posted, told, faults>>

(* Too big a file is a text of its own and is not recorded as a part.      *)
SendPart(c) ==
  /\ At(c, "sending")
  /\ call[c].todo # {}
  /\ LET p == Next1(c)
     IN \/ /\ ~kind[p].big
           /\ Post(p)
           /\ call' = [call EXCEPT ![c].pc = "saving", ![c].posted = TRUE]
        \/ /\ kind[p].big
           /\ call' = [call EXCEPT ![c].todo = @ \ {p}, ![c].posted = TRUE]
           /\ UNCHANGED <<posted, spare>>
        \/ /\ call' = [call EXCEPT ![c].todo = @ \ {p}]
           /\ UNCHANGED <<posted, spare>>
  /\ UNCHANGED <<kind, db, worker, batch, told, faults>>

(* Telegram posts a medium and the answer is lost.                         *)
SendPartLost(c) ==
  /\ faults < MaxFaults
  /\ At(c, "sending")
  /\ call[c].todo # {}
  /\ LET p == Next1(c)
     IN /\ ~kind[p].big
        /\ PostUnanswered(p)
        /\ call' = [call EXCEPT ![c].todo = @ \ {p}]
  /\ faults' = faults + 1
  /\ UNCHANGED <<kind, db, worker, batch, told>>

SavePart(c) ==
  /\ At(c, "saving")
  /\ part' = part \cup {Next1(c)}
  /\ call' = [call EXCEPT ![c].pc = "sending", ![c].todo = @ \ {Next1(c)}]
  /\ UNCHANGED <<kind, row, cache, keyed, log, worker, batch, seen, faults>>

(* The waiting notice, or the text, or a placeholder if nothing was sent.  *)
SendRest(c) ==
  /\ At(c, "sending")
  /\ call[c].todo = {}
  /\ \E answered \in BOOLEAN :
       /\ call[c].posted /\ call[c].want = {} => answered
       /\ call' = [call EXCEPT ![c].pc = "record",
                               ![c].posted = @ \/ answered]
  /\ UNCHANGED <<kind, db, worker, batch, seen, faults>>

Record(c) ==
  /\ At(c, "record")
  /\ keyed' = keyed \cup {call[c].v}
  /\ log' = [log EXCEPT ![call[c].v] =
               CASE ~call[c].posted -> "other"
                 [] call[c].posted /\ Missing(c) # {} /\ ~call[c].legacy
                      -> "partial"
                 [] OTHER -> "delivered"]
  /\ Finish(c)
  /\ UNCHANGED <<kind, row, cache, part, worker, batch, seen, faults>>

(* Repository.transaction raises while another task's is open: the handler *)
(* ends with the message posted and no entry in delivery_log.              *)
RecordRefused(c) ==
  /\ At(c, "record")
  /\ call[c].posted
  /\ Finish(c)
  /\ UNCHANGED <<kind, db, worker, batch, seen, faults>>

-----------------------------------------------------------------------------
(* The rest of recover_late_duplicate_media.                               *)

LateSend(c) ==
  /\ At(c, "late")
  /\ call[c].todo # {}
  /\ LET p == Next1(c)
     IN \/ /\ IF kind[p].big THEN UNCHANGED <<posted, spare>> ELSE Post(p)
           /\ call' = [call EXCEPT ![c].todo = @ \ {p}, ![c].sent = @ \cup {p}]
        \/ /\ call' = [call EXCEPT ![c].todo = @ \ {p}]
           /\ UNCHANGED <<posted, spare>>
  /\ UNCHANGED <<kind, db, worker, batch, told, faults>>

(* If one was not sent nothing is recorded, not even what was, and the     *)
(* next duplicate starts again.                                            *)
LateIncomplete(c) ==
  /\ At(c, "late")
  /\ call[c].todo = {}
  /\ call[c].sent # call[c].want
  /\ Finish(c)
  /\ Excuse(call[c].sent)
  /\ UNCHANGED <<kind, db, worker, batch, posted, told, faults>>

(* One transaction: parts, rows and delivery_log.                          *)
LateSaved(c) ==
  /\ At(c, "late")
  /\ call[c].todo = {}
  /\ call[c].sent = call[c].want
  /\ part' = part \cup call[c].sent
  /\ row' = [k \in Keys |->
               IF /\ k[1] \in Aliases(call[c].v) /\ k[2] \in call[c].sent
                  /\ IsOpen(row[k])
               THEN Delivered ELSE row[k]]
  /\ log' = [log EXCEPT ![call[c].v] = "delivered"]
  /\ Finish(c)
  /\ UNCHANGED <<kind, cache, keyed, worker, batch, seen, faults>>

(* The transaction is refused, as in RecordRefused: all of them were sent, *)
(* nothing is recorded, and the next duplicate or the worker sends again.  *)
LateRefused(c) ==
  /\ At(c, "late")
  /\ call[c].todo = {}
  /\ call[c].sent = call[c].want
  /\ Finish(c)
  /\ Excuse(call[c].sent)
  /\ UNCHANGED <<kind, db, worker, batch, posted, told, faults>>

CallStep(c) ==
  \/ CheckDuplicate(c) \/ LateLook(c) \/ SaveKey(c)
  \/ ExamineFailure(c) \/ InsertFailure(c) \/ LogOnly(c)
  \/ ForwardStart(c) \/ SendPart(c) \/ SavePart(c) \/ SendRest(c)
  \/ Record(c) \/ RecordRefused(c)
  \/ LateSend(c) \/ LateIncomplete(c) \/ LateSaved(c) \/ LateRefused(c)

-----------------------------------------------------------------------------
(* run_pending_media_downloads and process_pending_media_download.         *)

Job(k) == [pc |-> "look", key |-> k, ref |-> row[k].ref, tries |-> row[k].tries]

(* Of the rows that are open and not leased any may have fallen due.       *)
Poll(k) ==
  /\ worker.pc = "idle"
  /\ batch = {}
  /\ \E polled \in SUBSET {l \in Keys : CanLease(row[l])} :
       /\ k \in polled
       /\ Cardinality(polled) <= PollLimit
       /\ batch' = {Job(l) : l \in polled}
  /\ UNCHANGED <<kind, db, call, worker, seen, faults>>

LeaseJob(j) ==
  /\ worker.pc = "idle"
  /\ batch' = batch \ {j}
  /\ IF CanLease(row[j.key])
     THEN /\ row' = [row EXCEPT ![j.key] = Leased(@)]
          /\ worker' = j
     ELSE UNCHANGED <<kind, row, worker>>
  /\ UNCHANGED <<kind, cache, part, keyed, log, call, seen, faults>>

WorkerAt(pc) == worker.pc = pc
WorkerTo(pc) == worker' = [worker EXCEPT !.pc = pc]
P == worker.key[2]

(* Variant: only delivery_log is asked, as before parts were recorded.     *)
IsRecoveredByLog(k) == part = {} /\ \E w \in Aliases(k[1]) : Resolved(w)

(* mark_pending_media_delivered_if_late_recovered                          *)
IsRecovered(k) ==
  \/ IsDelivered(k[2])
  \/ part = {} /\ \E w \in Aliases(k[1]) : Resolved(w)

Look ==
  /\ WorkerAt("look")
  /\ ~IsRecovered(worker.key)
  /\ WorkerTo(IF worker.ref = "late" THEN "tell" ELSE "download")
  /\ UNCHANGED <<kind, db, call, batch, seen, faults>>

(* The late duplicate has brought the medium.                              *)
CloseRecovered ==
  /\ worker.pc \in {"look", "relook"}
  /\ IsRecovered(worker.key)
  /\ row' = [row EXCEPT ![worker.key] = Delivered]
  /\ worker' = NoJob
  /\ UNCHANGED <<kind, cache, part, keyed, log, call, batch, seen, faults>>

(* By the reference, of the source and of the wrapping message, then by    *)
(* the cached payload; a job that only has a payload ends with it.         *)
Download ==
  /\ WorkerAt("download")
  /\ \E found \in BOOLEAN :
       /\ found => worker.ref = "stable" \/ Cached(worker.key)
       /\ WorkerTo(CASE found -> "relook"
                     [] ~found /\ worker.ref = "cached" /\ ~Cached(worker.key)
                          -> "tell"
                     [] OTHER -> "giveback")
  /\ UNCHANGED <<kind, db, call, batch, seen, faults>>

(* An exception of the adapter is a failed attempt.                        *)
DownloadRaised ==
  /\ WorkerAt("download")
  /\ worker.ref = "stable" \/ Cached(worker.key)
  /\ WorkerTo("giveback")
  /\ UNCHANGED <<kind, db, call, batch, seen, faults>>

Relook ==
  /\ WorkerAt("relook")
  /\ ~IsRecovered(worker.key)
  /\ WorkerTo(IF kind[P].big THEN "tell" ELSE "send")
  /\ IF kind[P].big THEN UNCHANGED spare ELSE Excuse({p \in {P} : \E c \in Calls : CallHolds(c, p)})
  /\ UNCHANGED <<kind, db, call, batch, posted, told, faults>>

SendJob ==
  /\ WorkerAt("send")
  /\ \/ WorkerTo("save") /\ Post(P)
     \/ WorkerTo("giveback") /\ UNCHANGED <<posted, spare>>
  /\ UNCHANGED <<kind, db, call, batch, told, faults>>

SendJobLost ==
  /\ faults < MaxFaults
  /\ WorkerAt("send")
  /\ PostUnanswered(P)
  /\ WorkerTo("giveback")
  /\ faults' = faults + 1
  /\ UNCHANGED <<kind, db, call, batch, told>>

(* The reply mapping and the part, then the row: three commits.            *)
SaveJobPart ==
  /\ WorkerAt("save")
  /\ part' = part \cup {P}
  /\ WorkerTo("close")
  /\ UNCHANGED <<kind, row, cache, keyed, log, call, batch, seen, faults>>

CloseJob ==
  /\ WorkerAt("close")
  /\ row' = [row EXCEPT ![worker.key] = Delivered]
  /\ worker' = NoJob
  /\ UNCHANGED <<kind, cache, part, keyed, log, call, batch, seen, faults>>

(* mark_pending_media_retry; attempts are those of the poll.               *)
Exhausted == kind[P].video /\ worker.tries + 1 >= MaxAttempts

GiveUp ==
  /\ WorkerAt("giveback")
  /\ Exhausted
  /\ WorkerTo("tell")
  /\ UNCHANGED <<kind, db, call, batch, seen, faults>>

GiveBack ==
  /\ WorkerAt("giveback")
  /\ ~Exhausted
  /\ row' = [row EXCEPT ![worker.key] = Retried(worker.key, @)]
  /\ worker' = NoJob
  /\ UNCHANGED <<kind, cache, part, keyed, log, call, batch, seen, faults>>

(* Nobody asks whether Telegram took the notice.                           *)
Tell ==
  /\ WorkerAt("tell")
  /\ told' = told \cup {P}
  /\ WorkerTo("fail")
  /\ UNCHANGED <<kind, db, call, batch, posted, spare, faults>>

FailJob ==
  /\ WorkerAt("fail")
  /\ row' = [row EXCEPT ![worker.key] = Failed(worker.key, @)]
  /\ worker' = NoJob
  /\ UNCHANGED <<kind, cache, part, keyed, log, call, batch, seen, faults>>

JobStep ==
  \/ Look \/ CloseRecovered \/ Download \/ DownloadRaised \/ Relook
  \/ SendJob \/ SaveJobPart \/ CloseJob \/ GiveUp \/ GiveBack
  \/ Tell \/ FailJob

-----------------------------------------------------------------------------
(* Time: a lease lapses, a payload expires.                                *)

(* A lease that lapses under its worker has no effect: nobody else polls.  *)
LeaseLapses(k) ==
  /\ row[k].held
  /\ worker.pc = "idle" \/ worker.key # k
  /\ row' = [row EXCEPT ![k].held = FALSE]
  /\ UNCHANGED <<kind, cache, part, keyed, log, call, worker, batch, seen, faults>>

PayloadExpires(k) ==
  /\ k \in cache
  /\ cache' = cache \ {k}
  /\ UNCHANGED <<kind, row, part, keyed, log, call, worker, batch, seen, faults>>

(* A post whose record the crash cuts off may be repeated.                 *)
Unrecorded(p) ==
  \/ WorkerAt("save") /\ P = p
  \/ \E c \in Calls :
       \/ At(c, "saving") /\ Next1(c) = p
       \/ At(c, "late") /\ p \in call[c].sent

Crash ==
  /\ faults < MaxFaults
  /\ faults' = faults + 1
  /\ Excuse({p \in Parts : Unrecorded(p)})
  /\ call' = [c \in Calls |-> IF At(c, "idle") THEN call[c]
                              ELSE [NoCall EXCEPT !.pc = "over"]]
  /\ worker' = NoJob
  /\ batch' = {}
  /\ UNCHANGED <<kind, db, posted, told>>

Next ==
  \/ \E c \in Calls, v \in Versions, got \in SUBSET Parts : Arrive(c, v, got)
  \/ \E c \in Calls : CallStep(c) \/ SendPartLost(c)
  \/ (\E k \in Keys : Poll(k)) \/ (\E j \in batch : LeaseJob(j)) \/ JobStep \/ SendJobLost
  \/ \E k \in Keys : LeaseLapses(k) \/ PayloadExpires(k)
  \/ Crash

Spec == Init /\ [][Next]_vars

(* Every await of a handler and of the worker has a timeout, the worker's  *)
(* loop outlives its exceptions, and time passes.  A poll takes the rows   *)
(* that have been due for longest, so each has its turn.                   *)
FairSpec ==
  /\ Spec
  /\ \A c \in Calls : WF_vars(CallStep(c))
  /\ WF_vars(\E j \in batch : LeaseJob(j)) /\ WF_vars(JobStep)
  /\ \A k \in Keys : SF_vars(Poll(k)) /\ WF_vars(LeaseLapses(k))
                     /\ WF_vars(PayloadExpires(k))

-----------------------------------------------------------------------------
(* Properties                                                              *)

(* A medium is posted twice only when a second task had looked while the   *)
(* first was posting, when a late recovery was left incomplete or its      *)
(* transaction was refused, when an answer was lost, or when a crash fell  *)
(* between a post and its record; each of these costs one post at most.    *)
BoundedCopies == \A p \in Parts : spare[p] >= 0

(* Once a medium is recorded its row does not stay open: even the retries  *)
(* that have no limit end.  The events are finitely many, so the end is    *)
(* the end of every row.                                                   *)
RecordedCloses ==
  <>[](\A k \in Keys : k[2] \in part => ~IsOpen(row[k]))

(* A row whose retries are limited is closed in the end.                   *)
IsLimited(p) == kind[p].video \/ RefOf(p) # "stable"
Settles ==
  <>[](\A k \in Keys : IsLimited(k[2]) => ~IsOpen(row[k]))

(* Stated by docs/runbooks/operations.md: an edit's new attachments are    *)
(* sent, and a notice stays only for what was not delivered.               *)
EditKeepsMedia ==
  faults = 0 /\ log["edit"] # "none" => \A p \in EditOnly :
    \/ p \in posted \cup told
    \/ row[<<"edit", p>>].st # "absent"
===============================================================================
