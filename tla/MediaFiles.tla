------------------------------- MODULE MediaFiles -------------------------------
(***************************************************************************)
(* The files of data/tmp.  A MAX message's attachments are downloaded one  *)
(* after the other, each through up to a dozen ways and with resumed       *)
(* attempts, then sent to Telegram and unlinked together; the retry worker *)
(* does the same for one attachment; a Telegram medium is downloaded and   *)
(* sent to MAX.  All of them are tasks of one event loop, and they meet in *)
(* the directory: a path is made of the attachment's own file name.        *)
(*                                                                         *)
(* A file is its chunks, <<i, k>> being the k-th one of attachment i.  An  *)
(* open file is followed where it is moved, and written in vain once it    *)
(* was unlinked.                                                           *)
(***************************************************************************)
EXTENDS Integers, Sequences, FiniteSets

CONSTANTS Tasks,      \* messages and retry jobs, MAX's and Telegram's
          Scenes,     \* [work, kind, retry, name, fromTg]: who does what
          Size,       \* chunks of an attachment
          MaxDownloadAttempts,\* MAX_DOWNLOAD_ATTEMPTS
          MaxCuts   \* crashes and interrupted operations

Nothing == <<>>
Hole == <<0, 0>>  \* never written
Gone == <<Hole>>   \* there is no file
Kinds == {"photo", "video", "audio", "document"}

(* An attachment is one task's: tried again it is another, of its name.    *)
ASSUME FilesAssumption ==
  /\ \A s \in Scenes :
       /\ s.fromTg \subseteq Tasks
       /\ \A t \in s.fromTg : Len(s.work[t]) <= 1
       /\ s.kind \in [DOMAIN s.name -> Kinds]
       /\ s.retry \subseteq DOMAIN s.name
       /\ s.work \in [Tasks -> Seq(DOMAIN s.name)]
       /\ \A t, u \in Tasks : \A k \in DOMAIN s.work[t], l \in DOMAIN s.work[u] :
            s.work[t][k] = s.work[u][l] => t = u /\ k = l
  /\ {Size, MaxDownloadAttempts} \subseteq Nat \ {0}
  /\ MaxCuts \in Nat

VARIABLES
  scene,   \* one of Scenes
  files,   \* name -> [part, local], the chunks of each or Gone
  job,     \* what each task does
  sent,    \* what was posted of an attachment; Gone when its file was
  shared,  \* attachments whose name was another's at the same time
  left,    \* names whose .part a crash or an interruption left
  kept,    \* names whose file was left, by a crash or an early end
  cuts

filesVars == <<scene, files, job, sent, shared, left, kept, cuts>>

Items == DOMAIN scene.name
Names == {scene.name[i] : i \in Items}
Whole(i) == [k \in 1..Size |-> <<i, k>>]

-----------------------------------------------------------------------------
(* Where an attachment can be had.  A description of it has a direct       *)
(* address, an audio source MAX names, an id to ask for, or some of them.  *)
(* A photo with an address is had nowhere else.                            *)
PhotoWays == {<<"url">>, <<"id">>}
VideoWays == {<<"url", "id">>, <<"url">>, <<"id">>}
AudioWays == {<<"url", "protocol", "id">>, <<"protocol", "id">>, <<"url">>}
DocumentWays == {<<"url", "id">>, <<"url">>, <<"id">>}
Ways(kind) ==
  CASE kind = "photo" -> PhotoWays [] kind = "video" -> VideoWays
    [] kind = "audio" -> AudioWays [] OTHER -> DocumentWays

(* The description comes with the event.  A retry has a bare reference; it *)
(* looks for an audio's description in the dialogs, the history and the    *)
(* message itself first.                                                   *)
From(source, ways) == [n \in DOMAIN ways |-> <<source, ways[n]>>]
IdReference == <<<<"reference", "id">>>>
AudioReference == From("reference", <<"protocol", "id">>)
AudioPlans ==
  {From("dialog", w) \o From("history", w) \o From("message", w)
     \o AudioReference : w \in AudioWays}

Plans(i) ==
  LET kind == scene.kind[i]
  IN CASE i \notin scene.retry -> {From("event", w) : w \in Ways(kind)}
       [] i \in scene.retry /\ kind # "audio" -> {IdReference}
       [] OTHER -> AudioPlans

-----------------------------------------------------------------------------
Idle == [pc |-> "idle", k |-> 1, plan |-> <<>>, attempt |-> 1, resume |-> 0,
         open |-> "no", mode |-> "wb", done |-> 0, got |-> {}, mine |-> {}]
PCs == {"idle", "choose", "ask", "open", "read", "close", "pause", "fetch",
        "send", "over"}

Doing(t, pc) == job[t].pc = pc
Item(t) == scene.work[t][job[t].k]
Name(t) == scene.name[Item(t)]
FromTg(t) == t \in scene.fromTg

Part(n) == files[n].part
Local(n) == files[n].local
PartSize(n) == IF Part(n) = Gone THEN 0 ELSE Len(Part(n))

(* What becomes of the jobs that have a file of name n open when task t's  *)
(* job becomes new and that file goes from one path to another.            *)
Moved(n, from, to, t, new) ==
  job' = [u \in Tasks |->
            CASE u = t -> new
              [] u # t /\ job[u].open = from /\ Name(u) = n
                   -> [job[u] EXCEPT !.open = to]
              [] u # t /\ job[u].open = to /\ Name(u) = n
                   -> [job[u] EXCEPT !.open = "lost"]
              [] OTHER -> job[u]]
Unlinked(n, path, t, new) ==
  /\ files' = [files EXCEPT ![n][path] = Gone]
  /\ Moved(n, path, "lost", t, new)

FilesTypeOK ==
  /\ scene \in Scenes
  /\ \A n \in Names :
       {Part(n), Local(n)} \subseteq Seq((Items \X (1..Size)) \cup {Hole})
  /\ \A t \in Tasks : job[t].pc \in PCs /\ job[t].attempt \in 1..MaxDownloadAttempts
                     /\ job[t].open \in {"no", "part", "local", "lost"}
  /\ shared \subseteq Items /\ left \cup kept \subseteq Names /\ cuts \in 0..MaxCuts

FilesInit ==
  /\ scene \in Scenes
  /\ files = [n \in Names |-> [part |-> Gone, local |-> Gone]]
  /\ job = [t \in Tasks |-> Idle]
  /\ sent = [i \in Items |-> Nothing]
  /\ shared = {} /\ left = {} /\ kept = {} /\ cuts = 0

(* A write at a position: what lies before it and was never written is a   *)
(* hole.                                                                   *)
Written(s, at, c) ==
  [k \in 1..(IF Len(s) > at THEN Len(s) ELSE at + 1) |->
     CASE k = at + 1 -> c
       [] k # at + 1 /\ k <= Len(s) -> s[k]
       [] OTHER -> Hole]

(* The attachments in work: from the start of the download to the unlink.  *)
Busy(t) ==
  IF job[t].pc \in {"idle", "over"} THEN {}
  ELSE {scene.work[t][k] : k \in 1..job[t].k}
Namesakes(i) ==
  {j \in (UNION {Busy(t) : t \in Tasks}) \ {i} : scene.name[j] = scene.name[i]}

-----------------------------------------------------------------------------
(* _build_message, process_pending_media_download, _dispatch_incoming_message: *)
(* the task turns to its next attachment, or to sending what it has.       *)

Start(t) ==
  /\ Doing(t, "idle")
  /\ scene.work[t] # <<>>
  /\ job' = [job EXCEPT ![t].pc = "choose"]
  /\ UNCHANGED <<scene, files, sent, shared, left, kept, cuts>>

Choose(t) ==
  /\ Doing(t, "choose")
  /\ \E plan \in IF FromTg(t) THEN {<<>>} ELSE Plans(Item(t)) :
       job' = [job EXCEPT ![t] = [@ EXCEPT !.plan = plan, !.attempt = 1,
                                  !.pc = IF FromTg(t) THEN "fetch" ELSE "ask"]]
  /\ shared' = shared \cup
       (IF Namesakes(Item(t)) # {} THEN Namesakes(Item(t)) \cup {Item(t)}
        ELSE IF Name(t) \in left THEN {Item(t)} ELSE {})
  /\ UNCHANGED <<scene, files, sent, left, kept, cuts>>

(* The names a task holds the files of: what it downloaded.                *)
Held(t) == {scene.name[i] : i \in job[t].mine}
Ended == [Idle EXCEPT !.pc = "over"]

(* The file is closed, with the end of the stream or on the way out.       *)
Closed(j, pc) ==
  [j EXCEPT !.pc = pc, !.open = "no", !.mode = "wb", !.done = 0, !.resume = 0]

Advanced(t, got) ==
  [Closed(job[t], "send") EXCEPT
                 !.got = @ \cup got, !.mine = @ \cup got,
                 !.plan = <<>>, !.attempt = 1,
                 !.k = IF @ < Len(scene.work[t]) THEN @ + 1 ELSE @,
                 !.pc = IF job[t].k < Len(scene.work[t]) THEN "choose"
                                                         ELSE "send"]

(* What remains of a plan after a way failed.                              *)
WithPlan(t, plan) ==
  IF plan = <<>> THEN Advanced(t, {})
  ELSE [Closed(job[t], "ask") EXCEPT !.plan = plan, !.attempt = 1]
NextWay(t) == WithPlan(t, Tail(job[t].plan))

(* The dead socket: no other way of the same description is tried.         *)
AfterHardStop(t) ==
  LET s == job[t].plan
      Other(n) == s[n][1] # s[1][1]
  IN IF \E n \in DOMAIN s : Other(n)
     THEN SubSeq(s, CHOOSE n \in DOMAIN s : Other(n) /\ \A m \in 1..(n - 1) : ~Other(m),
                 Len(s))
     ELSE <<>>

(* MAX does not name an address.                                           *)
WayMisses(t) ==
  /\ Doing(t, "ask")
  /\ job[t].plan[1][2] # "url" \/ job[t].plan[1][1] \in {"dialog", "history", "message"}
  /\ job' = [job EXCEPT ![t] = NextWay(t)]
  /\ UNCHANGED <<scene, files, sent, shared, left, kept, cuts>>

HardStop(t) ==
  /\ Doing(t, "ask")
  /\ job[t].plan[1][2] = "protocol"
  /\ job' = [job EXCEPT ![t] = WithPlan(t, AfterHardStop(t))]
  /\ UNCHANGED <<scene, files, sent, shared, left, kept, cuts>>

-----------------------------------------------------------------------------
(* download_from_url.  An attempt notes how much of the .part there is,    *)
(* then waits for the response.                                            *)

Attempt(t) == [job[t] EXCEPT !.pc = "open", !.resume = PartSize(Name(t))]

Ask(t) ==
  /\ Doing(t, "ask")
  /\ job' = [job EXCEPT ![t] = Attempt(t)]
  /\ UNCHANGED <<scene, files, sent, shared, left, kept, cuts>>

Opened(t, mode) ==
  [job[t] EXCEPT !.pc = "read", !.open = "part", !.mode = mode, !.done = 0]
Append206(t) ==
  /\ files' = [files EXCEPT ![Name(t)].part = IF @ = Gone THEN <<>> ELSE @]
  /\ job' = [job EXCEPT ![t] = Opened(t, "ab")]

(* Variant: what a server sends from the start is appended.                *)
Open200Appended(t) ==
  /\ Doing(t, "open")
  /\ files' = [files EXCEPT ![Name(t)].part = IF @ = Gone THEN <<>> ELSE @]
  /\ job' = [job EXCEPT ![t] = [Opened(t, "ab") EXCEPT !.resume = 0]]
  /\ UNCHANGED <<scene, sent, shared, left, kept, cuts>>

(* 200: the server sends all of it.  The .part the attempt had counted on  *)
(* is unlinked, one that came later is truncated.                          *)
Open200(t) ==
  /\ Doing(t, "open")
  /\ files' = [files EXCEPT ![Name(t)].part = <<>>]
  /\ IF job[t].resume > 0
     THEN Moved(Name(t), "part", "lost", t, Opened(t, "wb"))
     ELSE job' = [job EXCEPT ![t] = Opened(t, "wb")]
  /\ UNCHANGED <<scene, sent, shared, left, kept, cuts>>

(* 206: the rest is appended to whatever the .part is now.                 *)
Open206(t) ==
  /\ Doing(t, "open")
  /\ job[t].resume \in 1..(Size - 1)
  /\ Append206(t)
  /\ UNCHANGED <<scene, sent, shared, left, kept, cuts>>

(* A chunk goes where the task's own place in the file is, or to its end.  *)
Put(t, c) ==
  LET path == job[t].open
      s == files[Name(t)][path]
  IN files' = [files EXCEPT ![Name(t)][path] =
                 Written(s, IF job[t].mode = "ab" THEN Len(s) ELSE job[t].done, c)]
Offset(t) == IF job[t].mode = "ab" THEN job[t].resume ELSE 0
Chunk(t) ==
  /\ Doing(t, "read")
  /\ Offset(t) + job[t].done < Size
  /\ IF job[t].open = "lost" THEN UNCHANGED files
     ELSE Put(t, <<Item(t), Offset(t) + job[t].done + 1>>)
  /\ job' = [job EXCEPT ![t].done = @ + 1]
  /\ UNCHANGED <<scene, sent, shared, left, kept, cuts>>

StreamEnds(t) ==
  /\ Doing(t, "read")
  /\ Offset(t) + job[t].done = Size
  /\ job' = [job EXCEPT ![t] = Closed(@, "close")]
  /\ UNCHANGED <<scene, files, sent, shared, left, kept, cuts>>

(* The .part, whoever wrote it, becomes the file.                          *)
Rename(t) ==
  /\ Doing(t, "close")
  /\ Part(Name(t)) # Gone
  /\ files' = [files EXCEPT ![Name(t)] = [part |-> Gone, local |-> @.part]]
  /\ Moved(Name(t), "part", "local", t, Advanced(t, {Item(t)}))
  /\ UNCHANGED <<scene, sent, shared, left, kept, cuts>>

(* What came is not what was asked for: a page, a text.                    *)
Reject(t) ==
  /\ Doing(t, "close")
  /\ Part(Name(t)) # Gone
  /\ Unlinked(Name(t), "part", t, NextWay(t))
  /\ UNCHANGED <<scene, sent, shared, left, kept, cuts>>

(* Variant: a download that gave up leaves its .part.                      *)
GiveUpKeepsPart(t) ==
  /\ job[t].pc \in {"open", "read", "close"}
  /\ job' = [job EXCEPT ![t] = NextWay(t)]
  /\ UNCHANGED <<scene, files, sent, shared, left, kept, cuts>>

(* An exception, such as another's unlink raises, with attempts left.      *)
FailAttempt(t) ==
  /\ job[t].pc \in {"open", "read", "close"}
  /\ job[t].attempt < MaxDownloadAttempts
  /\ job' = [job EXCEPT ![t] = [Closed(job[t], "pause") EXCEPT
                                !.attempt = @ + 1]]
  /\ UNCHANGED <<scene, files, sent, shared, left, kept, cuts>>

(* No attempts are left, or the error is not worth one (401, 403, 404).    *)
Abandon(t) ==
  /\ job[t].pc \in {"open", "read", "close"}
  /\ Unlinked(Name(t), "part", t, NextWay(t))
  /\ UNCHANGED <<scene, sent, shared, left, kept, cuts>>

AfterPause(t) ==
  /\ Doing(t, "pause")
  /\ job' = [job EXCEPT ![t] = Attempt(t)]
  /\ UNCHANGED <<scene, files, sent, shared, left, kept, cuts>>

(* The gate cancels the operation for a change of route: to the caller the *)
(* way has failed, and nobody unlinks the .part.                           *)
Interrupt(t) ==
  /\ cuts < MaxCuts
  /\ job[t].pc \in {"open", "read", "close", "pause"}
  /\ cuts' = cuts + 1
  /\ left' = left \cup {Name(t)}
  /\ job' = [job EXCEPT ![t] = NextWay(t)]
  /\ UNCHANGED <<scene, files, sent, shared, kept>>

-----------------------------------------------------------------------------
(* _download_tg_media writes straight to the path.                         *)

FetchOpen(t) ==
  /\ Doing(t, "fetch") /\ job[t].open = "no"
  /\ files' = [files EXCEPT ![Name(t)].local = <<>>]
  /\ job' = [job EXCEPT ![t].open = "local", ![t].mode = "wb", ![t].done = 0]
  /\ UNCHANGED <<scene, sent, shared, left, kept, cuts>>

FetchChunk(t) ==
  /\ Doing(t, "fetch") /\ job[t].open # "no" /\ job[t].done < Size
  /\ IF job[t].open = "lost" THEN UNCHANGED files
     ELSE Put(t, <<Item(t), job[t].done + 1>>)
  /\ job' = [job EXCEPT ![t].done = @ + 1]
  /\ UNCHANGED <<scene, sent, shared, left, kept, cuts>>

FetchEnds(t) ==
  /\ Doing(t, "fetch") /\ job[t].done = Size /\ job[t].open # "no"
  /\ job' = [job EXCEPT ![t] = Advanced(t, {Item(t)})]
  /\ UNCHANGED <<scene, files, sent, shared, left, kept, cuts>>

(* An exception or the timeout.  The handler is told of no file, and what  *)
(* was written of it stays.                                                *)
FetchFails(t) ==
  /\ Doing(t, "fetch")
  /\ kept' = kept \cup (IF job[t].open = "no" THEN {} ELSE {Name(t)})
  /\ job' = [job EXCEPT ![t] = Ended]
  /\ UNCHANGED <<scene, files, sent, shared, left, cuts>>

-----------------------------------------------------------------------------
(* The attachments that were downloaded are sent, in their order.          *)

FirstGot(t) ==
  LET S == {k \in DOMAIN scene.work[t] : scene.work[t][k] \in job[t].got}
  IN CHOOSE k \in S : \A l \in S : k <= l

(* A file that is gone is passed over without a word.                      *)
Send(t) ==
  /\ Doing(t, "send") /\ job[t].got # {}
  /\ LET i == scene.work[t][FirstGot(t)]
     IN /\ \/ sent' = [sent EXCEPT ![i] = Local(scene.name[i])]
           \/ UNCHANGED sent
        /\ job' = [job EXCEPT ![t].got = @ \ {i}]
  /\ UNCHANGED <<scene, files, shared, left, kept, cuts>>

(* Then what was downloaded is unlinked: MAX's at the end of the forward,  *)
(* a retry's whatever became of it, Telegram's after the send to MAX.      *)
CleanUp(t) ==
  /\ Doing(t, "send") /\ job[t].got = {}
  /\ files' = [n \in Names |-> IF n \in Held(t) THEN [files[n] EXCEPT !.local = Gone]
                               ELSE files[n]]
  /\ kept' = kept \ Held(t)
  /\ job' = [u \in Tasks |->
               CASE u = t -> Ended
                 [] u # t /\ job[u].open = "local" /\ Name(u) \in Held(t)
                      -> [job[u] EXCEPT !.open = "lost"]
                 [] OTHER -> job[u]]
  /\ UNCHANGED <<scene, sent, shared, left, cuts>>

(* The message ends before that: a duplicate, an incomplete recovery of    *)
(* late media, no topic, a disabled or readonly chat, media delivered      *)
(* already, an exception.  Its files stay.                                 *)
EndEarly(t) ==
  /\ job[t].pc \in {"choose", "send"}
  /\ Item(t) \notin scene.retry
  /\ kept' = kept \cup {n \in Held(t) : Local(n) # Gone}
  /\ job' = [job EXCEPT ![t] = Ended]
  /\ UNCHANGED <<scene, files, sent, shared, left, cuts>>

(* The files stay; a message whose handler was cut off may come again.     *)
CutOff ==
  /\ cuts < MaxCuts
  /\ cuts' = cuts + 1
  /\ left' = left \cup {n \in Names : Part(n) # Gone}
  /\ kept' = kept \cup {n \in Names : Local(n) # Gone}
  /\ \E again \in SUBSET Tasks :
       job' = [t \in Tasks |-> IF t \in again /\ job[t].pc # "over" THEN Idle ELSE Ended]
  /\ UNCHANGED <<scene, files, sent, shared>>

DownloadFile(t) ==
  \/ Choose(t) \/ Ask(t) \/ WayMisses(t) \/ HardStop(t)
  \/ Open200(t) \/ Open206(t) \/ Chunk(t) \/ StreamEnds(t) \/ Rename(t)
  \/ Reject(t) \/ FailAttempt(t) \/ Abandon(t) \/ AfterPause(t)
Fetch(t) == FetchOpen(t) \/ FetchChunk(t) \/ FetchEnds(t) \/ FetchFails(t)
Deliver(t) == Send(t) \/ CleanUp(t) \/ EndEarly(t)

FilesNext ==
  \/ \E t \in Tasks : Start(t) \/ DownloadFile(t) \/ Fetch(t) \/ Deliver(t) \/ Interrupt(t)
  \/ CutOff

FilesSpec == FilesInit /\ [][FilesNext]_filesVars

-----------------------------------------------------------------------------
(* What is sent as an attachment is that attachment, whole, however its    *)
(* download was resumed; unless another one with the same file name was in *)
(* work at the same time, or a cut-off download left its .part.            *)
OwnContent ==
  \A i \in Items : sent[i] \in {Nothing, Whole(i)} \/ i \in shared

(* Whatever failed, once the tasks are over a .part stays only where a     *)
(* crash or an interruption left it, and a file only where a crash left    *)
(* it, a message that ended early, or a download from Telegram that        *)
(* failed.                                                                 *)
NothingStays ==
  (\A t \in Tasks : Busy(t) = {})
    => \A n \in Names : /\ Part(n) # Gone => n \in left
                        /\ Local(n) # Gone => n \in kept

(* What docs/architecture.md and PROJECT.md say of data/tmp; no run, for   *)
(* nothing sweeps the directory.                                           *)
TmpIsEmptied ==
  cuts = 0 /\ (\A t \in Tasks : Busy(t) = {})
    => \A n \in Names : Part(n) = Gone /\ Local(n) = Gone
===============================================================================
