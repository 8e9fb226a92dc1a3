# A TLA+ model of maxgram

maxgram bridges a MAX messenger account and a Telegram forum group. A message of a MAX chat
appears in the chat's Telegram topic; what the owner writes in the topic goes back to the chat.
The program is one asyncio process with an SQLite database, plus a small watchdog on another
host. The specifications beside this file describe its control: which step may follow which,
what survives a crash, what two tasks may do to each other.

Paths below are relative to `src/` of the repository.

## 1. Inventory

| Component | State | Operations | Hard behaviour | What makes it correct |
|---|---|---|---|---|
| Text retry queues (`src/db/repos/pending_*.py`) | a row per text: status, plaintext, attempts, due time, lease | enqueue (upsert), poll, lease, retry, delivered, failed | upsert against a closed row, expired leases, TTL | text exists exactly while the row is open; a delivered row stays so |
| TG -> MAX text (`src/bridge/replies.py`, `outbound_retry.py`, `src/adapters/max/send.py`) | handler tasks, the worker's job, the shared failure slot | handle_tg_reply, send_message with its attempts, process_pending_outbound_message | concurrent sends, lost acknowledgements, cancellation, crash, a notice Telegram refuses | each text ends with MAX, in the queue or with a last word for its sender; one sender per text, bounded copies, the queue drains |
| MAX -> TG text (`src/bridge/forwarding.py`, `inbound_retry.py`) | message_map keys, delivery_log, handler tasks, the worker's job | handle_max_message, process_pending_inbound_message | live event against history sweep, key before send, crash | no silent loss, bounded copies, every queued text ends |
| Media of a message (`src/bridge/media_retry.py`, `forwarding.py`, `src/db/repos/pending_media.py`, `delivered_media.py`) | rows of deferred downloads, recorded parts, the payload cache | forward, late duplicate, deferred download, give up | handler and worker deliver the same medium, three commits per post, a transaction refused after a post | copies are bounded, a recorded medium closes its row, limited retries end |
| Files of media (`src/adapters/max/media/`, `src/adapters/tg/adapter.py`) | `data/tmp` | the ways to a source, attempts, resumed part, send, unlink | equal names, a part left by a crash, handlers that end early | what is sent is the attachment itself; what stays has a known cause |
| Repository (`src/db/repository.py`) | one connection, transaction depth | transaction, the statements | tasks share the connection, cancellation | a transaction is all or nothing |
| Topics, recovery registry, join (`src/bridge/topics.py`, `recovery/`, `join.py`, `actions.py`) | chat -> topic, topic -> chat now and before, one-shot tokens | get or create, remap, scan, press | crash between topic and binding, cancelled scans, double press | no orphan topic, the registry catches up, a claimed token joins once |
| Egress controller (`src/runtime/max_egress.py`) | active route, failures, reminders, saved state | tick: look, switch, roll back, remind | a failed switch, restart, gaps of the watchdog | route and saved state agree; switches are earned and spaced |
| Gate, lifecycle, session (`src/adapters/max/network/switching.py`, `lifecycle.py`, `max_session_store.py`) | open flag, generation, calls inside; client; session file and backups | run, drain, start loop, forced reconnect, switch, restore, SMS login | a switch against a reconnect, a close that fails, calls that wait at the gate, damaged files | one client beside those a failed worker left, calls keep to the route, MAX comes back |
| MAX events (`src/adapters/max/events.py`, `voice_recovery.py`) | marks, history cache, jobs in memory and on disk | raw and typed notice, lookup, worker, sweep | the same message seen twice, empty at first | kept until the bridge knows it, handled once |
| Watchdog task and health (`src/bridge/background.py`, `src/runtime/health/`, `supervisor.py`) | outage since, alert sent, max_link, self-heal file | poll, probe, warn, restart, report | connection that comes and goes between polls, restarts | outages are told and shown, restarts are spaced |
| Alerts (`src/adapters/tg/notifier.py`, `src/runtime/health/outbox.py`) | outbox, receipts, pending events | notify, queue, flush, acknowledge | several flushes, a target that is away, crash after a send | order per target, nothing dropped, copies only after mishaps |
| External watchdog (`src/watchdog_external/`) | counters in memory and on disk, last push | probe, evaluate, decide, send, save; push; `--once` | late pushes, skipped rules, restarts | messages are recent, alerts are spaced, problems are told |

The components interact through calls within one event loop, so a step of a model is the code
between two `await`s at which another task could matter, and through the database and a few
files, which alone survive a crash. The text and media handlers are called by `MaxEvents`' handlers
and by the Telegram poller; all sends to MAX pass the gate; the egress controller switches the
route through the gate and is ticked by the watchdog task; every alert goes through the outbox;
the external watchdog sees the process, its heartbeat and its health from outside.
`PROJECT.json` lists every component with its sources, also what is not modelled and why, and
every hazard at its line.

## 2. Plan

1. The two text paths with their queues: `RetryQueue`, `OutboundDelivery`, `InboundDelivery`,
   against `TextContract`; proofs of the outbound invariants. *Done.*
2. `MaxEgress` with its proofs. *Done.*
3. The database and who shares it: `ChatTopics` (transactions, topics, registry, join). *Done.*
4. The connection: `MaxConnection` (gate, lifecycle, session), `MaxEvents`. *Done.*
5. Media: `MediaRetry` and `MediaFiles`. *Done.*
6. Who watches and tells: `MaxWatchdog`, `AlertOutbox`, `ExternalWatchdog`. *Done.*
7. Proofs: every invariant and every step property that a run checks, of all components, and the
   steps of the contract of either text path (section 6). *Done.*
8. Model checking still worth having: two attachments and an edit in `MediaRetry` (`Parts = {1, 2}`,
   `EditOnly = {2}`; a fault beside them is more than a few minutes of TLC), `MaxEgress` composed with
   `MaxConnection` at the switch.

## 3. Modules

**Texts.** `RetryQueue` is the row of either queue. The SQL statements of `pending_outbound.py` and
`pending_inbound.py` are the same up to table and key; each becomes an operator from row to row
and each WHERE clause a predicate. Timestamps are distances from now (`age`, `wait`, `lease`),
because the code only compares them with the present; `Aged` is one second. A lease blocks
during `Lease + 1` ticks: the statement compares `lease_until < now`.

`OutboundDelivery` has one task per reply and the retry worker. `call[c]` is where each stands;
`row`, `mapped` are the database; `slot` is `MaxAdapter.last_outbound_failure`, cleared when a
send begins, written by its failing attempt and read by whoever's call returned None. The
outcome of an attempt is one of `Failures`, the classes `errors.py` and `outbound_retry.py`
distinguish: may MAX have taken the text, does `send_message` try again, does it close the
connection. `copies` counts what MAX took and `notices`
what the bridge sent to the user, each heard or refused by Telegram (`LoseNotices`; the code ignores the
answer of `send_text`); they are the environment's memory and no code reads them. `faults` counts
crashes and transactions that were refused because another task held one (`repository.py:81-85`).

`InboundDelivery` has one task per message and origin (a live event; for the messages of `Swept`
also the history sweep) and the inbound worker; `keyed`, `mapped` and `logged` are message_map and
delivery_log. `TextContract` is what both directions promise while nothing crashes: offered, then
perhaps queued, then delivered or dropped, for good. Each of the two implements it through its `Fate`.

**Media.** `MediaRetry` is one MAX message with its attachments and its edited version. `call[c]` is
a run of `handle_max_message` from an event that carries some of the files; `row` is
pending_media_downloads, `part` delivered_media_parts, `cache` the encrypted payloads, `worker` the
deferred download. `spare` counts what may still be posted: one copy, and one more for every excuse
the code gives itself (two tasks that looked before either had recorded, a late recovery that was
incomplete or whose transaction was refused, a crash between post and record).

`MediaFiles` is `data/tmp` below it. A file is a sequence of chunks that know whose they are, so a
mixed or truncated file shows. A job is one message (or retry, or Telegram medium): it goes through
the ways `attachments.py` has to a source, each with the attempts of `_download_to_temp_file`:
ask, answer 200, 206, 416 or an error, append to the `.part` or start it again, rename, and in the
end reads the file for the upload and unlinks it, or ends before that (`EndEarly`, which stands for the
early returns and exceptions of `handle_max_message` and `handle_tg_reply`). `shared` remembers whose
path another task had at the same time, `left` and `kept` why a `.part` or a file is still there; a file
is of a task (`mine`) until it ends.

**Database and topics.** `ChatTopics` has one connection: `view` is what its statements see, `db`
what is committed, `depth` is `Repository._transaction_depth`. The scenarios put together the
tasks that may meet: two handlers that create a topic, a recorded delivery and the owner's remap; a
handler, the remap and the recovery scans; a handler, two presses of a join button and a recorded
delivery. The button is the owner's, whose token is claimed before the join, or a message's, which is
marked after it (`button`); `doubled` counts the presses of the latter that begin beside another.

**Connection and events.** `MaxConnection` is `OperationGate`, the adapter's `switch_egress`, the
connect loop of the lifecycle with its handlers, and the session file with its newest copy (a
token, a damage). Clients are numbered, `port` is what each is to the network, `call` the calls to
MAX with the client and generation they were admitted under. A worker that fails (`WorkerDies`: the
lifecycle's close of the previous client among the reasons) is replaced in the same process by one with
a new adapter; its client may live on (`stray`), its calls too (`adrift`), and the close at its end may
hang (`life = "stuck"`). `Fall` is the end of the process. `auto` is the policy, either from the start: under the manual one, the
default, there is no gate and no switch, and nobody closes a client whose start failed. `MaxEvents` is one message and the ways
it is noticed: `notice[n]` is what the n-th raw and typed notification carry, `pc[s]` where each of
their handlers, the waiting task, the worker and the sweep is, `job` and `saved` the job of
`pending_empty_recoveries` in memory and in its file.

**Route.** `MaxEgress` is `MaxEgressController`. A tick is cut at its awaits (`pc`): a look with its
probes, the events it saves and sends, the decision, then the pieces of `_switch` with the adapter's
close and the wait for a connection. `s` is the dictionary, `disk` its file; `Save` is a step that
saves, `Keep` one that does not, and `Start` reads `disk` back. Times are distances from now, saturated
at the threshold they are compared with. `seen` is the environment's memory: for how long every look
found the primary failed or well, how long the route and the last switch have lasted, and whether a
crash fell into the report of an outage's end or of a restart (`torn`).

**Watching and telling.** `MaxWatchdog` is `run_max_watchdog` under its three policies (`home`,
`direct`, `auto`) with what surrounds it: the adapter's issue and its handlers, the supervisor's
restarts of the worker, `max_link` in the health store, the file of the last self-heal. `told`
means a warning went out since MAX was last ready. `AlertOutbox` is the notifier with its outbox
and the controller's queue of events: `Senders` are the controller, alerts and the poller, each of
which flushes under the lock. `ExternalWatchdog` is the loop of the other host: `mem` and `disk` its
counters, `flight` and `push` the pushes, `out` the messages of this tick, `once` a `--once` by hand.

The modules MC* give the values for TLC. The definitions commented *Variant* are the same steps with
a plausible mistake; each property of a passing run is known to fail with one of them
(`PROJECT.json`, "mutants").

## 4. Runs

| Run | Question | Bounds |
|---|---|---|
| `Outbound` | over a crash or a failed transaction and a connection loss, MAX answering: are the copies bounded (`BoundedCopies`) and does the queue drain (`QueueDrains`)? | 1 reply, 2 attempts a send, lease 1, TTL 4 |
| `OutboundConcurrent` | two handlers and the worker at once, answers and notices lost: one sender per text, a last word for each text that is given up, the steps of the contract | a text and a file, 1 attempt, lease 0, TTL 2, a connection loss, no crash |
| `Inbound` | nothing lost silently, bounded copies, and `TextContract` with its liveness | 2 texts, one also swept, 1 crash, lease 0, TTL 2 (a leased row can be leased again before it expires) |
| `Media` | is a medium posted twice only with an excuse, does a record close its row, do limited retries end? | 1 attachment of each kind, 2 events of either version, 2 attempts, a crash or lost answer, refused transactions |
| `Files` | is what is sent the attachment itself, and has what stays behind one of the causes the property names? | 6 scenes of two tasks or one, 2 chunks, 2 attempts, a crash or interruption; any message may end early |
| `Topics` | has every topic its chat, are transactions whole, is a link joined once but for faults and overlapping presses, does the registry catch up with every binding? | 6 scenarios of three tasks, 2 topics, 1 remap, 1 fault |
| `Connection` | one client at a time beside a stray, no call on a route that was left, no call waits for ever, MAX comes back | either policy, 2 calls, 3 clients, 1 switch, drop, damage, login, fault and stray each |
| `Events` | is a message kept until known, handled once per notice, and does a dialog catch up? | 2 notices of each kind, 1 lapse of the marks, 1 failed request, 1 fault |
| `Egress` | over a restart anywhere in a tick or switch and any number of failed switches: does the saved route hold, are switches earned and spaced, does a lasting outage lead to the fallback? | 1 crash, 1 second of delay of the watchdog |
| `MaxWatchdog` | are outages told and shown, is a needed login not masked, are restarts spaced? | 3 policies, 6 seconds, 1 loss more, 1 crash or failed worker |
| `Alerts` | do events keep their order and arrive, is what is queued kept, are copies mishaps only? | 2 events, 1 alert, 2 targets, 1 outage, 1 mishap, 2 messages a flush (the target that is away can fill it) |
| `Watchdog` | are messages about the present, alerts spaced, lasting problems told again and again? | 2 rules, 3 conditions, 2 changes of the world, 1 mishap |

*Texts.* Each property speaks about one text, the worker and at most one other task; the second reply
is the other sender that writes the shared slot. TTL, lease and backoff are small numbers in an order
that lets each of them run out before and after the others. Two attempts give a first, a last and a
retried one. `NoSilentLoss`, `OneSenderPerText` and the steps of `OutboundContract` are claims
about executions without a crash or a refused transaction, which is why their run has none and two replies
instead.

*Media.* The kinds are the ones the code treats differently: a video (limited retries), a photo (a
reference that stays valid), a document (only its cached payload), one MAX must send again, one over
the size limit. Two events are an event and its late duplicate, or a message and its edit.
The media of one message only meet in the order in which they are sent, so one attachment shows what
`BoundedCopies` and the two liveness properties ask. Two chunks make a file that can be half there.

*Topics, connection, events.* Every scenario joins three tasks that write the same rows. With two
handlers, the recording transaction and the remap all at once the states are too many for the run's
liveness property; the invariants hold there too (TLC, on `Spec`), and section 6 proves them for any
tasks. Three clients are the lifecycle's, its predecessor and a stray; an old one that a call still holds is only
its generation. One drop, one switch and
one fault let each of them fall into each step of the others.

*Egress.* Probe 1, failover 3, stability 2, residence 3 and cooldown 3: a threshold needs several
looks, and the order of the default configuration (30, 600, 300, 600, 600) is kept; gaps longer
than three probes arise while a switch waits or the process is down. That order matters (section 6).

*Watchdogs.* `MaxWatchdog` keeps the order of the waits (60, 180, 900, 1800 s as 1, 2, 3, 4); six
seconds hold an outage, a self-heal, the restart and the next attempt at one. `Watchdog` counts in
ticks: two for the status poll, one for the age of a push and for the clocks' difference, two for
the repetition of an alert.

## 5. Fairness

`FairSpec` of the text modules assumes weak fairness of every step of a send (each await is under a
timeout), of the handlers' recording steps, of the worker's poll and job, and of time; `Connect` is fair
because the reconnect loop of `lifecycle.py` never gives up. Arrivals, crashes and connection losses are
not fair. `OfflineSpec` leaves out `Connect`: MAX may ask for a login and stay away.

- `MediaRetry`: the handlers' and the worker's steps, as above; each due row is polled again and
  again because the poll takes those longest due; leases lapse and payloads expire with time.
- `ChatTopics`: every started call, command and scan ends; the periodic scan is strongly fair, as
  its timer comes round although event scans are cancelled. New scans and presses are not fair.
- `MaxConnection`: the lifecycle loop, a switch (all of its waits have timeouts), the self-heal of the
  watchdog and the start of a worker or process, unless the close of the last one hangs; a call that was
  let in is over once it is cancelled, and the gate admits in turn. Calls need not end by themselves, and
  neither faults, the end of a stray nor the owner's login are fair.
- `MaxEvents`: handlers, the waiting task, the worker and the sweep go on; history requests may fail
  as often as the bound allows.
- `MaxEgress`: the watchdog keeps calling (`run_max_watchdog` never ends), a switch ends one way or
  the other, a stopped process is started again and time passes. Probes, MAX and crashes are not fair,
  and a switch may fail every time: `FailsOver` promises an attempt again and again, not its success.
- `AlertOutbox`: a flush and the controller's tick go on; the flush lock is strongly fair, because
  `asyncio.Lock` is first in, first out. A target is up again only where the property says so.
- `ExternalWatchdog`: time passes; `SF(Cycle)`, since the loop is started by a service that restarts
  it and only the lock of a hand-run `--once` or of an owner's check holds it up for a moment.
  `ProblemsAreReported` further needs the host, its SSH and Telegram to be up in the end.

`MaxWatchdog` and `MediaFiles` are checked for safety only.

## 6. Proofs

The theorems hold for every value of the constants that the ASSUME of the module allows: any number of
tasks, retries, faults, crashes and switches, any timing. The assumptions say what the code and its
loader enforce, that the sets of tasks which may be counted are finite (`Calls`, the callers of
`ChatTopics`, all made by one process), and that the alert threshold is positive. `AlertOutbox` assumes
that the configured targets are distinct and that an event goes to one of them at least
(`notifier.py:161-165`), `MediaFiles` that an attachment belongs to one task. `MaxSpare`, where the counter
of `MediaRetry` saturates, must exceed the number of calls: a smaller one would hide an excuse.

Each component has one inductive invariant, checked with TLC before it was proved. Three of the proof
modules cover two components that meet at one place; the second one's specification and invariant carry
a prefix (`WatchdogInit`, `ObserverNext`, `FilesSpec`, `FilesIInv`), so that both can be extended. The
proofs of the two text paths begin with the lemmas on the row they share (`RetryQueue`): each statement
maps rows to rows and keeps the plaintext with the open ones.

`OutboundDelivery_proofs`:

- `TypeCorrect`, `TextIsKeptWhileOpen`, `RecordsStayTrue`, `DeliveredStays`. `TextOnlyWhileOpen` alone is
  not inductive: the worker's retry would give a closed row its status back, so it needs that the
  worker's row is open until its outcome is stored (`CallsFit`); `RecordsAreTrue` needs that a send that
  returned as sent is with MAX.
- `OneSender`, `NothingIsLost`. `HandOver` says that a row appears only when its handler has
  stopped sending and that the worker's row is leased; `Accounted` that a text which has left its
  handler is settled: with MAX, queued, or followed by a last word. Both hold while `faults = 0`; a crash
  gives the handler a second life, and a refused transaction leaves a sent text unrecorded.
- `CopiesAreBounded`. The copies alone say nothing about the next step, so the proof adds those that may
  still come: one for a handler that has not been answered, one for an open row whose answer the worker
  does not have. The sum never exceeds `1 + 2 * faults`, and only a fault raises it.
- `KeepsTheContract`: the refinement of `TextContract` under `Fate`, step by step, while nothing crashes.

`InboundDelivery_proofs`: `TypeCorrect`, `NothingIsLost`, `CopiesAreBounded` (a sum as above) and
`KeepsTheContract`, the safety half of the refinement. `UnkeyedIsNew` (a message without a key has left no
trace) and `HandledOnce` (nothing is recorded of a message while its only call is past the duplicate
check) make it inductive: without them a second call could drop what the first has queued.

`MaxEgress_proofs`:

- `EgressTypes`, `RouteSurvives`, `SwitchesApart`. `Spaced`: the cooldown in memory and the one on disk
  each make up for what is missing since the last switch began; `Start` puts the disk's in charge.
- `FailoversAreEarned`, unless a crash tore a report (`seen.torn`, section 7), under `FailoverAfter <= Cooldown` and `ReturnsAreEarned` under
  `Residence <= Cooldown`. `EInv` relates each timestamp of the controller to what the looks have really
  seen. The hypotheses are needed, and TLC finds the violation without them (`Egress` with `Cooldown = 2`):
  a rollback does not reset `fallback_since`, and `failed_since` outlives a return that ended in a restart;
  only the cooldown covers the difference. The defaults, `config.yaml` and the runbook have 600 s for all
  three; `src/config/loader.py` does not enforce the order.

`Connection_proofs`, of `MaxConnection`: `OneClientAtATime` from `ClientIsOwned` (only the client of the lifecycle, or of
the switch that has stopped it, is alive) and `StraysAreCounted` (each further one was left by a failed worker
or replaced under the manual policy); `CallsStayOnRoute` from `SwitchFits` (what a switch has drained
stays drained until it opens the gate) and `RouteOfGeneration` (what carries the gate's generation was made
under the route of now). The session file plays no part in either.

The same module, of `MaxWatchdog`: `RestartsAlwaysSpaced`, `OutagesAreTold`, `OutagesAreShown`, `ReauthIsShown`.
`OutageIsTold` names what each of the reporters that leave a warning to another may rely on: the store
shows the adapter's issue only after the adapter has told it, the watchdog's own only while it tells it.

`ChatTopics_proofs`: `EveryTopicIsBound`, `TransactionsStayWhole`, `ButtonsJoinOnce`. `Whole` relates the
depth to the recorder's place; `Placed` says who holds a topic between Telegram and the database;
`Claimed` counts the presses that hold the claim, with the claim itself and the joins; at a message's
button, which has none, the turn is free while no press is under way, and a press beside another is counted.
The first attempt failed for a reason: with a second handler, the owner's remap and a recorded
delivery together, a rollback may give a chat its former topic back while a call creates one for it,
which then loses that one. No scenario of the run has all four; TLC confirmed it with one that has, and
the exemption (in `RecordRaised`) is now part of the model.

`MaxEvents_proofs`: `KeptTillKnown`, `HandledAsNotified`. `Kept`: whoever may drop the message has
reason to, because who announced it, whom the typed handler waits for or who forgot the job has handed
it over. `Counted` adds to the handlings the typed handlers that are pending and the job or task they
left, and sets the announcement against them. It failed at first too: a job whose end was not written
comes back with the next crash, and drops the announcement meant for a typed handler. Three notices
and three faults show it (TLC: `Events` with these bounds and no lapses), so `OnePerNotice` now allows
half a handling for each fault; with the one fault of the run that is none.

`Media_proofs`, of `MediaRetry`: `NoCopyWithoutExcuse`. That `spare` is not negative says nothing about the next
post. `CoveredAt` sets against it the tasks that may still post the medium (`Posters`: calls that have looked
and not yet posted, the worker with the medium in hand), and demands one for the next to look while
nothing is recorded and no post awaits its record. A post uses what its task held; only what the code
excuses itself with adds one, a transaction refused after the posts of a late recovery too. The types say too how the fields of a call fit together (`CallFits`).

The same module, of `MediaFiles`: `WhatIsSentIsItself`, `NothingIsLeft`. For each attachment in work whose path
is its own, `Begun` says what the path holds at each place of the download: nothing, or the first chunks
of this attachment, as many as the offset and the chunks read make; `Right` adds that what was got is
whole. `Apart` is what lets the tasks be taken one by one: two attachments in work under one name are
both in `shared`. `PartsKept` and `LocalsKept` name for each `.part` the download that will remove it or the
interruption that left it, and for each file the task that has it or the one that ended without unlinking it.

`Alerts_proofs`, of `AlertOutbox`: `EventsStayOrdered`, `NothingQueuedIsLost`, `OnlyMishapsCopy`, for any events,
alerts, targets and any limit of a flush. `OutboxInOrder`: whatever should come before an event at its
target was seen or stands before it; in the batch of a flush (`BatchInOrder`) the target may also be
blocked, which keeps the later ones back. `AcceptedAreServed` and `BeingServed` follow an event from the
controller's file through the notifier. For copies, an event without a receipt whose answer is not
awaited was seen once for each mishap at most (`EventCopies`), and so was an alert that still has an
item (`AlertCopies`). What a flush removes is computed along a sequence (`Without`); these proofs do the
induction, which the library states with an operator, by hand with the least number of a set
(`LeastNumber`, `AllNumbers`, `WithoutKeeps`).

The same module, of `ExternalWatchdog`: `WhatIsSaidIsRecent`, `AlertsStaySpaced`. `Dated`: a probe that does not
show the container's present state, under way or in `push.json`, is at least as old as that state, as far
as its age still counts. `Known`: short of a fault or a `--once`, the loop and its file both know when the
owner was last alerted; a fault or a `--once` is what `AlertsAreSpaced` exempts.

What is proved is left out of the runs where TLC adds nothing (the types, `TextOnlyWhileOpen`,
`RecordsAreTrue`, `DeliveredForGood`). Model-checked only:

- liveness: fairness and ENABLED are out of the prover's reach (`QueueDrains`, the liveness half of
  `TextContract`, `RecordedCloses`, `Settles`, `RegistryCatchesUp`, `CallsEnd`, `ComesBack`, `DialogsCatchUp`,
  `FailsOver`, `EventsArrive`, `ProblemsAreReported`);
- what the exemptions of section 7 leave out, which no theorem covers either.

No module declares a RECURSIVE operator.

## 7. Where code and documentation disagree, and what the code does not promise

Each of these was found by a run, with the change to a configuration that shows it again.

Texts:

- A text is queued on the error of its *last* attempt (`src/bridge/replies.py:244`,
  `src/adapters/max/send.py:211-251`); an earlier attempt may have timed out waiting for its
  acknowledgement, and MAX then has the text twice, against `docs/tests.md:444`. `Outbound` with
  `LoseReplies = TRUE` and the invariant `QueuedWasNotSent`.
- With MAX away the plaintext of an expired text stays, against `PROJECT.md:300`: the worker does not
  run (`outbound_retry.py:291`), and `expire_pending_outbound` has no caller. `Outbound` with
  `OfflineSpec` and the property `TtlClearsText`.
- Nobody looks at what `send_text` returns for a notice (`replies.py:296`, `outbound_retry.py:120`, `203`,
  `254`). When Telegram refuses it, the row is closed and its text cleared all the same, and the sender
  never learns of the loss, against `docs/runbooks/operations.md:520` ("Telegram topic notice").
  `OutboundConcurrent` with `EveryLossIsTold`; `NoSilentLoss` shows what remains true, that the bridge sends a
  last word for every text it gives up.
- A live event and the history sweep can both pass the duplicate check (`forwarding.py:656`), against
  `PROJECT.md:191`: the message is posted twice. `Inbound` with `PostedOnce`. The same invariant fails for
  a message that is not swept when a restart falls between the worker's send and its transaction.

Route and connection:

- A restart while the end of an outage is being reported (`max_egress.py:217`) revives the outage, and
  one failed look then moves the client, against `docs/runbooks/max-egress-failover.md:31`. So does a
  restart while the recovery of an interrupted switch is being reported (`max_egress.py:199`), when the
  process is down for less than a gap. `Egress` with `FailoverNeedsOutage`; `FailoverIsEarned` exempts the
  executions with such a crash (`seen.torn`) and no others.
- A lifecycle whose close of the previous client raises or times out fails the worker only
  (`lifecycle.py:342-348`), and so does any other task of it; the supervisor starts the next worker in the
  same process (`supervisor.py:56-98`), perhaps beside a client that lives on. "A fresh client may only be
  created after its predecessor closed" (`lifecycle.py:341`), "never a second client" (`max_egress.py:185`) and
  `docs/runbooks/max-egress-failover.md:37` hold for the switch. `Connection` with `NoSecondClient`; and a call
  of the failed worker may go on with a route that was left since: `NobodyStaysBehind`.
- Under the manual policy, the default (`loader.py:33`, `config.yaml:20`), no client is ever closed between two
  (`lifecycle.py:340`): one whose start raised may live on, and its late end marks the new connection as lost.
  `Connection` starts under either policy, and `OneClient` counts the clients that were left so.
- The close at a worker's end waits without a timeout (`lifecycle.py:394`, `composition.py:321`): while it
  hangs, no worker is started. `ComesBack` names the case (`life = "stuck"`).
- The newest copy of the session may be older than the session that connected last: a snapshot is
  skipped when it is not due or its authorisation is unchanged, and a restore then goes back
  (`max_session_store.py:158`). `Connection` with `RestoredIsFresh`.

Watching and telling:

- `alert_sent` and `disconnected_since` are reset only by a poll that sees MAX ready (`background.py:204`).
  When MAX comes back and is lost between two polls, `on_max_ready` marks the link healthy and nothing
  reports the new outage: on a direct route the health stays healthy, against `docs/roadmap.md:46`.
  `MaxWatchdog` with the property `DegradedWhenDown`; `LongOutageIsTold` and `HealthIsHonest` exempt this
  case (`unseen`).
- `--once` beside the loop works on its own copy of the counters (`__main__.py:263`), and the loop's save
  overwrites it: the owner gets the same alert twice, against `docs/runbooks/watchdog.md:301`. `Watchdog`
  with `OnceAddsNoCopy`.
- Two alerts for one target in the same second get the same id (`notifier.py:74`): the outbox keeps one of
  them, against `docs/runbooks/operations.md:525`. `Alerts` with `Alerts = {a1, a2}` and `AlertsAreNotLost`.

Media:

- A path in `data/tmp` is made of the attachment's own file name only (`downloader.py:41-67`, `358`; a
  Telegram photo's of the second it came, `tg/adapter.py:685`, `828-857`). Two documents of one message with
  one name, two messages at once, or the photos of a Telegram album overwrite each other: the second's
  content is sent for both, also into another chat, or the file is gone and skipped (`forwarding.py:445`).
  `OwnContent` exempts what was really shared; without `i \in shared` the `Files` run fails.
- A part left by a crash, or by the gate's interruption (a CancelledError, which no handler there
  catches), is resumed by the next download of that name (`downloader.py:366`): also exempted, as `left`.
- Nothing sweeps `data/tmp`, although `docs/architecture.md:837` and `PROJECT.md:216`, `536` give its files an
  hour (`file_retention_hours` has no reader), and a file is unlinked only at the end of
  `forward_to_telegram` (`forwarding.py:574`), of a complete late recovery (`331`), of a retry, or of a reply
  (`replies.py:149`, `238`). It stays when the message ends before: a duplicate (`forwarding.py:619-691`) or a late
  duplicate that is incomplete or not wanted (`255-327`), no topic (`699`), a disabled chat (`718`), media
  delivered already (`834`), a reply refused before the send (`replies.py:76-135`), an exception
  (`events.py:1762`); and what a failed Telegram download has written stays too (`tg/adapter.py:708`). `Files`
  with `TmpIsEmptied`; `NothingStays` and its theorem name these ends as `kept`.
- A late recovery posts all its media, then opens the transaction that records them
  (`forwarding.py:311-333`); refused because another task holds one, it records nothing, and the media are
  posted again. `BoundedCopies` counts it among the excuses.
- An edit whose base was delivered before parts were recorded is taken for delivered, its new attachments
  included, against `docs/runbooks/operations.md`: `Media` with two attachments (`Parts = {1, 2}`,
  `EditOnly = {2}`, a kind for each), no fault and `EditKeepsMedia`.

Other observations, no line promises otherwise:

- The order of the egress thresholds, and the job that comes back with a crash (section 6).
- An alert decided on but not sent when the process dies is not news to the next process; the ops
  notifier whose set-up fails is not tried again in the process (`composition.py:87-101`).
- Messages for a target that is away count towards the limit of a flush (`notifier.py:113`); a hundred of
  them starve the other target's later ones: `Alerts` with `EventsArriveAnyway`. `EventsArrive` promises the
  arrival while they leave room.
- A message's join button has no claim: its status is read before the join is awaited and written after it
  (`actions.py:115-163`), so two presses join twice. `Topics` with `EachButtonJoinsOnce`; `JoinsOnce` counts the
  presses that overlap.
- A task cancelled inside `transaction()` leaves it open, half done, and the next commit of anybody takes the
  half (`repository.py:90-98`); `TransactionsAreWhole` exempts the recorder that was cancelled. The refused UPDATE
  of a remap leaves a transaction open too (`bindings.py:66`), which the next commit ends.
- The recovery of an external incident is told once; if that send fails it is lost (`rules.py`,
  `watchdog.md:397` says so). While SSH is down a pushed sample counts at every poll, so graces given in
  seconds are counted in polls of another length (`rules.py:201`).
- A self-heal goes on although MAX came back while its alert was being sent, and its file is not written
  atomically (`background.py:176`); a probe begun offline reports `link_offline` after MAX connected
  (`background.py:228`); the manual policy overwrites an issue that asks for a login.

## 8. Not modelled

Parsing, formatting and the wire protocol of MAX; Telegram's buttons; configuration, logging, status
screens, deployment and operator scripts.

Left out of the modules: the meaning of a name or a text (which of two equal texts an echo belongs
to), clean-up by age, references of different messages to one medium, files over the size limit and
captions, the contacts and reports of account recovery, rename of topics, jumps of the wall clock, a
change of the configured routes (after which the events are numbered from 1 again, `max_egress.py:83`, and
those with a receipt are dropped), the growth of the supervisor's backoff, the external watchdog's
restart-storm baseline, daily summary and on-demand check (a `Skip` of the loop). A retry prefix that
makes a file name different for each way is one name per attachment. Probes of `MaxEgress` take no time.

Simplified inside the modules: `ExternalWatchdog` has one condition for a container that is stopped and a
`docker inspect` that failed (the probe script says `found: False` for both), and no push that says
`probe_failed` (`rules.py:439`, judged like no push); `MaxEvents` sweeps without the limit and the `since` window
of `run_dm_history_sweep`; a call that waits at the gate of a failed worker is gone with it; a plain statement
that is rolled back with another task's transaction is `ChatTopics`' subject and does not occur in the
modules of the deliveries. `faults` of the deliveries counts crashes and refused transactions alike, so what
is claimed while `faults = 0` says nothing of a run with a refusal; the copies it may cost are counted.

A component appears in another's module by what it does to it: an exception of `transaction()` is
`RecordingRaised` in the deliveries, a dead worker `Crash`, the reconnect loop `Connect`; the bridge that
drops a message it knows is `known` in `MaxEvents`; a switch of `MaxEgress` closes and connects in one
wait each, which `MaxConnection` opens up.
