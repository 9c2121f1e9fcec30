# Verification of mp3telegrambot

TLA+ models of the parts of the bot in which several processes, tasks or
requests share state, the TLC runs that check them on small instances, and
theorems TLAPS proves about them for every instance.

Run inside this directory:

    tlc -workers 2 -config DubStudio_safety.cfg MCDubStudio    # a run
    tlapm DubStudio_proofs.tla                                  # a proof module

`PROJECT.json` lists components, runs, mutants (a plausible bug per property,
and the definition it goes into), the source lines of every definition,
findings, hazards and theorems.

## 1. Inventory

The program is a Telegram bot (one asyncio process) with a second, durable part:
Dub Studio, whose worker is a process of its own and starts runner processes.
Components in bold are modelled, wholly or in part.

| component | state | operations | with whom | what is hard |
|---|---|---|---|---|
| **Dub Studio queue** `services/dub_studio.py`, `dub_worker.py`, `dub_execution.py` | SQLite tables `dub_jobs`, `dub_projects`, `dub_events`, `dub_workers`, `dub_execution_leases`; runner processes; locals of the worker | enqueue, cancel, claim, finish, recover, lease, quality restart | users (Telegram process), worker, runners, all through SQLite | crash between any two transactions, exceptions, cancellation at every point, recovery against users |
| **worker.lock** `dub_worker.WorkerLock` | a file with a pid | acquire, release | several starters (`ensure_worker_running`) | check-then-act on files, kills |
| **Notifications** `services/dub_studio_runtime.py` | `dub_events.delivered_at`, the progress card reference in `dub_projects.metadata_json`, messages in chats | a pass over undelivered events; edit, send, finalise, mark | worker and users (events), Telegram | awaits between read and write, failing requests, kill between send and mark |
| **Video locks** `core/globals.py`, used by `handlers/commands.py`, `pipelines/playlist.py` | registry video → `asyncio.Lock` | get, acquire with or without time limit, release, remove | eight concurrent updates | an unlocked lock with a woken waiter |
| **LiveDub delivery** `services/livedub_delivery_coordinator.py`, `livedub_audio_companion.py`, `pipelines/livedub_*_stage.py` | in-flight futures, sent marks with a TTL, companion cache, file id in the video's row, deferred MP3 | send, roll back, store, reject, flush, discard | the video pipeline, Telegram | partial sends, a timer against the pipeline, a helper called from six places |
| **Video pipeline** `pipelines/main_pipeline.py` and stages | locals of one request, the dubbing task | download, analyse, deliver, clean up | all of the above | every stage may raise, and the except branch delivers again |
| **Gemini capacity** `services/gemini_capacity_control.py` | semaphore, cooldowns and circuits of two domains, retry budgets | slot, note overload, trip, claim, refund | all model calls | state read before a sleep |
| **Gemini routing and analysis** `services/gemini_router.py`, `gemini_analyze.py` | the next key; locals of a request | rotate, upload, poll, ask, repair | Gemini, capacity control | three kinds of failures, each counted differently |
| **Rate limit** `core/utils.py`, `core/database.py` | row per user: last request, count, day; per-user locks | reserve, refund | handlers, video locks (refund on time-out) | day rollover, clean-up of locks |
| **Bot process** `services/process_singleton.py`, `bot_new.py`, `main.py` | `bot.lock`; the local Bot API server | acquire twice, wait, poll, release | a second start of the bot | two different protocols for one file, kills |
| **Shorts factory** `pipelines/shorts_factory.py`, `factory_retry_runtime.py`, `services/shorts_factory_*` | job lease, delivery ledger, retry calendar, checkpoints | plan, send once, confirm, defer, retry, operator's commands | Gemini, FFmpeg, Telegram | a send whose fate is unknown, cancellation while a thread works, crashes |
| Render locks, resource scheduler `core/render_locks.py`, `core/resource_scheduler.py` | set of busy keys; semaphores | acquire, release | rendering handlers | little: no await while the guard is held |
| Result cache `core/database.py`, `services/database_migrations.py` | rows per video | upsert, validity | pipeline | stale fingerprints |
| **Telegraph publication** `services/telegraph.py`, `telegraph_pages.py`, `telegraph_edit.py`, `pipelines/telegraph_nav.py` | the parts published so far, the pages on telegra.ph | create, cut, merge, edit, contents, navigation | telegra.ph, the pipeline | a size limit known only by trying, pages that cannot be deleted, answers that are lost |
| Translation editorial, wizard, VoxCPM2 runners | none that is shared | conversions and external calls | | |

What makes the modelled components correct:

- *Queue*: one active job per project; a job ends once, with one verdict and one
  event; a cancellation is never forgotten; nothing is put back while a
  supervised runner works for it; a worker settles what it has before it, or ends.
- *worker.lock*: one holder; a holder can be found; a dead one can be replaced.
- *Notifications*: no verdict lost; repeated only if something failed; a card
  belongs to its job; unreachable owners do not silence the others as long as
  their events do not fill a pass.
- *Video locks*: a lock excludes; no lost wake-up; no leak; and what exactly is
  not excluded.
- *Rate limit*: what is reserved and not given back stays within the limit, unless
  a lock is dropped under its waiters, and the row says how much that is.
- *LiveDub delivery and video pipeline*: the user gets a dub's pair of MP3s whole
  or not at all, and the source MP3 or the pair; a stored file id whose pair is not
  cached is one whose pair was pushed out or could not be rejected; every request ends.
- *Gemini*: an overload is not answered by a storm of retries; a published
  cooldown is respected; every request ends.
- *Bot process*: one process polls, unless one was started while another took the
  lock for the first time; a start never hangs.
- *Shorts factory*: no file twice; no delivery claimed that did not happen; a
  deferred job ends or asks for the operator.
- *Telegraph publication*: no paragraph is lost between the parts or by an edit;
  the links lead through all of them, in order.

## 2. Modules

| module | role |
|---|---|
| `DubJobLifecycle` | abstract: what the queue promises of jobs (accept, start, ask to stop, conclude, return, announce) |
| `DubProject` | abstract: what one project shows of its jobs to whoever tells its owner (accept, resume, conclude, a cancellation in two halves) |
| `DubStudio` | the queue, its worker, leases and runners |
| `DubStudioProperties` | its properties, the conjuncts of the inductive invariants, the refinement mappings to `DubJobLifecycle` and, for each project, to `DubProject` |
| `MCDubStudio` | instances for TLC, symmetry of projects |
| `DubStudio_proofs` | types, job invariant, verdicts, runner and lease invariant, the two refinements |
| `WorkerLock` | worker.lock |
| `DubNotifier`, `DubNotifier_proofs` | notifications |
| `VideoLock`, `VideoLock_proofs` | the lock registry for one video; the proofs are those of `Admission`, too |
| `Admission` | composes `VideoLock` (as itself, for the video, and as an instance, for the user's lock) with the daily limit |
| `VideoRequest`, `VideoRequest_proofs` | one request for a video, from its metadata to the finally block, with the LiveDub delivery |
| `GeminiCapacity`, `GeminiCapacity_proofs` | requests to Gemini around the shared capacity state |
| `BotProcess` | bot.lock, which a start takes twice; the wait for the local server, polling |
| `MCBot_proofs` | both lock files: types, exclusion, who is refused and that starts end; that each component behaves in `MCBot` as by itself |
| `FactoryDelivery`, `FactoryDelivery_proofs` | Shorts Factory: lease, ledger, calendar, operator |
| `Publication`, `Publication_proofs` | a text on telegra.ph: parts, merging, edits, contents, navigation |
| `MCBot` | `WorkerLock`, `BotProcess`, `GeminiCapacity`, `FactoryDelivery`, `Publication` and (as `Studio`) `DubStudioProperties` in one instance for TLC: each behaviour is one of one of them |
| `MCRequests` | the same for `Admission`, `VideoRequest` and `DubNotifier` |

### DubStudio

State. Each table is a function of its rows: `status`, `project`, `cancelFlag`,
`owner`, `finishedAt` (stamped or not) of `dub_jobs`; `told[j]`, the terminal
events of a job in the order of insertion; `projStatus`; `leaseState`,
`leaseRunner`; `fresh`, the workers whose heartbeat is younger than the 180 s of
`recover_abandoned_jobs`. `live` is the set of runner processes, `pc` and the
variables beside it are the worker process. `lost` is a history variable: the
live runners whose supervision was lost to an exception in the watch loop or to
a crash before their lease was recorded. It is written by those two actions
only and read by the properties, not by the actions.

A step is one transaction, or what the worker does between two transactions.
`BEGIN IMMEDIATE` justifies the first; the second is what the user, a runner or
a crash can fall into.

| code | actions |
|---|---|
| `enqueue_job`, `request_cancel` | `Enqueue`, `CancelQueued`, `CancelStarted` |
| `ensure_worker_running`, start of `run_worker` | `StartWorker` |
| `recover_orphaned_executions`, one lease after the other | `ReclaimOrphan`, `OrphansDone` |
| `DubStore.recover_abandoned_jobs`; the override in `WorkerDubStore` | `RequeueAbandoned`; `FinaliseCancelled` |
| `register_worker`, `claim_next_job` | `Register`, `Claim` |
| `execute_job` | `StopCheck`, `PreflightStopped`, `PreflightPassed`, `PreflightFailed` |
| `_execute_runner_job` | `Spawn`, `RecordLease`, `WatchStopped`, `WatchExited`, `CloseLease` |
| `_run_with_quality_restarts` | `QualityRestart`, `Finish` |
| the handler of `run_worker`, its end, signals | `Handler`, `SignalStop`, `Shutdown` |
| exceptions | `SpawnRaises`, `LeaseRaises`, `WatchRaises`, `CloseLeaseRaises`, `FinishRaises`, `LoopRaises` |
| the world | `Crash`, `HeartbeatExpires`, `RunnerExits` |

Abstractions: percentages and stages of progress are left out (milestones are in
`DubNotifier`); the verdict of artifacts and of the quality report is
nondeterministic; a preflight that skips is one that passes; an exception
between `close` and `finish` is `FinishRaises`; an exception during the start of
a worker ends the process as `Crash` does; `_FINISH_LOCK` guards one thread
against itself and is dropped; a runner that is killed dies (the code gives it
SIGTERM, then SIGKILL after a time; if even that fails `recover_orphaned_executions`
raises, which is a crash at start); `--once` stops earlier and reaches no other
states. A worker may be started at any time when there is none, and nobody has to
start one: `ensure_worker_running` is called when the bot starts, after a verdict
was delivered and by commands, never because a worker died. That only one worker
runs is assumed here and is the subject of `WorkerLock`, which finds it violated for simultaneous starts: everything said
of `DubStudio` holds under that assumption.

### WorkerLock

`file` is the creator of the file that bears the name, `written` the creators
whose pid is in their file; a step is one file operation of one process. A
process may be killed between any two. An unlink removes the name whoever
created the file, and a pid written to an unlinked file is written to no avail.

### DubNotifier

`events` are the rows the loop reads, `delivered` those with `delivered_at`,
`ref` the card reference of each project, `cards` and `announced` what the
owners have seen. A request to Telegram is two steps: from the read of the
project to the await, and the answer. Between them users and worker go on. A
request may fail, may fail after it was served (a time-out), and always fails
for an owner who blocked the bot (`Unreachable`). Chats are private: for a group
chat `_progress_message_ref` never finds a card (hazard in `PROJECT.json`).
The rest of Dub Studio is five actions on what the loop reads of a project:
`Enqueue`, `Claim`, `Conclude`, `HalfCancel` and `FinishCancel`, with the milestones
in between (`CrossMilestone`). They are the actions of `DubProject`, no freer
(`EventsOfProjects`) and no less free (`EnvironmentIsFree`), and
`DubStudio` implements `DubProject` for every project (`ProjectsAreShown`); so the
loop meets every order of verdicts and activity a recovery can cause, the one in which
the owner enqueues a new job between the two halves of a cancellation included.
A pass reads the `Limit` oldest undelivered events. `Owed` are the verdicts for owners
who can be reached, `InReach` those of them that a pass reads.
A milestone needs a job in work of a project that looks active, as the worker's
jobs are (`StartedJobsAreShown`). `FinaliseCancelled` announces all cancelled jobs in
one transaction; here each project takes its part of it in a step of its own. One event
per milestone and job is what `update_job_progress` ensures; a recovered job
that crosses the milestone again inserts none.

### VideoLock

A step is what a task does between two awaits. `asyncio.Lock` is modelled from
Python 3.12, which the project requires: `acquire` takes a free lock without an
await; `release` unlocks and wakes the first waiter, which locks when it runs; a
waiter that is cancelled after it was woken passes the wake-up on if the lock is
free. `wait_for` of 3.12 awaits in the same task. The processing itself ends or
raises, which both run the same `finally` block.

### Admission

A request reserves a slot of the daily limit and then takes the video's lock.
`UserLock` is a second instance of `VideoLock`: the per-user lock of
`areserve_rate_limit` is an `asyncio.Lock` behind a registry, too, whose
clean-up (`DropUnlocked`, when more than 500 users have one) removes what is not
locked at the moment. `Check` and `Reserve` are the two calls in an executor that
this lock keeps together; either may meet an error of the database, in which
case the code lets the request pass, or charges nothing. `UseVideo` takes a step
of `VideoLock` for an admitted request, `Refund` is the step between a time-out
of the video lock and the finally block. `Midnight` makes the slots of a request
and the row's day differ. `charged`, `late` and `orphaned` are history variables; the
last has the requests that waited for the user's lock when `DropUnlocked` removed it:
they reserve beside the holder of the lock that is made next.

### VideoRequest

`at` is the next step of `process_single_video` and of the helpers it calls,
`self` its locals, `work` the dubbing task, `mp3` and `timer` the deferral of the
source MP3, `rowId` and `analysed` the video's row, `pairs` the companion cache,
`chat` what the user sees; `stale`, a history variable, has the file ids whose pair
the cache pushed out or whose rejection did not reach the row. A step is one call of Telegram, of the database or of
the cache; each may fail, and a failed send may have been carried out.

| code | actions |
|---|---|
| `process_single_video` up to the audio | `Begin`, `Metadata`, `StartDub`, `PrepareAudio`, `AudioTooLarge` |
| analysis, pages, `deliver_result`, `deliver_cache_hit`, `run_extras` | `Analyse`, `DeliverSource`, `Extras`, `SendAtTheEnd` |
| `_send_livedub_result` | `EnterSend`, `AwaitDub`, `WaitTimeout`, `CheckDub`, `SendVideo`, `StoreId`, `Heard` |
| `deliver_new_companions`, `deliver_cached_companions` | `SendClean`, `SendMixed`, `Commit`, `Rollback` |
| `deliver_cached_livedub` | `RejectVideo`, `ClearId` |
| `SourceAudioDeferral` | `Defer`, `FlushThen`, `FlushEnds`, `TimerFires`, `TimerSends`, `Cleanup` |
| the notices | `Oversize`, `FlushFirst`, `Notice` |
| returns, exceptions, except and finally | `Return`, `Raise`, `Rescue`, `Report`, `Succeed`, `Finally` |
| `save_recoverable_cache`, on behalf of other videos | `PushOut` |
| the world | `Background`, `Crash`, `StopSend` |

Abstractions: of texts it matters whether there is one; the second send without
a cover is the first one repeated; the companions' MP3 conversion is part of
their send; a crash loses the held MP3 with its request. `PushOut` may remove a pair
at any time: the cache keeps the newest 500 entries of all videos. A stop of the bot is
a crash wherever the code only unwinds; `StopSend` is the one place where it does more,
the rollback of the companions, after which no stage catches the CancelledError and the
row keeps its id. Requests for the video
follow one another, which `VideoLock` shows up to the overlap of finding 5.

### GeminiCapacity

`cooldown` and `circuit` are the time each domain has left, in units of the
backoff: the n-th failure publishes n units, the last one of the budget opens the
circuit for longer than all of them. `task` holds a request's locals: key, first
key, whether this key was tried twice, the claims of its budgets, and `hits`, the
transient failures it was answered with, a history variable. The part of a
request is "upload", "poll", "infer", "legacy" (without a schema), "low" (less
thinking) or "repair". No other task moves while one asks for a slot: the code
between two awaits is one step, cut at `heavy_gemini_slot` where the guard
`stage[u] # "asking"` glues it together again. That a local refusal of
`analyze_audio_gemini` passes for an overload is the code's (hazard). `poll` is
asked once more (bound: the code asks until its deadline).

### BotProcess

A step is a file operation of `acquire_early_singleton`, of the look in
`run_bot_async`, or a stage of the start. The early loop runs twice: when bot_new.py
begins, and after the imports (`Import`), when `bootstrap_pre_main` calls it anew
(`Bootstrap` is what follows). `acquired` are the processes whose
`_EARLY_LOCK_ACQUIRED` is set. No step waits for another process: starts may overlap
as they like, and `overlapped`, a history variable, says that a process was started
while another one was in its first loop (`Claiming`). A descriptor opened before an
unlink writes to a file without a name (`botContent` of its creator). `Starts` bounds
the processes that are started beside those whose file was left behind, the killed
ones included.

### FactoryDelivery

The lease is a row or none, so whoever owns it is known to the run only. The
fingerprint of a rendered file is nondeterministic (`Prints`): a later run may
render another file. Every step of a run may also be its cancellation
(`Continue`), a step in a thread is carried out all the same. `ReportDeferred` may
fail, too: when neither `mark_completed` nor `mark_blocked` can be written, the loop
logs the exception and turns to other jobs, and the job stays 'running'
(`job.unreported`, a history field as `job.stopped` is). The operator acts
on what no live run works at, and looks into the chat before saying that a file
has arrived: this is what the commands ask of him.

### Publication

A step is one request to telegra.ph with what the code does until the next one.
`todo` is the stack of the recursion (`_publish_recursive`, `_publish_chunk`):
a run of sections that is too big is replaced by its halves. telegra.ph accepts a
page up to `limit`, which is nondeterministic but, as the code says of
CONTENT_TOO_BIG, the same for the same page; an outline, links, related materials
and a footer each add to the size. A request that fails may have been carried
out: a page nobody knows of, or an edit that is tried again.

| code | actions |
|---|---|
| `_publish_recursive` (two of them), `_publish_chunk`, `_create_telegraph_page_single` | `Created`, `Cut`, `CannotCut`, `CreateFails` |
| contents of `_telegraph_post` | `TocCreated`, `TocFails` |
| merging of a synopsis' last parts | `MergeAccepted`, `MergeFails`, `MergeEnds` |
| edits with outline, then without | `EditAccepted`, `EditTooBig`, `EditFails` |
| `add_navigation`, `_walk_chain` | `Navigate`, `NavReads`, `NavReadFails`, `NavAccepted`, `NavTooBig`, `NavFails` |

Abstractions: a paragraph is a number, a title and an author are left out;
`add_navigation` is followed through the pages of one text, whose chain no other
text's walk enters; the related materials are read once per publication.

Two things the translation of these lines brings up and no property is about:
`_find_split_index` reads `ns[1]` of a list with one block
(services/telegraph.py:303), so a text of one block that is too big raises
IndexError where the others return None (both are "failed" here); and `has_nav`
takes the heading «📂 Читать также по теме:» of one or two related materials for
the footer «📂 Читать также:» (pipelines/telegraph_nav.py:166), so the last part
of a text gets no footer then (`HasNav`).

### MCBot, MCRequests

The components of an instance share no state, so a behaviour of all of them is one of
each; an instance in which the component chosen at the start goes on alone checks every
property that names one component. `MCTypeOK` is the conjunction of the type invariants
of five components of `MCBot`; that of `DubStudio`, the sixth, is checked in
`dub_safety`, and those of the three in `MCRequests` by their names.

## 3. Runs

| run | question | bounds |
|---|---|---|
| `dub_safety` | are jobs, events, leases and runners consistent, is the queue the lifecycle, and does each project show what the notifier is modelled on? | 2 projects, 2 jobs, 2 crashes, 1 exception; apart from these, 1 signal and 1 quality restart (`OneKindOfTrouble`); 2.4 million states |
| `dub_abandoned` | does an abandoned job return when there is a worker again? **No** | 1 job, 1 crash, a worker whenever there is none |
| `dub_oneheavy` | is there one runner at a time? **No** | 2 projects, 2 jobs, 1 exception |
| `worker_lock_race` | does worker.lock exclude if starts are not serial? **No** | 2 workers |
| `requests` | do the daily limit and the registry keep requests apart as far as they can, and does everyone get a turn? is the dubbed pair delivered whole, the source MP3 or a pair, each request ended? are verdicts announced, in spite of failures and of an unreachable owner? | 3 requests of one user, 2 with a time limit, limit 1, 2 days, 1 database error, a crowd; 2 requests for one video, 1 trouble anywhere; 2 projects, one unreachable, 2 jobs of 2 milestones, passes of 2 events, 1 kill, 1 fault; 1.16 million states |
| `dub_notifier_card` | does a finalised card stay so? **No** | 1 project, 2 jobs of 4 milestones, 1 fault, passes of 20 |
| `dub_notifier_starved` | does an owner who can be reached hear of every verdict, whoever else cannot be? **No** | 2 projects, one unreachable, 3 jobs, passes of 2, nothing fails |
| `video_lock_overlap` | is a video processed once at a time? **No** | 3 requests |
| `video_lock_bypass` | do parallel requests never get round the daily limit? **No** | 3 requests, limit 2, 1 day, a crowd, no errors |
| `bot` | worker.lock with serial starts: exclusion, take-over; bot.lock: one poller, no hanging start; Gemini: budget, gate, every request ends; Shorts Factory: each file once, jobs settle; telegra.ph: no paragraph lost, links that read the text; the dub worker: what is before it is settled | 3 workers killed at will; 2 processes, started and killed at any time, or one besides a stale file, 2 rounds, 1 wait; 1 request of each kind, 3 keys of which 2 share a project, 1 or 2 slots, budget 2; 1 user's run beside the deferred one, 2 files, 2 fingerprints, 3 windows; 4 sections of 7 paragraphs, pages of at most 1 to 8, 2 requests and 2 rounds per call, 3 troubles; 1 project, 2 jobs, 1 quality restart, 1 crash, 1 exception; 0.49 million states |
| `bot_race` | do never two bots poll? **No** | 3 processes, 2 of them started besides a stale file |
| `video_request_repeat` | may the delivery helper be called again after it failed? **No** | 1 trouble |

Why the bounds are enough. Two projects and two jobs are the least with which a
job can be confused with another of its project and of another project; with
two crashes a recovery is interrupted and repeated; an exception after a crash
meets every combination of lease, job and runner a worker can inherit.
`ProjectSymmetry` is used by the safety run only, whose properties do not name
projects. Signals and quality restarts add no interleaving with the recovery, but more
runners to tell apart: in `dub_safety` the constraint `OneKindOfTrouble` follows
them only as long as nothing crashes or raises. Restarts together with a crash and
an exception are in the instance of `bot`, and the theorems have them all without
bounds. Three
requests are needed for an overlap of video locks: one that has the lock, one
that is woken, one that finds no entry. A limit of one is exceeded by the first
request too many, and the second day is the one a late refund falls into; the bypass
needs a third request, which the limit of two makes the one too many. Two
requests for a video are the first that stores a file id and the one that is offered
it; one trouble is a failure, a lost answer, a stop or a crash at any step, which
`PushOut`, the timer and the time-out of the wait join without a bound; pairs of
troubles are left to the theorems. Two Gemini requests of
different kinds meet in both domains, and with a budget of two there is a first
failure, which pauses, and a last one, which opens a circuit; three keys are one
more than a budget. For `OnePoller` two processes are one that has the lock and one
that finds it, or a killed one and its successor; more of them are a matter of the
theorem, and of `bot_race` where they race for a stale file. Two files are the one a
crash interrupts and the
next; the number of windows is the code's. Sections of three, two, one and one
paragraphs are cut twice and merged once when a page holds four; three troubles are
a call that fails for good and one more answer that is lost. In the instance with
serial starts `OneHolder` follows from `HolderIsVisible`, which is checked.
In `requests` a job of the unreachable owner has up to three events and a pass reads
two, so that passes are filled and a verdict behind them is out of reach (it is
then not in `InReach`, and `dub_notifier_starved` shows that it may stay so); a pass
with one undeliverable event has room for one more, which must be announced.

Deadlock is not checked: every instance stops when its bounds are used up and
all jobs or requests are over.

### Fairness

The liveness properties say `[]<>` that nothing is left to settle: there always comes
a moment when no request is under way, no start is half done, and so on.

- `DubStudio!Fairness`. A live worker runs its code. A dead worker's heartbeat grows
  old. A runner ends (the worker does not limit its time; this is an assumption about
  the runners). No fairness is given to users, crashes, exceptions or signals, and
  each of these is bounded; nor to `StartWorker`, as nothing starts a worker because
  one died: a job may stay queued for ever, and `WorkerSettlesItsJobs` is about what a
  living worker has before it. `RestartedSpec` adds that somebody starts a worker when
  there is none; only `dub_abandoned` uses it, to show that not even this helps.
- `WorkerLock!FairSpec`. A process that is not killed goes on; nobody has to
  start or to be killed.
- `NotifierFairSpec`. The task goes on and Telegram answers. Faults of
  reachable owners are bounded; the unreachable ones fail for ever.
- `VideoLock!FairSpec`, `AdmissionFairSpec`. Each task that can run does, and a
  processing ends. No one has to time out.
- `RequestFairness`. The event loop runs the request and the timers, and the 1800 s
  of the wait for the dub pass; the dubbing task itself may never end.
- `GeminiFairness`. Time passes and every task runs; a call has a time-out, so it
  is answered somehow. Which answer is not chosen by fairness.
- `BotFairSpec`. A process that is not killed runs its code; the server need not
  come up, and nobody stops polling.
- `FactoryFairness`. Runs and the retry loop go on, and the deadline of a
  deferred job passes. The operator need not act, and `DeferredJobSettles` excepts
  the jobs that are his: cut short, or left without a report.

## 4. What was found

1. `dub_abandoned`: the recovery skips fresh heartbeats and runs once per worker.
   A worker started within 180 s of a crash never puts the abandoned job back.
2. `dub_oneheavy`: an exception in the watch loop leaves the runner alive.
3. `worker_lock_race`: an unwritten or replaced lock file is removed by a second
   starter.
4. `dub_notifier_card`: a delayed milestone of a finished job edits its final
   card back to progress when the project has a new job.
5. `video_lock_overlap`: the registry entry of a lock with a woken waiter is
   removed, and a third request makes a second lock.
6. `dub_notifier_starved`: as many undeliverable events as a pass reads, 20 in the
   code, keep every later verdict from being read.
7. `video_lock_bypass`: with more than 500 users the clean-up of the per-user locks
   removes one with a woken waiter; two requests read the same count.
8. `bot_race`: of two bots that start over the file of a killed one, one unlinks the
   file that the other has created, and both poll.
9. `video_request_repeat`: the delivery helper is called again after its wait has
   cancelled the dubbing task, and the CancelledError leaves the request without
   an error message; a playlist ends there.

Each is quoted with the lines it contradicts in `PROJECT.json`, "findings".

## 5. Theorems

All proofs are checked for every value of the constants; the assumptions are the
named `ASSUME`s of the modules (bounds are natural numbers, `NoProject` is no
project, `NoFile` no worker, the impatient requests are requests, the two kinds
of Gemini requests are disjoint finite sets, the retry loop is no user, a
paragraph of a text stands for its place). Where a theorem needs more, it says so
in its statement: `SerialStarts`, `Attempts >= 2`, `Rounds >= 2`, a finite set of
requests or processes.

**DubStudio.** `TypeInv` adds to the type invariant that the worker has a job
exactly while it executes one and a final outcome when it is about to store one
(`WorkerState`): the type of what `Finish` writes follows only from where the
worker is. `JobsInv` makes the queue's properties inductive:

- `OneActiveJobPerProject` needs `RowsBlankUntilInserted` (a job that does not
  exist belongs to no project);
- `OneTerminalEvent` and `NoHalfCancelWhileServing` need `OnlyCancelsAreHalfDone`
  (a final job without `finished_at` is one a recovery cancelled) and
  `RecoveryDone`, which starts one step before the worker serves;
- `ProjectShowsStartedJob` needs `HalfCancelledProjectIdle`: the second recovery
  transaction may overwrite the status of a project that has a new job, but
  nobody has started that job, because nobody serves;
- `VerdictsAreFinal` needs `WorkerJobStarted`: between claim and finish nobody
  else ends the worker's job, and `CancelFlagged`.

`RunnersInv` says where a live runner can be: unsupervised (`lost`), the
worker's own, or named by the running lease of a started job; and that no lease
of a job that may be run again names a live one. From it follow
`OneSupervisedRunner`, `RunnersServeStartedJobs` and `LeaseNeverTaken`.
`LifecycleImplemented` maps each action to a step of `DubJobLifecycle` or to a
stutter; `RequeueAbandoned` is `Return`, `FinaliseCancelled` is `Announce`, and
only there the invariant is needed. `ProjectsAreShown` does the same for `DubProject`, one
project at a time: the job in work is the only one of `ActiveJobsOf`, the one half cancelled
the only one of `HalfCancelledOf`. The second needs `HalfCancelledOnce`: a project
has one job at most whose cancellation is half done, because only a started job is
half cancelled, a project has one (`OneActiveJobPerProject`), and while a half is open
no job of that project is started (`HalfCancelledProjectIdle`).
`StartedJobsAreShown` adds that a job that can make progress is the one shown and
that its project looks active.

**Lock files.** `OneHolderIfSerial` and `HolderVisibleIfSerial` assume
`SerialStarts`, without which both are false. The invariant is the conjunction of
`Typing`, `OneAcquirer` (at most one process is inside `acquire`),
`WriterOwnsFile` (it has the name while it writes), `UnlinkIsSafe` (nobody holds
the lock while another is about to unlink) and `HolderIsVisible` (while somebody
holds the lock the file is theirs and has their pid), so that whoever inspects it
is refused. `RefusedByHolderIfSerial` is the converse: a worker is turned away by a
holder only. What a killed worker left is removed in the first of the two rounds of
`acquire`, and the second finds no file or a holder's.

For bot.lock nothing is assumed of the starts; the two theorems are about behaviours
as long as no process was started while another was in its first loop (`overlapped`).
How many are started, killed, or left a file is not bounded, and a process that has
the lock may be anywhere, in its second loop included. The invariant `SerialInv` is
the conjunction of
`OneClaiming` (one process at most is in its first loop), `NameIsOwners` (the file of
who has the lock bears the name and its pid, so that its second loop ends at the first
look), `PastTheLock` (nobody gets past the loop without having taken the lock, and
nobody writes to another's file), `CreatorHasName` and `TakesNobodys` (who is about to
remove or to write a file takes it from nobody who has the lock).
`OnePollerUnlessOverlapped` follows, and `EndedByOwnerUnlessOverlapped`, the converse:
who gives up in either loop does so for a process that has the lock
(`SecondRoundFindsNoFile`: what a killed one left is gone after one round). With
overlapping starts both polling is possible, as `bot_race` shows.

**DubNotifier.** The invariant relates what a pass has left, what is delivered
and how often each message was shown; and every card reference to the card it
was made for. An answer may add one repetition and pays for it with a fault, a
kill or the mark. Two theorems close the circle with `DubStudio`. `EventsOfProjects`:
what the loop reads changes by steps of the same `DubProject` that `ProjectsAreShown`
derives from the queue, and never by a step of the loop. `EnvironmentIsFree` is the
converse: in any state the loop can meet, each of the five actions is the action of
`DubProject` for that project together with the numbering of jobs and the row that is
inserted, an equivalence, so that what is shown of the loop is shown for all that the
queue can do.

**VideoLock.** The invariant has, beside the types, what a ticket in a lock's
queue says of its request (`Tickets`), that a processing request's lock is locked
and no one else's (`Holds`, `LockExcludes`), that a woken request is the first of
its queue (`WokenIsFirst`), and that a request that did not wait took a lock that
was then in the registry (`FirstIsRegistered`). `RegistryDoesNotLeak` adds
`LockedIsHeld`: a locked lock has a request that processes with it, so its
release, which removes the entry, is still to come. `NoWaiterIsForgotten` adds
`WakeUpKept`: a free lock with waiters has a wake-up on the way, also after a time-out
or a cancellation of who was woken, and also when its entry has been replaced;
`NoUserIsForgotten` is the same for the user's lock. `WaitersAreServedInOrder` says that
nobody takes a free lock in front of the waiter who has been woken for it.

**Admission.** `AdmissionUsesTheLock` shows that a request that reserves first is
a request of `VideoLock`, so the theorems above hold of it. For the ledger,
`LedgerInv` says that nothing is charged to a day to come and that, without late
refunds and errors, the row counts `Used(row.date)`; the set of slots and the
count then change together in `Charge` and `GiveBack` (`Charge_Ledger`,
`Refund_Ledger`). For the limit, `UserInv` is the invariant of the user's lock,
which differs from that of a video in that its entry stays after a release and
may go while it is unlocked. Who holds or awaits a lock and is not `orphaned` has the
registered one (`UserFirst`), so that of the requests inside at most one is not
`orphaned`. `RowMissesFew` bounds what the row does not know of
today's slots by late refunds and errors, so a check that passes leaves room for
one more slot (`RoomForPassed`), and only the request that checked can take it:
the others inside are `orphaned`. `LimitIsKept` counts all requests but these,
whether they waited or not (`Unhanded`), and has no bound on the
requests, the days, the limit or the errors; its one assumption is that the
requests are finitely many. `AdmissionTypes` needs more than types: that the row
does not count beyond the reservations follows from `CountBacked` (each unit of the
count is a slot somebody reserved), and that only admitted requests touch the
video's lock from `SlotBeforeVideo`.

**VideoRequest.** `RequestInv` has one part for each piece of state, and each is
kept by every action of the request, of its helper, of the timers and of a crash:

- `ControlInv`: where the request is, whom the helper returns to, what a flush
  goes on with, and which messages a call has sent at each of its steps
  (`SentShape`);
- `DeferralInv`: a timer runs just as long as an MP3 is held;
- `ChatInv`: a message that the code means to delete is in the chat;
- `MessageInv`: while the helper works, the chat has exactly what it counted as
  sent, unless a message arrived unnoticed (`stray`); outside the helper the pair is there
  whole or not at all, or a deletion failed (`PairOrNothing`). Only the helper's
  sends and deletions touch these messages (`DubKept_Step`), and once the request
  has heard of the dub, no call follows that could touch them;
- `SourceInv`: an MP3 that is neither held nor missed was sent, or a pair stands
  in for it, and then nothing deletes that pair any more (`PairStays_Step`);
- `IdInv`: a row names a pair that is cached, or one that is being rejected, or one
  in `stale`, which was pushed out of the cache or whose rejection failed or was cut
  short.

`RequestPairOrNothing`, `RequestSourceOrPair` and `RequestIdMeansPair` follow, for
every number of requests, troubles and evictions.

**FactoryDelivery.** `RunsInv` (a run that works has the lease, and it is the only
one), `IntentIsWritten` (a run that sends or confirms has its own row in state
'sending', and its file is not in the chat before it is sent), `LedgerInv`
(a file that is in the chat has a row; a delivered row has its file in the chat,
once) and `JobInv` (a job that goes on has windows left). `FilesArriveOnce` follows because a row is written before the
send and only the operator, when no run is alive, removes one. `LeaseExcludes` and
`ConfirmedStays` are corollaries of the same invariant. `RunningJobsAreWorkedOn`: a job
that is 'running' has its run, unless that was cut short or neither its end nor that it is
blocked could be written down, which are the operator's cases.
`DoneJobsWereDelivered` needs to know what each run may claim at each of its steps
(`ClaimsAreTrue`): nobody reports success before the ledger has a delivered row.

**GeminiCapacity.** `BudgetInv` is an account for each task: its hits are covered
by claims (`Suits`), strictly as long as an attempt is under way (`Pending`); an
additional request may be one hit ahead, but then the task has ended
(`Unclaimed`); and an upload or a pause leaves a claim of inference, so that what
follows cannot exceed the budget. `QueueInv` says that the head of the queue
waits. From both follows `RetriesAreBounded`, with no bound on keys, refunds or
circuits. `SlotInv` says, for one slot, that one task at most is behind the gate
and that its sleep covers every cooldown that blocks it: a task that is refused
publishes an overload only of a domain whose circuit is open, a failing call
needs the slot, and time takes as much from the sleep as from the cooldown.
`GateIsRespected` follows; with two slots the second half is false, and the
property does not claim it. `GeminiTypes` adds `KeysInv`: wherever a task makes an
attempt, polls or pauses for the same key, that key exists, though the index is
raised before it is looked at; `AllQueued` and `SlotsKept` say that the queue
misses nobody who waits and that who enters found a slot free, after answers,
refusals and failures. `SomeRequestGoesOn` says that the
semaphore, the cooldowns and the circuits never make all requests wait for each
other: while one is under way, one can take its step or a pause runs.

**Publication.** A text is any sequence of sections of paragraphs. What is cut,
merged and joined has any length, and the library's induction takes a predicate
as a parameter; the induction here is on a set of naturals instead (`LeastNat`,
`NatInd`, from the well-foundedness of `<`). With it are proved, once, that
the recursive function behind `FlattenSeq` exists, that `FlattenSeq` has the type it
should and distributes over concatenation,
and what `Without` keeps. The invariant has three parts. `Control` types what
each stage has in hand: pages named by parts exist and belong to one part each,
the runs still to be published are not empty, the counters are within their
bounds. `TextInv` is an account: there is a beginning W of the text such that the
runs of `todo` are its rest, and the parts hold W without `dropped`, in order
(`Account`); creating, cutting, giving up and merging each keep it, because they
replace runs or parts by others with the same text, or move what they leave out
to `dropped`. `Display` relates the pages to the parts: no edit, merge or footer
takes a paragraph of its part off a page (`Shown`), pages have no links before
they are edited (`Bare`), then none or that of the next part, and an edit that was
reported as successful has that one (`PartLinks`), and a contents page names the
parts in order (`ContentsLead`). `NothingLost` and `LinksLead` follow, for every
text, limit, and number of troubles; an answer that is lost is why a part's page
may have links although its edit is in `missed`.

**Everything comes to an end.** Liveness is out of the prover's reach, its safety
half is not: a natural number that falls with every step of an actor and that nobody
else raises, so that only a scheduler can keep the actor from its end.

| theorem | steps | what bounds them |
|---|---|---|
| `AcquireRunsOut` | `3 * Attempts + 7` for a worker in `acquire` | rounds left, then the place in the round |
| `StartsRunOut` | `21 + 8 * Rounds + 2 * Patience` for a start of the bot | rounds of the early loop, which runs twice; waits for the server |
| `RequestsRunOut` | `126 * k + 125` for a request to Gemini with `k` keys | keys, the two tries of a key, parts of the request, stages of a part |
| `VisitsRunOut` | 56 for a request for a video, and one per failure | the steps to its finally block, those of a call of the helper included |
| `RunsRunOut` | `3 * Artifacts + 6` for a run of the factory | files left |
| `PublishingEnds` | four numbers, in lexicographic order | stages; in a stage the runs, parts or pages left; forms of a page to be tried; requests of a call |

`PublishingEnds` needs an order rather than a bound, because a run that is cut leaves
two: what is left to publish is twice the paragraphs less the runs (`Uncut`), which a
cut and a published run both lower, and a stage that is over starts counts of its own.

**The instance.** `InstanceIsEachComponent` says that `MCBot` is, for each of its six
components, the component's own specification, so that its theorems hold there;
`InstanceTypes` proves `MCTypeOK`. `MCRequests` is built the same way; it has no such
theorem.

Model-checked only: the eight liveness properties (`WorkerSettlesItsJobs`,
`VerdictsPassOthers`, `EveryRequestEnds`, `StaleLockIsTakenOver`,
`EveryStartSettles`, `EveryRequestAnswered`, `DeferredJobSettles`,
`EveryVisitSettles`), since fairness and ENABLED are out of the prover's reach; and
the violations. Every safety property of a passing run is a theorem.

## 6. Plan

1. *Done*: `DubJobLifecycle`, `DubStudio`, `WorkerLock`, `DubNotifier`,
   `VideoLock` and their proofs.
2. *Done*: `Admission`, `VideoRequest`, `GeminiCapacity`, `BotProcess`,
   `FactoryDelivery`, `Publication`, `MCBot`, `MCRequests`; the proofs of the registry, of the ledger and of
   the capacity state.
3. *Done*: every invariant and every action property that a passing run checks is
   a theorem, and so are the types of every component, the ends of their loops
   and the safety halves of the liveness properties.
4. Two deliveries of one key at once (the single flight of
   livedub_delivery_coordinator.py), composed with the overlap of `VideoLock`.
5. The stage checkpoints of the factory, which would replace the nondeterministic
   fingerprints.
6. *Done*: what `DubNotifier` supposes of the queue, `DubProject`, is implemented by
   `DubStudio`, and is what `DubNotifier`'s other actions do, no more and no less.

## 7. Not modelled

The components of the inventory without a module, for the reasons given in
`PROJECT.json`: their work is a conversion (text to Telegraph nodes, editorial, PDF,
prompts, which are most of the repository's lines) or a call of an external
service without shared state. Inside the modelled ones: reuse of process ids,
failing kills, clocks that go backwards (heartbeats are wall-clock), a full disk,
corrupt rows, the hourly clean-up of video locks, the time stamps of
`_video_lock_meta`, whitelisted users, the single flight of companion deliveries,
the audit that may forbid a page and the repair pass of published pages, stage
checkpoints of the factory, the registries that a restart inside the
process clears.
