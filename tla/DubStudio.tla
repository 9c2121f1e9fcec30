------------------------------ MODULE DubStudio ------------------------------
(***************************************************************************)
(* Dub Studio: the durable job queue shared by two processes.             *)
(*                                                                         *)
(* The Telegram process only writes rows of the SQLite database            *)
(* (services/dub_studio.py): it enqueues a job and it asks for a           *)
(* cancellation.  One worker process (services/dub_worker.py) claims jobs, *)
(* starts a runner process for each, watches it, and settles the job.  A   *)
(* lease row (services/dub_execution.py) records which runner serves which *)
(* job, so that a worker started after a crash can kill what its           *)
(* predecessor left behind before it puts the abandoned jobs back.         *)
(*                                                                         *)
(* Every action below is one SQLite transaction or one step between two    *)
(* transactions: that is the granularity at which the two processes        *)
(* interleave and at which a crash can fall.                               *)
(***************************************************************************)
EXTENDS Naturals, Sequences

CONSTANTS
  Projects,        \* rows of dub_projects
  NoProject,       \* the project of a job row that does not exist yet
  MaxJobs,         \* bound: job rows ever inserted
  QualityRetries,  \* MAX_JOB_QUALITY_RESTARTS
  MaxCrashes,      \* bound: worker processes killed
  MaxFaults,       \* bound: exceptions raised by a store call or by Popen
  MaxStops         \* bound: SIGTERM/SIGINT delivered to a worker

ASSUME ProjectAssumption == NoProject \notin Projects
ASSUME BoundAssumption ==
  /\ MaxJobs \in Nat /\ QualityRetries \in Nat
  /\ MaxCrashes \in Nat /\ MaxFaults \in Nat /\ MaxStops \in Nat

VARIABLES
  \* table dub_jobs, and the terminal rows of dub_events
  status,      \* dub_jobs.status, "none" before the row exists
  project,     \* dub_jobs.project_id
  cancelFlag,  \* dub_jobs.cancel_requested
  owner,       \* dub_jobs.worker_id, 0 for ''
  finishedAt,  \* dub_jobs.finished_at # ''
  told,        \* the job's job_succeeded/job_failed/job_cancelled events
  \* table dub_projects
  projStatus,  \* dub_projects.status
  \* table dub_execution_leases, one row per job
  leaseState,
  leaseRunner,
  \* table dub_workers
  fresh,       \* ids of the workers whose heartbeat is younger than 180 s
  \* runner processes of the operating system
  live,        \* those that run
  lost,        \* history: those nobody supervises any more
  spawned,     \* number ever started
  \* the worker process
  pc,          \* where its code is, "down" when there is no process
  me,          \* worker_id of the current (or last) worker process
  job,         \* the job it executes, 0 for none
  runner,      \* proc of _execute_runner_job
  attempt,     \* retry_index of _run_with_quality_restarts
  outcome,     \* the final status it is about to store
  stopping,    \* _STOP
  \* how much of each bound is used
  crashes, faults, stops

store   == <<status, project, cancelFlag, owner, finishedAt, told, projStatus>>
leases  == <<leaseState, leaseRunner>>
runners == <<live, lost, spawned>>
worker  == <<pc, me, job, runner, attempt, outcome, stopping>>
bounds  == <<crashes, faults, stops>>
vars    == <<store, leases, fresh, runners, worker, bounds>>

JobIds   == 1..MaxJobs
NoJob    == 0
NoOwner  == 0
Runner   == [id : Nat, job : JobIds]
NoRunner == [id |-> 0, job |-> 0]

Active        == {"queued", "running", "cancel_requested"}
Started       == {"running", "cancel_requested"}
Final         == {"succeeded", "failed", "cancelled"}
ProjectStatus == {"draft", "queued", "rendering", "cancelling",
                  "cancelled", "done", "failed"}
LeaseState    == {"none", "running", "finished", "failed",
                  "cancelled", "terminated", "stale"}
StartupPC     == {"orphans", "requeue", "finalise", "register"}
ServingPC     == {"idle", "check", "preflight", "spawn", "lease", "watch",
                  "close", "captured", "finish", "handler", "lastFinish"}
PC            == {"down"} \cup StartupPC \cup ServingPC

TypeOK ==
  /\ status \in [JobIds -> {"none"} \cup Active \cup Final]
  /\ project \in [JobIds -> Projects \cup {NoProject}]
  /\ cancelFlag \in [JobIds -> BOOLEAN]
  /\ owner \in [JobIds -> Nat]
  /\ finishedAt \in [JobIds -> BOOLEAN]
  /\ told \in [JobIds -> Seq(Final)]
  /\ projStatus \in [Projects -> ProjectStatus]
  /\ leaseState \in [JobIds -> LeaseState]
  /\ leaseRunner \in [JobIds -> Runner \cup {NoRunner}]
  /\ fresh \in SUBSET Nat
  /\ live \in SUBSET Runner /\ lost \in SUBSET Runner
  /\ spawned \in Nat
  /\ pc \in PC
  /\ me \in Nat
  /\ job \in JobIds \cup {NoJob}
  /\ runner \in Runner \cup {NoRunner}
  /\ attempt \in 0..QualityRetries
  /\ outcome \in Final \cup {"none"}
  /\ stopping \in BOOLEAN
  /\ crashes \in 0..MaxCrashes /\ faults \in 0..MaxFaults /\ stops \in 0..MaxStops

Init ==
  /\ status = [j \in JobIds |-> "none"]
  /\ project = [j \in JobIds |-> NoProject]
  /\ cancelFlag = [j \in JobIds |-> FALSE]
  /\ owner = [j \in JobIds |-> NoOwner]
  /\ finishedAt = [j \in JobIds |-> FALSE]
  /\ told = [j \in JobIds |-> <<>>]
  /\ projStatus = [p \in Projects |-> "draft"]
  /\ leaseState = [j \in JobIds |-> "none"]
  /\ leaseRunner = [j \in JobIds |-> NoRunner]
  /\ fresh = {}
  /\ live = {} /\ lost = {} /\ spawned = 0
  /\ pc = "down" /\ me = 0
  /\ job = NoJob /\ runner = NoRunner
  /\ attempt = 0 /\ outcome = "none" /\ stopping = FALSE
  /\ crashes = 0 /\ faults = 0 /\ stops = 0

-----------------------------------------------------------------------------
(* The Telegram process.                                                   *)

\* Mutant: cancel_requested is missing from the list of active statuses.
ActiveJobsUnlessCancelling(p) ==
  {j \in JobIds : project[j] = p /\ status[j] \in {"queued", "running"}}

ActiveJobsOf(p) == {j \in JobIds : project[j] = p /\ status[j] \in Active}

\* DubStore.enqueue_job: refused while the project has an active job; the row,
\* the project and the event are one BEGIN IMMEDIATE transaction.
Enqueue(p) ==
  /\ ActiveJobsOf(p) = {}
  /\ \E j \in JobIds :
       /\ status[j] = "none" /\ \A i \in 1..(j - 1) : status[i] # "none"
       /\ status' = [status EXCEPT ![j] = "queued"]
       /\ project' = [project EXCEPT ![j] = p]
  /\ projStatus' = [projStatus EXCEPT ![p] = "queued"]
  /\ UNCHANGED <<cancelFlag, owner, finishedAt, told, leases, fresh, runners, worker, bounds>>

\* The row request_cancel reads: the project's active job with the highest id.
Cancellable(p, j) ==
  /\ j \in ActiveJobsOf(p)
  /\ \A i \in ActiveJobsOf(p) : i <= j

\* DubStore.request_cancel of a job no worker has claimed: final at once.
CancelQueued(p) ==
  \E j \in JobIds :
    /\ Cancellable(p, j) /\ status[j] = "queued"
    /\ status' = [status EXCEPT ![j] = "cancelled"]
    /\ cancelFlag' = [cancelFlag EXCEPT ![j] = TRUE]
    /\ finishedAt' = [finishedAt EXCEPT ![j] = TRUE]
    /\ told' = [told EXCEPT ![j] = Append(@, "cancelled")]
    /\ projStatus' = [projStatus EXCEPT ![p] = "cancelled"]
    /\ UNCHANGED <<project, owner, leases, fresh, runners, worker, bounds>>

\* DubStore.request_cancel of a started job: the worker is only asked to stop.
CancelStarted(p) ==
  \E j \in JobIds :
    /\ Cancellable(p, j) /\ status[j] \in Started
    /\ status' = [status EXCEPT ![j] = "cancel_requested"]
    /\ cancelFlag' = [cancelFlag EXCEPT ![j] = TRUE]
    /\ projStatus' = [projStatus EXCEPT ![p] = "cancelling"]
    /\ UNCHANGED <<project, owner, finishedAt, told, leases, fresh, runners, worker, bounds>>

-----------------------------------------------------------------------------
(* Start of a worker: run_worker up to its loop.                           *)

\* ensure_worker_running has found no living owner of worker.lock, and a worker
\* process gets the lock.  (That only one does is the subject of module
\* WorkerLock.)  It may start at any time, however fresh the heartbeat of the
\* one before; and nothing says that it ever starts.
StartWorker ==
  /\ pc = "down"
  /\ pc' = "orphans"
  /\ me' = me + 1
  /\ UNCHANGED <<store, leases, fresh, runners, job, runner, attempt, outcome, stopping, bounds>>

LeasedRunning == {j \in JobIds : leaseState[j] = "running"}

\* recover_orphaned_executions, one running lease: its runner is killed if it
\* still lives, and the lease is closed.
ReclaimOrphan ==
  /\ pc = "orphans"
  /\ \E j \in LeasedRunning :
       /\ \A i \in LeasedRunning : j <= i
       /\ leaseState' = [leaseState EXCEPT ![j] =
                           IF leaseRunner[j] \in live THEN "terminated" ELSE "stale"]
       /\ live' = live \ {leaseRunner[j]}
       /\ lost' = lost \ {leaseRunner[j]}
  /\ UNCHANGED <<store, leaseRunner, fresh, spawned, worker, bounds>>

\* Mutant: jobs are requeued without killing the runners left behind.
OrphansSkipped ==
  /\ pc = "orphans"
  /\ pc' = "requeue"
  /\ UNCHANGED <<store, leases, fresh, runners, me, job, runner, attempt, outcome, stopping, bounds>>

OrphansDone ==
  /\ pc = "orphans" /\ LeasedRunning = {}
  /\ pc' = "requeue"
  /\ UNCHANGED <<store, leases, fresh, runners, me, job, runner, attempt, outcome, stopping, bounds>>

\* Mutants: the recovery looks at every row, or it puts every job back.
AbandonedUnfiltered == {j \in JobIds : status[j] # "none" /\ owner[j] \notin fresh}
AlwaysRequeued(j) == "queued"

\* The rows DubStore.recover_abandoned_jobs acts on: started jobs whose
\* worker's heartbeat is stale (or who have no worker row).
Abandoned == {j \in JobIds : status[j] \in Started /\ owner[j] \notin fresh}

\* A job whose cancellation was requested is cancelled, the others go back.
RecoveredStatus(j) ==
  IF cancelFlag[j] \/ status[j] = "cancel_requested" THEN "cancelled" ELSE "queued"

\* DubStore.recover_abandoned_jobs, the first transaction of the recovery: it
\* neither stamps finished_at nor inserts a terminal event.
RequeueAbandoned ==
  /\ pc = "requeue"
  /\ pc' = "finalise"
  /\ status' = [j \in JobIds |-> IF j \in Abandoned THEN RecoveredStatus(j) ELSE status[j]]
  /\ owner' = [j \in JobIds |-> IF j \in Abandoned THEN NoOwner ELSE owner[j]]
  /\ projStatus' = [p \in Projects |->
       IF \E j \in Abandoned : project[j] = p
       THEN RecoveredStatus(CHOOSE j \in Abandoned : project[j] = p)
       ELSE projStatus[p]]
  /\ UNCHANGED <<project, cancelFlag, finishedAt, told, leases, fresh, runners,
                 me, job, runner, attempt, outcome, stopping, bounds>>

\* Rows cancelled by the first transaction of this or of an earlier recovery.
HalfCancelled == {j \in JobIds : status[j] = "cancelled" /\ cancelFlag[j] /\ ~finishedAt[j]}

\* WorkerDubStore.recover_abandoned_jobs, the second transaction: finished_at,
\* the project's status and the missing terminal event.
FinaliseCancelled ==
  /\ pc = "finalise"
  /\ pc' = "register"
  /\ finishedAt' = [j \in JobIds |-> finishedAt[j] \/ j \in HalfCancelled]
  /\ projStatus' = [p \in Projects |->
       IF \E j \in HalfCancelled : project[j] = p THEN "cancelled" ELSE projStatus[p]]
  /\ told' = [j \in JobIds |->
       IF j \in HalfCancelled /\ \A k \in 1..Len(told[j]) : told[j][k] # "cancelled"
       THEN Append(told[j], "cancelled") ELSE told[j]]
  /\ UNCHANGED <<status, project, cancelFlag, owner, leases, fresh, runners,
                 me, job, runner, attempt, outcome, stopping, bounds>>

\* Mutant: the worker serves without the second transaction of the recovery.
RegisterEarly ==
  /\ pc \in {"finalise", "register"}
  /\ pc' = "idle"
  /\ fresh' = fresh \cup {me}
  /\ UNCHANGED <<store, leases, runners, me, job, runner, attempt, outcome, stopping, bounds>>

\* DubStore.register_worker.
Register ==
  /\ pc = "register"
  /\ pc' = "idle"
  /\ fresh' = fresh \cup {me}
  /\ UNCHANGED <<store, leases, runners, me, job, runner, attempt, outcome, stopping, bounds>>

-----------------------------------------------------------------------------
(* Execution of one job.                                                   *)

\* Mutant: the claim asks the project, too, whether its job is queued.
QueuedAndShown == {j \in JobIds : status[j] = "queued" /\ projStatus[project[j]] = "queued"}

Queued == {j \in JobIds : status[j] = "queued"}

\* DubStore.claim_next_job: the queued row with the lowest id.
Claim ==
  /\ pc = "idle" /\ ~stopping
  /\ \E j \in Queued :
       /\ \A i \in Queued : j <= i
       /\ status' = [status EXCEPT ![j] = "running"]
       /\ owner' = [owner EXCEPT ![j] = me]
       /\ projStatus' = [projStatus EXCEPT ![project[j]] = "rendering"]
       /\ job' = j
  /\ pc' = "check"
  /\ UNCHANGED <<project, cancelFlag, finishedAt, told, leases, fresh, runners,
                 me, runner, attempt, outcome, stopping, bounds>>

\* _stop_reason, DubStore.is_cancel_requested.  (An unreadable row counts as
\* "no request": the same as a request that arrives just after the check.)
StopSeen == stopping \/ cancelFlag[job] \/ status[job] = "cancel_requested"

Goto(l) ==
  /\ pc' = l
  /\ UNCHANGED <<me, job, runner, attempt, outcome, stopping>>

GotoWith(l, verdict) ==
  /\ pc' = l /\ outcome' = verdict
  /\ UNCHANGED <<me, job, runner, attempt, stopping>>

Untouched == UNCHANGED <<store, leases, fresh, runners, bounds>>

\* execute_job: the check before the preflight.
StopCheck ==
  /\ pc = "check" /\ Untouched
  /\ IF StopSeen THEN GotoWith("finish", "cancelled") ELSE Goto("preflight")

\* execute_job: whatever dub_job_preflight.run answers, a request that came
\* meanwhile wins; otherwise its verdict decides.
PreflightStopped ==
  /\ pc = "preflight" /\ StopSeen /\ Untouched
  /\ GotoWith("finish", "cancelled")

PreflightPassed ==
  /\ pc = "preflight" /\ ~StopSeen /\ Untouched
  /\ Goto("spawn")

PreflightFailed ==
  /\ pc = "preflight" /\ ~StopSeen /\ Untouched
  /\ GotoWith("finish", "failed")

\* _execute_runner_job: Popen.  The runner is in a session of its own.
Spawn ==
  /\ pc = "spawn"
  /\ pc' = "lease"
  /\ spawned' = spawned + 1
  /\ runner' = [id |-> spawned + 1, job |-> job]
  /\ live' = live \cup {runner'}
  /\ UNCHANGED <<store, leases, fresh, lost, me, job, attempt, outcome, stopping, bounds>>

\* record_execution_lease refuses a job whose lease names a live runner: the
\* new runner is then terminated and the exception goes to run_worker.
LeaseTaken == leaseState[job] = "running" /\ leaseRunner[job] \in live

RecordLease ==
  /\ pc = "lease"
  /\ IF LeaseTaken
     THEN /\ live' = live \ {runner} /\ UNCHANGED leases
          /\ Goto("handler")
     ELSE /\ leaseState' = [leaseState EXCEPT ![job] = "running"]
          /\ leaseRunner' = [leaseRunner EXCEPT ![job] = runner]
          /\ UNCHANGED live
          /\ Goto("watch")
  /\ UNCHANGED <<store, fresh, lost, spawned, bounds>>

\* Mutant: a stopped job's runner is left alone.
WatchStoppedOnly ==
  /\ pc = "watch" /\ StopSeen
  /\ GotoWith("close", "cancelled")
  /\ UNCHANGED <<store, leases, fresh, runners, bounds>>

\* The loop of _execute_runner_job, a round that sees a request to stop.
WatchStopped ==
  /\ pc = "watch" /\ StopSeen
  /\ live' = live \ {runner}
  /\ GotoWith("close", "cancelled")
  /\ UNCHANGED <<store, leases, fresh, lost, spawned, bounds>>

\* The loop ends because the runner has exited: exit code and artifacts give
\* the outcome.  A request that arrives after the last round is not looked at.
WatchExited ==
  /\ pc = "watch" /\ runner \notin live /\ Untouched
  /\ \E verdict \in {"succeeded", "failed"} : GotoWith("close", verdict)

\* Mutant: the job's status is stored as the state of its lease.
LeaseStateSame(verdict) == verdict

\* _finish_lease_safely, before the outcome is stored.
LeaseStateFor(verdict) == IF verdict = "succeeded" THEN "finished" ELSE verdict

CloseLease ==
  /\ pc = "close"
  /\ leaseState' = [leaseState EXCEPT ![job] = LeaseStateFor(outcome)]
  /\ Goto("captured")
  /\ UNCHANGED <<store, leaseRunner, fresh, runners, bounds>>

\* _run_with_quality_restarts: a failure its quality report calls retryable is
\* run again, unless the stop check after the progress update says otherwise.
QualityRestart ==
  /\ pc = "captured" /\ outcome = "failed" /\ attempt < QualityRetries
  /\ Untouched
  /\ IF StopSeen
     THEN GotoWith("finish", "cancelled")
     ELSE /\ pc' = "spawn" /\ attempt' = attempt + 1
          /\ outcome' = "none" /\ runner' = NoRunner
          /\ UNCHANGED <<me, job, stopping>>

ProjectStatusFor(verdict) == IF verdict = "succeeded" THEN "done" ELSE verdict

\* WorkerDubStore.finish_job: nothing if the row is final already; otherwise
\* DubStore.finish_job overwrites the status and inserts the terminal event.
StoreOutcome(verdict) ==
  IF status[job] \in Final
  THEN UNCHANGED store
  ELSE /\ status' = [status EXCEPT ![job] = verdict]
       /\ finishedAt' = [finishedAt EXCEPT ![job] = TRUE]
       /\ told' = [told EXCEPT ![job] = Append(@, verdict)]
       /\ projStatus' = [projStatus EXCEPT ![project[job]] = ProjectStatusFor(verdict)]
       /\ UNCHANGED <<project, cancelFlag, owner>>

Release(l) ==
  /\ pc' = l
  /\ job' = NoJob /\ runner' = NoRunner /\ attempt' = 0 /\ outcome' = "none"
  /\ UNCHANGED me

Finish ==
  /\ pc \in {"captured", "finish", "lastFinish"}
  /\ StoreOutcome(outcome)
  /\ Release("idle")
  /\ UNCHANGED <<leases, fresh, runners, stopping, bounds>>

\* run_worker, except Exception: the lease row (if any) becomes 'failed'
\* whatever runs under it, then the job is stored as failed.
Handler ==
  /\ pc = "handler"
  /\ leaseState' = [leaseState EXCEPT ![job] = IF @ = "none" THEN @ ELSE "failed"]
  /\ GotoWith("lastFinish", "failed")
  /\ UNCHANGED <<store, leaseRunner, fresh, runners, bounds>>

-----------------------------------------------------------------------------
(* Ends of a worker, and what goes wrong.                                  *)

\* SIGTERM or SIGINT, once run_worker has installed its handlers.
SignalStop ==
  /\ pc \in ServingPC /\ ~stopping /\ stops < MaxStops
  /\ stopping' = TRUE /\ stops' = stops + 1
  /\ UNCHANGED <<store, leases, fresh, runners, pc, me, job, runner, attempt, outcome,
                 crashes, faults>>

\* The loop of run_worker ends: a last heartbeat, then the lock is released.
Shutdown ==
  /\ pc = "idle" /\ stopping
  /\ pc' = "down" /\ stopping' = FALSE
  /\ fresh' = fresh \cup {me}
  /\ UNCHANGED <<store, leases, runners, me, job, runner, attempt, outcome, bounds>>

\* The worker process is killed.  Between Popen and the lease row its runner
\* is known to nobody.
Crash ==
  /\ pc # "down" /\ crashes < MaxCrashes
  /\ crashes' = crashes + 1
  /\ lost' = IF pc = "lease" THEN lost \cup ({runner} \cap live) ELSE lost
  /\ Release("down") /\ stopping' = FALSE
  /\ UNCHANGED <<store, leases, fresh, live, spawned, faults, stops>>

\* The heartbeat of a worker that is no more reaches the age of 180 s.  (A
\* live worker's may age too, but nobody recovers its jobs while it lives.)
HeartbeatExpires(w) ==
  /\ w \in fresh /\ (pc = "down" \/ w # me)
  /\ fresh' = fresh \ {w}
  /\ UNCHANGED <<store, leases, runners, worker, bounds>>

\* A runner ends, by itself or killed from outside.
RunnerExits(r) ==
  /\ r \in live
  /\ live' = live \ {r} /\ lost' = lost \ {r}
  /\ UNCHANGED <<store, leases, fresh, spawned, worker, bounds>>

Fault == faults < MaxFaults /\ faults' = faults + 1 /\ UNCHANGED <<crashes, stops>>

\* Popen raises: there is no runner.
SpawnRaises ==
  /\ pc = "spawn" /\ Fault /\ Goto("handler")
  /\ UNCHANGED <<store, leases, fresh, runners>>

\* record_execution_lease raises: the new runner is terminated.
LeaseRaises ==
  /\ pc = "lease" /\ Fault /\ Goto("handler")
  /\ live' = live \ {runner}
  /\ UNCHANGED <<store, leases, fresh, lost, spawned>>

\* A store call of the loop of _execute_runner_job raises (a locked database,
\* a lease heartbeat that finds no row): nothing stops the runner.
WatchRaises ==
  /\ pc = "watch" /\ Fault /\ Goto("handler")
  /\ lost' = lost \cup ({runner} \cap live)
  /\ UNCHANGED <<store, leases, fresh, live, spawned>>

\* _finish_lease_safely swallows the exception: the lease stays 'running'.
CloseLeaseRaises ==
  /\ Fault
  /\ \/ pc = "close" /\ Goto("captured")
     \/ pc = "handler" /\ GotoWith("lastFinish", "failed")
  /\ UNCHANGED <<store, leases, fresh, runners>>

\* finish_job raises inside execute_job: the handler stores a failure instead.
FinishRaises ==
  /\ pc \in {"captured", "finish"} /\ Fault /\ Goto("handler")
  /\ UNCHANGED <<store, leases, fresh, runners>>

\* The heartbeat or the claim of an idle round raises, or finish_job does inside
\* the handler itself: run_worker unwinds through its finally block and the
\* process ends, in the second case with the job still started.
LoopRaises ==
  /\ pc \in {"idle", "lastFinish"} /\ Fault
  /\ Release("down") /\ stopping' = FALSE
  /\ fresh' = fresh \cup {me}
  /\ UNCHANGED <<store, leases, runners>>

-----------------------------------------------------------------------------
Telegram == \E p \in Projects : Enqueue(p) \/ CancelQueued(p) \/ CancelStarted(p)

Recovery ==
  ReclaimOrphan \/ OrphansDone \/ RequeueAbandoned \/ FinaliseCancelled \/ Register

Execution ==
  \/ Claim \/ StopCheck \/ PreflightStopped \/ PreflightPassed \/ PreflightFailed
  \/ Spawn \/ RecordLease \/ WatchStopped \/ WatchExited \/ CloseLease
  \/ QualityRestart \/ Finish \/ Handler \/ Shutdown

Faults ==
  \/ SpawnRaises \/ LeaseRaises \/ WatchRaises
  \/ CloseLeaseRaises \/ FinishRaises \/ LoopRaises

Next ==
  \/ Telegram \/ StartWorker \/ Recovery \/ Execution \/ Faults
  \/ SignalStop \/ Crash
  \/ \E w \in fresh : HeartbeatExpires(w)
  \/ \E r \in live : RunnerExits(r)

Spec == Init /\ [][Next]_vars

\* A live worker keeps running its code, time passes for a dead worker's
\* heartbeat, and a runner ends.  Nobody has to start a worker: the bot does
\* when it starts, after it has delivered a terminal event, and on a command.
Fairness ==
  /\ WF_vars(Recovery \/ Execution)
  /\ WF_vars(\E w \in fresh : HeartbeatExpires(w))
  /\ WF_vars(\E r \in live : RunnerExits(r))

FairSpec == Spec /\ Fairness

\* The same, with somebody who always starts a worker when there is none.
RestartedSpec == FairSpec /\ WF_vars(StartWorker)
=============================================================================
