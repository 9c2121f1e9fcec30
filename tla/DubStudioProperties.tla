------------------------- MODULE DubStudioProperties -------------------------
(***************************************************************************)
(* What must hold of module DubStudio, and the invariant it follows from.  *)
(***************************************************************************)
EXTENDS DubStudio

\* A project never has two jobs in work: the recovery puts jobs back while the
\* Telegram process enqueues, and neither looks at what the other is doing.
OneActiveJobPerProject ==
  \A i, j \in JobIds :
    /\ status[i] \in Active /\ status[j] \in Active
    /\ project[i] = project[j]
    => i = j

\* A job that is over has exactly one terminal event, the one of its status,
\* and a job that is not over has none.  The only exception is a job that
\* recover_abandoned_jobs cancelled and has not stamped yet.
OneTerminalEvent ==
  \A j \in JobIds :
    /\ finishedAt[j] => status[j] \in Final /\ told[j] = <<status[j]>>
    /\ ~finishedAt[j] => told[j] = <<>>

\* No worker serves jobs while a recovered cancellation waits for its event:
\* a crash between the two transactions of the recovery is made good by the
\* next worker before it claims anything.
NoHalfCancelWhileServing ==
  pc \in ServingPC => HalfCancelled = {}

\* A runner somebody supervises works for a started job: a job is back in the
\* queue, or settled, only after its runner was seen dead or was killed.
RunnersServeStartedJobs ==
  \A r \in live \ lost : status[r.job] \in Started

\* "Only one heavy job at a time": while a worker serves, the only runners
\* beside its own are those whose supervision was lost to an exception in the
\* watch loop or to a crash between Popen and the lease.
OneSupervisedRunner ==
  pc \in ServingPC =>
    live \ lost \subseteq (IF pc \in {"lease", "watch"} THEN {runner} ELSE {})

\* record_execution_lease never has to refuse a lease.
LeaseNeverTaken == pc = "lease" => ~LeaseTaken

\* The project shows what its started job does, whatever the recovery, the
\* worker and the user wrote to the project row in between.
ProjectShowsStartedJob ==
  \A j \in JobIds :
    /\ status[j] = "running" => projStatus[project[j]] = "rendering"
    /\ status[j] = "cancel_requested" => projStatus[project[j]] = "cancelling"

-----------------------------------------------------------------------------
(* Conjuncts of the inductive invariant.                                   *)

\* Program counters at which the worker has a job, and those at which it has
\* decided how the job ends.
BusyPC    == ServingPC \ {"idle"}
DecidedPC == {"close", "captured", "finish", "lastFinish"}

\* The worker holds a job exactly while it executes one, and the outcome it is
\* about to store is a final status.
WorkerState ==
  /\ pc \in BusyPC <=> job # NoJob
  /\ pc \in DecidedPC => outcome \in Final

\* The rows of dub_jobs that do not exist yet are blank.
RowsBlankUntilInserted ==
  \A j \in JobIds :
    /\ status[j] = "none" => project[j] = NoProject /\ ~cancelFlag[j]
    /\ status[j] # "none" => project[j] \in Projects

\* cancel_requested is the flag and the status together, until the job is over.
CancelFlagged ==
  \A j \in JobIds :
    /\ status[j] = "cancel_requested" => cancelFlag[j]
    /\ status[j] \in {"none", "queued", "running"} => ~cancelFlag[j]

\* The worker's job is started: neither a user nor a recovery can end it.
WorkerJobStarted == job # NoJob => status[job] \in Started

\* A final job without finished_at is one a recovery cancelled.
OnlyCancelsAreHalfDone ==
  \A j \in JobIds : status[j] \in Final /\ ~finishedAt[j] => j \in HalfCancelled

\* While a recovered cancellation waits for its event, its project may be given
\* a new job, but nobody has started it.
HalfCancelledProjectIdle ==
  \A i, j \in JobIds :
    j \in HalfCancelled /\ project[i] = project[j] => status[i] \notin Started

\* From the end of the recovery to the end of the worker.
SettledPC == ServingPC \cup {"register"}

RecoveryDone == pc \in SettledPC => HalfCancelled = {}

JobsInv ==
  /\ RowsBlankUntilInserted /\ CancelFlagged /\ WorkerJobStarted
  /\ OneActiveJobPerProject /\ OneTerminalEvent
  /\ OnlyCancelsAreHalfDone /\ HalfCancelledProjectIdle /\ RecoveryDone
  /\ ProjectShowsStartedJob

\* The lease of a job names no live runner.
LeaseDead(j) == leaseState[j] = "running" => leaseRunner[j] \notin live

\* Program counters at which the worker's job has no live leased runner.
NoLeasePC == {"check", "preflight", "spawn", "lease", "close", "captured"}

\* Runner ids are handed out in order, as process ids with start tokens are.
RunnersNumbered ==
  /\ \A r \in live : r.id <= spawned
  /\ \A j \in JobIds : leaseRunner[j].id <= spawned
  /\ runner.id <= spawned
  /\ lost \subseteq live

\* The worker's own runner, between Popen and the end of the watch loop.
OwnRunner ==
  /\ pc \in {"lease", "watch"} => runner.job = job /\ runner \notin lost
  /\ pc = "watch" => leaseState[job] = "running" /\ leaseRunner[job] = runner

\* A supervised runner is the worker's own, or its lease is there for the next
\* worker to find.
Supervised ==
  \A r \in live \ lost :
    \/ pc = "lease" /\ r = runner
    \/ /\ pc \in {"down", "orphans", "watch"} /\ (pc = "watch" => r = runner)
       /\ leaseState[r.job] = "running" /\ leaseRunner[r.job] = r
       /\ status[r.job] \in Started

\* No live runner is left under the lease of a job that may be run again.
LeasesDead ==
  /\ pc \in {"requeue", "finalise", "register"} => LeasedRunning = {}
  /\ \A j \in JobIds : status[j] \in {"none", "queued"} => LeaseDead(j)
  /\ pc \in NoLeasePC => LeaseDead(job)

RunnersInv == RunnersNumbered /\ OwnRunner /\ Supervised /\ LeasesDead

-----------------------------------------------------------------------------
\* A verdict is never revised, and a cancellation once accepted is never
\* forgotten: the job is not queued or run again.
VerdictsAreFinal ==
  [][\A j \in JobIds :
       /\ status[j] \in Final => status'[j] = status[j]
       /\ cancelFlag[j] => cancelFlag'[j] /\ status'[j] \notin {"queued", "running"}]_vars

-----------------------------------------------------------------------------
\* What a living worker has before it: the jobs in the queue, the one it
\* executes, those of dead workers until its recovery has looked for them, and
\* the cancellations a recovery has left half done.
BeforeWorker(j) ==
  /\ pc # "down"
  /\ \/ status[j] = "queued"
     \/ j = job
     \/ status[j] \in Started /\ owner[j] \notin fresh /\ pc \in {"orphans", "requeue"}
     \/ j \in HalfCancelled

\* A worker settles what it has before it, or it ends: no job is skipped in the
\* queue, whatever its project shows, or lost between two restarts of its runner
\* or two transactions of a recovery.  It is not promised that a worker is
\* started again; and a job whose dead worker's heartbeat was still fresh in the
\* recovery is not before the worker any more (see AbandonedJobsReturn).
WorkerSettlesItsJobs ==
  []<>(\A j \in JobIds : BeforeWorker(j) => finishedAt[j])

\* "After a crash the stuck job returns to the queue" (or is settled), at the
\* latest when there is a worker again.
AbandonedJobsReturn ==
  \A j \in JobIds :
    (status[j] = "running" /\ pc = "down") ~> (status[j] # "running")

\* "Only one heavy VoxCPM2 job runs at a time."
OneHeavyJob == \A r, s \in live : r = s

-----------------------------------------------------------------------------
\* Dub Studio implements the lifecycle it promises.
Phase(s) ==
  CASE s = "none" -> "absent" [] s = "queued" -> "waiting" [] s = "running" -> "working"
    [] s = "cancel_requested" -> "stopping" [] OTHER -> s

Lifecycle == INSTANCE DubJobLifecycle WITH
  phase <- [j \in JobIds |-> Phase(status[j])], tenant <- project, verdicts <- told

\* What a project shows of its jobs.
TheOne(S) == IF S = {} THEN NoJob ELSE CHOOSE j \in S : TRUE

HalfCancelledOf(p) == {j \in HalfCancelled : project[j] = p}

ActiveProjectStatus == {"queued", "rendering", "cancelling"}

Shown(p) == INSTANCE DubProject WITH
  open <- TheOne(ActiveJobsOf(p)), half <- TheOne(HalfCancelledOf(p)),
  active <- projStatus[p] \in ActiveProjectStatus,
  told <- {j \in JobIds : project[j] = p /\ told[j] # <<>>}

\* To whoever reads its row, a project changes as DubProject says.
ImplementsProjects ==
  /\ \A p \in Projects : Shown(p)!Init
  /\ [][\A p \in Projects : [Shown(p)!Next]_(Shown(p)!aspects)]_vars

\* The jobs live as promised, and so each project shows them.
ImplementsLifecycle == Lifecycle!Spec /\ ImplementsProjects
=============================================================================
