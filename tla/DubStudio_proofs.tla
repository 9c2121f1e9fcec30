--------------------------- MODULE DubStudio_proofs ---------------------------
(***************************************************************************)
(* Theorems about DubStudio for every number of projects, jobs, crashes,   *)
(* faults, stops and quality restarts: its types and its jobs, verdicts,   *)
(* the runner processes, and the refinement of DubJobLifecycle and of      *)
(* DubProject.                                                             *)
(***************************************************************************)
EXTENDS DubStudioProperties, TLAPS

USE DEF NoJob, NoOwner

\* The typing of the state and of the worker's local variables together: the
\* outcome Finish stores has a type only because of where the worker is.
TypeInv == TypeOK /\ WorkerState

LEMMA InitTypes == Init => TypeInv
<1> SUFFICES ASSUME Init PROVE TypeInv
  OBVIOUS
<1> USE DEF Init
<1>1. told \in [JobIds -> Seq(Final)]
  <2>1. <<>> \in Seq(Final)
    OBVIOUS
  <2> QED
    BY <2>1
<1>2. leaseRunner \in [JobIds -> Runner \cup {NoRunner}] /\ runner \in Runner \cup {NoRunner}
  OBVIOUS
<1>3. attempt \in 0..QualityRetries /\ crashes \in 0..MaxCrashes
      /\ faults \in 0..MaxFaults /\ stops \in 0..MaxStops
  BY BoundAssumption
<1>4. WorkerState
  BY DEF WorkerState, BusyPC, DecidedPC, ServingPC
<1> QED
  BY <1>1, <1>2, <1>3, <1>4
  DEF TypeInv, TypeOK, ProjectStatus, LeaseState, PC

\* Enqueue and the two forms of request_cancel.
LEMMA TelegramTypes == TypeInv /\ Telegram => TypeInv'
<1> USE DEF TypeInv, TypeOK, WorkerState, worker, bounds, leases, runners
<1> SUFFICES ASSUME TypeInv, NEW p \in Projects,
                    Enqueue(p) \/ CancelQueued(p) \/ CancelStarted(p)
             PROVE  TypeInv'
  BY DEF Telegram
<1>1. CASE Enqueue(p)
  BY <1>1 DEF Enqueue, Active, ProjectStatus
<1>2. CASE CancelQueued(p)
  <2>1. PICK j \in JobIds : told' = [told EXCEPT ![j] = Append(@, "cancelled")]
    BY <1>2 DEF CancelQueued
  <2>2. Append(told[j], "cancelled") \in Seq(Final)
    BY DEF Final
  <2>3. told' \in [JobIds -> Seq(Final)]
    BY <2>1, <2>2
  <2> QED
    BY <1>2, <2>3 DEF CancelQueued, Active, Final, ProjectStatus
<1>3. CASE CancelStarted(p)
  BY <1>3 DEF CancelStarted, Active, ProjectStatus
<1> QED
  BY <1>1, <1>2, <1>3

\* The start of a worker, from the lock to register_worker.
LEMMA RecoveryTypes == TypeInv /\ (StartWorker \/ Recovery) => TypeInv'
<1> USE DEF TypeInv, TypeOK, WorkerState, BusyPC, DecidedPC, ServingPC, StartupPC, PC,
            worker, bounds, leases, runners, store
<1> SUFFICES ASSUME TypeInv, StartWorker \/ Recovery PROVE TypeInv'
  OBVIOUS
<1>1. CASE StartWorker
  BY <1>1 DEF StartWorker
<1>2. CASE ReclaimOrphan
  BY <1>2 DEF ReclaimOrphan, LeaseState
<1>3. CASE OrphansDone
  BY <1>3 DEF OrphansDone
<1>4. CASE RequeueAbandoned
  <2>1. \A j : RecoveredStatus(j) \in {"cancelled", "queued"}
    BY DEF RecoveredStatus
  <2>2. status' \in [JobIds -> {"none"} \cup Active \cup Final]
    BY <1>4, <2>1 DEF RequeueAbandoned, Active, Final
  <2>3. projStatus' \in [Projects -> ProjectStatus]
    BY <1>4, <2>1 DEF RequeueAbandoned, ProjectStatus
  <2> QED
    BY <1>4, <2>2, <2>3 DEF RequeueAbandoned
<1>5. CASE FinaliseCancelled
  <2>1. \A j \in JobIds : Append(told[j], "cancelled") \in Seq(Final)
    BY DEF Final
  <2>2. told' \in [JobIds -> Seq(Final)]
    BY <1>5, <2>1 DEF FinaliseCancelled
  <2>3. finishedAt' \in [JobIds -> BOOLEAN]
    BY <1>5 DEF FinaliseCancelled
  <2> QED
    BY <1>5, <2>2, <2>3 DEF FinaliseCancelled, ProjectStatus
<1>6. CASE Register
  BY <1>6 DEF Register
<1> QED
  BY <1>1, <1>2, <1>3, <1>4, <1>5, <1>6 DEF Recovery

\* One step of the execution of a job.
LEMMA ExecutionTypes == TypeInv /\ Execution => TypeInv'
<1> USE DEF TypeInv, TypeOK, WorkerState, BusyPC, DecidedPC, ServingPC, StartupPC, PC,
            worker, bounds, leases, runners, store, Goto, GotoWith, Untouched
<1> SUFFICES ASSUME TypeInv, Execution PROVE TypeInv'
  OBVIOUS
<1>1. CASE Claim
  <2>1. \A j \in JobIds : j # 0
    BY BoundAssumption DEF JobIds
  <2>2. PICK j \in JobIds :
          /\ status' = [status EXCEPT ![j] = "running"]
          /\ owner' = [owner EXCEPT ![j] = me]
          /\ projStatus' = [projStatus EXCEPT ![project[j]] = "rendering"]
          /\ job' = j
    BY <1>1 DEF Claim, Queued
  <2>3. projStatus' \in [Projects -> ProjectStatus]
    BY <2>2 DEF ProjectStatus
  <2>4. status' \in [JobIds -> {"none"} \cup Active \cup Final]
        /\ owner' \in [JobIds -> Nat]
    BY <2>2 DEF Active
  <2> QED
    BY <1>1, <2>1, <2>2, <2>3, <2>4 DEF Claim
<1>2. CASE StopCheck
  BY <1>2 DEF StopCheck, Final
<1>3. CASE PreflightStopped
  BY <1>3 DEF PreflightStopped, Final
<1>4. CASE PreflightPassed
  BY <1>4 DEF PreflightPassed
<1>5. CASE PreflightFailed
  BY <1>5 DEF PreflightFailed, Final
<1>6. CASE Spawn
  <2>1. job \in JobIds /\ spawned + 1 \in Nat
    BY <1>6 DEF Spawn
  <2>2. [id |-> spawned + 1, job |-> job] \in Runner
    BY <2>1 DEF Runner
  <2>3. runner' \in Runner /\ live' \in SUBSET Runner
    BY <1>6, <2>2 DEF Spawn
  <2> QED
    BY <1>6, <2>1, <2>3 DEF Spawn
<1>7. CASE RecordLease
  BY <1>7 DEF RecordLease, LeaseState
<1>8. CASE WatchStopped
  BY <1>8 DEF WatchStopped, Final
<1>9. CASE WatchExited
  BY <1>9 DEF WatchExited, Final
<1>10. CASE CloseLease
  <2>1. LeaseStateFor(outcome) \in LeaseState
    BY <1>10 DEF CloseLease, LeaseStateFor, LeaseState, Final
  <2> QED
    BY <1>10, <2>1 DEF CloseLease
<1>11. CASE QualityRestart
  BY <1>11, BoundAssumption DEF QualityRestart, Final
<1>12. CASE Finish
  <2>1. job \in JobIds /\ outcome \in Final
    BY <1>12 DEF Finish
  <2>2. told' \in [JobIds -> Seq(Final)]
    <3>1. Append(told[job], outcome) \in Seq(Final)
      BY <2>1
    <3> QED
      BY <1>12, <2>1, <3>1 DEF Finish, StoreOutcome
  <2>3. projStatus' \in [Projects -> ProjectStatus]
    BY <1>12, <2>1 DEF Finish, StoreOutcome, ProjectStatusFor, ProjectStatus, Final
  <2>4. status' \in [JobIds -> {"none"} \cup Active \cup Final]
        /\ finishedAt' \in [JobIds -> BOOLEAN]
    BY <1>12, <2>1 DEF Finish, StoreOutcome
  <2> QED
    BY <1>12, <2>2, <2>3, <2>4, BoundAssumption DEF Finish, StoreOutcome, Release
<1>13. CASE Handler
  BY <1>13 DEF Handler, LeaseState, Final
<1>14. CASE Shutdown
  BY <1>14 DEF Shutdown
<1> QED
  BY <1>1, <1>2, <1>3, <1>4, <1>5, <1>6, <1>7, <1>8, <1>9, <1>10, <1>11, <1>12, <1>13, <1>14
  DEF Execution

\* Exceptions, signals, crashes, the passing of time, and runners that end.
LEMMA DisturbanceTypes ==
  ASSUME TypeInv,
         \/ Faults \/ SignalStop \/ Crash
         \/ \E w \in fresh : HeartbeatExpires(w)
         \/ \E r \in live : RunnerExits(r)
  PROVE  TypeInv'
<1> USE BoundAssumption
    DEF TypeInv, TypeOK, WorkerState, BusyPC, DecidedPC, ServingPC, StartupPC, PC,
        worker, bounds, leases, runners, store, Goto, GotoWith, Fault, Release
<1>1. CASE SpawnRaises
  BY <1>1 DEF SpawnRaises
<1>2. CASE LeaseRaises
  BY <1>2 DEF LeaseRaises
<1>3. CASE WatchRaises
  BY <1>3 DEF WatchRaises
<1>4. CASE CloseLeaseRaises
  BY <1>4 DEF CloseLeaseRaises, Final
<1>5. CASE FinishRaises
  BY <1>5 DEF FinishRaises
<1>6. CASE LoopRaises
  <2>1. faults' \in 0..MaxFaults /\ attempt' \in 0..QualityRetries
    BY <1>6 DEF LoopRaises
  <2>2. fresh' \in SUBSET Nat
    BY <1>6 DEF LoopRaises
  <2> QED
    BY <1>6, <2>1, <2>2 DEF LoopRaises
<1>7. CASE SignalStop
  BY <1>7 DEF SignalStop
<1>8. CASE Crash
  <2>1. crashes' \in 0..MaxCrashes /\ attempt' \in 0..QualityRetries
    BY <1>8 DEF Crash
  <2>2. lost' \in SUBSET Runner
    BY <1>8 DEF Crash
  <2> QED
    BY <1>8, <2>1, <2>2 DEF Crash
<1>9. CASE \E w \in fresh : HeartbeatExpires(w)
  BY <1>9 DEF HeartbeatExpires
<1>10. CASE \E r \in live : RunnerExits(r)
  BY <1>10 DEF RunnerExits
<1> QED
  BY <1>1, <1>2, <1>3, <1>4, <1>5, <1>6, <1>7, <1>8, <1>9, <1>10 DEF Faults

\* Every reachable state has the types TypeOK states, and the worker holds a
\* job exactly while it executes one.
THEOREM Types == Spec => []TypeInv
<1>1. TypeInv /\ [Next]_vars => TypeInv'
  <2> SUFFICES ASSUME TypeInv, [Next]_vars PROVE TypeInv'
    OBVIOUS
  <2>1. CASE Telegram
    BY <2>1, TelegramTypes
  <2>2. CASE StartWorker \/ Recovery
    BY <2>2, RecoveryTypes
  <2>3. CASE Execution
    BY <2>3, ExecutionTypes
  <2>4. CASE \/ Faults \/ SignalStop \/ Crash
             \/ \E w \in fresh : HeartbeatExpires(w)
             \/ \E r \in live : RunnerExits(r)
    BY <2>4, DisturbanceTypes
  <2>5. CASE UNCHANGED vars
    BY <2>5 DEF TypeInv, TypeOK, WorkerState, vars, store, leases, runners, worker, bounds
  <2> QED
    BY <2>1, <2>2, <2>3, <2>4, <2>5 DEF Next
<1> QED
  BY InitTypes, <1>1, PTL DEF Spec

-----------------------------------------------------------------------------
(* The rows of dub_jobs and dub_projects.                                  *)

LEMMA InitJobs == Init => JobsInv
  BY DEF Init, JobsInv, RowsBlankUntilInserted, CancelFlagged, WorkerJobStarted,
         OneActiveJobPerProject, OneTerminalEvent, OnlyCancelsAreHalfDone,
         HalfCancelledProjectIdle, RecoveryDone, ProjectShowsStartedJob, HalfCancelled,
         Active, Started, Final, SettledPC, ServingPC

\* A step that writes no row keeps the invariant, as long as it does not enter
\* the part of the worker's code that relies on the recovery being done.
LEMMA StoreUnchanged ==
  ASSUME JobsInv, UNCHANGED store, job' \in {job, NoJob},
         pc' \in SettledPC => pc \in SettledPC
  PROVE  JobsInv'
  BY DEF store, JobsInv, RowsBlankUntilInserted, CancelFlagged, WorkerJobStarted,
         OneActiveJobPerProject, OneTerminalEvent, OnlyCancelsAreHalfDone,
         HalfCancelledProjectIdle, RecoveryDone, ProjectShowsStartedJob, HalfCancelled

\* enqueue_job relies on its own look at the project's active jobs.
LEMMA EnqueueJobs == ASSUME TypeInv, JobsInv, NEW p \in Projects, Enqueue(p) PROVE JobsInv'
<1> USE ProjectAssumption DEF Active, Started, Final
<1>1. PICK n \in JobIds :
        /\ status[n] = "none"
        /\ status' = [status EXCEPT ![n] = "queued"]
        /\ project' = [project EXCEPT ![n] = p]
  BY DEF Enqueue
<1>2. \A i \in JobIds : project[i] = p => status[i] \notin Active
  BY DEF Enqueue, ActiveJobsOf
<1>3. /\ projStatus' = [projStatus EXCEPT ![p] = "queued"]
      /\ UNCHANGED <<cancelFlag, finishedAt, told, pc, job>>
  BY DEF Enqueue, worker
<1>4. HalfCancelled' = HalfCancelled
  BY <1>1, <1>3 DEF HalfCancelled, TypeInv, TypeOK
<1>5. RowsBlankUntilInserted' /\ CancelFlagged' /\ WorkerJobStarted'
  BY <1>1, <1>3
  DEF JobsInv, RowsBlankUntilInserted, CancelFlagged, WorkerJobStarted, TypeInv, TypeOK
<1>6. OneActiveJobPerProject'
  BY <1>1, <1>2 DEF JobsInv, OneActiveJobPerProject, TypeInv, TypeOK
<1>7. OneTerminalEvent' /\ OnlyCancelsAreHalfDone' /\ RecoveryDone'
  BY <1>1, <1>3, <1>4
  DEF JobsInv, OneTerminalEvent, OnlyCancelsAreHalfDone, RecoveryDone, TypeInv, TypeOK
<1>8. HalfCancelledProjectIdle'
  BY <1>1, <1>3, <1>4
  DEF JobsInv, HalfCancelledProjectIdle, HalfCancelled, TypeInv, TypeOK
<1>9. ProjectShowsStartedJob'
  BY <1>1, <1>2, <1>3
  DEF JobsInv, ProjectShowsStartedJob, RowsBlankUntilInserted, TypeInv, TypeOK
<1> QED
  BY <1>5, <1>6, <1>7, <1>8, <1>9 DEF JobsInv

\* request_cancel of a queued job ends it: one stamp, one event.
LEMMA CancelQueuedJobs ==
  ASSUME TypeInv, JobsInv, NEW p \in Projects, CancelQueued(p) PROVE JobsInv'
<1> USE DEF Active, Started, Final
<1>1. PICK c \in JobIds :
        /\ project[c] = p /\ status[c] = "queued"
        /\ status' = [status EXCEPT ![c] = "cancelled"]
        /\ cancelFlag' = [cancelFlag EXCEPT ![c] = TRUE]
        /\ finishedAt' = [finishedAt EXCEPT ![c] = TRUE]
        /\ told' = [told EXCEPT ![c] = Append(@, "cancelled")]
        /\ projStatus' = [projStatus EXCEPT ![p] = "cancelled"]
        /\ UNCHANGED <<project, pc, job>>
  BY DEF CancelQueued, Cancellable, ActiveJobsOf, worker
<1>2. told'[c] = <<"cancelled">>
  <2>1. told[c] = <<>>
    BY <1>1 DEF JobsInv, OneTerminalEvent
  <2> QED
    BY <1>1, <2>1 DEF TypeInv, TypeOK
<1>3. HalfCancelled' = HalfCancelled
  BY <1>1 DEF HalfCancelled, TypeInv, TypeOK
<1>4. RowsBlankUntilInserted' /\ CancelFlagged' /\ WorkerJobStarted'
  BY <1>1
  DEF JobsInv, RowsBlankUntilInserted, CancelFlagged, WorkerJobStarted, TypeInv, TypeOK
<1>5. OneActiveJobPerProject'
  BY <1>1 DEF JobsInv, OneActiveJobPerProject, TypeInv, TypeOK
<1>6. OneTerminalEvent'
  BY <1>1, <1>2 DEF JobsInv, OneTerminalEvent, TypeInv, TypeOK
<1>7. OnlyCancelsAreHalfDone' /\ RecoveryDone' /\ HalfCancelledProjectIdle'
  BY <1>1, <1>3
  DEF JobsInv, OnlyCancelsAreHalfDone, RecoveryDone, HalfCancelledProjectIdle, TypeInv, TypeOK
<1>8. ProjectShowsStartedJob'
  BY <1>1
  DEF JobsInv, ProjectShowsStartedJob, OneActiveJobPerProject, RowsBlankUntilInserted,
      TypeInv, TypeOK
<1> QED
  BY <1>4, <1>5, <1>6, <1>7, <1>8 DEF JobsInv

\* request_cancel of a started job only asks.
LEMMA CancelStartedJobs ==
  ASSUME TypeInv, JobsInv, NEW p \in Projects, CancelStarted(p) PROVE JobsInv'
<1> USE DEF Active, Started, Final
<1>1. PICK c \in JobIds :
        /\ project[c] = p /\ status[c] \in Started
        /\ status' = [status EXCEPT ![c] = "cancel_requested"]
        /\ cancelFlag' = [cancelFlag EXCEPT ![c] = TRUE]
        /\ projStatus' = [projStatus EXCEPT ![p] = "cancelling"]
        /\ UNCHANGED <<project, finishedAt, told, pc, job>>
  BY DEF CancelStarted, Cancellable, ActiveJobsOf, worker
<1>2. HalfCancelled' = HalfCancelled
  BY <1>1 DEF HalfCancelled, TypeInv, TypeOK
<1>3. RowsBlankUntilInserted' /\ CancelFlagged' /\ WorkerJobStarted'
  BY <1>1
  DEF JobsInv, RowsBlankUntilInserted, CancelFlagged, WorkerJobStarted, TypeInv, TypeOK
<1>4. OneActiveJobPerProject' /\ OneTerminalEvent'
  BY <1>1 DEF JobsInv, OneActiveJobPerProject, OneTerminalEvent, TypeInv, TypeOK
<1>5. OnlyCancelsAreHalfDone' /\ RecoveryDone' /\ HalfCancelledProjectIdle'
  BY <1>1, <1>2
  DEF JobsInv, OnlyCancelsAreHalfDone, RecoveryDone, HalfCancelledProjectIdle, TypeInv, TypeOK
<1>6. ProjectShowsStartedJob'
  BY <1>1
  DEF JobsInv, ProjectShowsStartedJob, OneActiveJobPerProject, RowsBlankUntilInserted,
      TypeInv, TypeOK
<1> QED
  BY <1>3, <1>4, <1>5, <1>6 DEF JobsInv

\* The first transaction of the recovery.  The worker has no job yet, and a
\* requeued job was the only active one of its project.
LEMMA RequeueJobs == ASSUME TypeInv, JobsInv, RequeueAbandoned PROVE JobsInv'
<1> USE DEF Active, Started, Final
<1>1. /\ pc = "requeue" /\ pc' = "finalise" /\ job' = NoJob
      /\ UNCHANGED <<project, cancelFlag, finishedAt, told>>
  BY DEF RequeueAbandoned, TypeInv, WorkerState, BusyPC, ServingPC
<1>2. \A j \in JobIds :
        status'[j] = IF j \in Abandoned THEN RecoveredStatus(j) ELSE status[j]
  BY DEF RequeueAbandoned
<1>3. \A j \in Abandoned : /\ j \in JobIds /\ status[j] \in Started /\ ~finishedAt[j]
                           /\ RecoveredStatus(j) = IF cancelFlag[j] THEN "cancelled" ELSE "queued"
  BY DEF Abandoned, RecoveredStatus, JobsInv, CancelFlagged, OneTerminalEvent
<1>4. RowsBlankUntilInserted' /\ CancelFlagged' /\ WorkerJobStarted'
  BY <1>1, <1>2, <1>3
  DEF JobsInv, RowsBlankUntilInserted, CancelFlagged, WorkerJobStarted
<1>5. OneActiveJobPerProject'
  <2>1. \A j \in JobIds : status'[j] \in Active => status[j] \in Active
    BY <1>2, <1>3
  <2> QED
    BY <1>1, <2>1 DEF JobsInv, OneActiveJobPerProject
<1>6. OneTerminalEvent'
  BY <1>1, <1>2, <1>3 DEF JobsInv, OneTerminalEvent
<1>7. OnlyCancelsAreHalfDone'
  BY <1>1, <1>2, <1>3 DEF JobsInv, OnlyCancelsAreHalfDone, HalfCancelled
<1>8. HalfCancelledProjectIdle'
  <2> SUFFICES ASSUME NEW i \in JobIds, NEW j \in JobIds, j \in HalfCancelled',
                      project'[i] = project'[j], status'[i] \in Started
               PROVE  FALSE
    BY DEF HalfCancelledProjectIdle
  <2>1. i \notin Abandoned /\ status[i] \in Started
    BY <1>2, <1>3
  <2>2. CASE j \in Abandoned
    BY <1>1, <1>3, <2>1, <2>2 DEF JobsInv, OneActiveJobPerProject
  <2>3. CASE j \notin Abandoned
    BY <1>1, <1>2, <2>1, <2>3 DEF JobsInv, HalfCancelledProjectIdle, HalfCancelled
  <2> QED
    BY <2>2, <2>3
<1>9. RecoveryDone'
  BY <1>1 DEF RecoveryDone, SettledPC, ServingPC
<1>10. ProjectShowsStartedJob'
  <2> SUFFICES ASSUME NEW j \in JobIds, status'[j] \in Started
               PROVE  status'[j] = status[j] /\ projStatus'[project'[j]] = projStatus[project[j]]
    BY DEF JobsInv, ProjectShowsStartedJob
  <2>1. j \notin Abandoned /\ status'[j] = status[j]
    BY <1>2, <1>3
  <2>2. project[j] \in Projects
    BY <2>1 DEF JobsInv, RowsBlankUntilInserted
  <2>3. \A i \in Abandoned : project[i] # project[j]
    BY <1>3, <2>1 DEF JobsInv, OneActiveJobPerProject
  <2> QED
    BY <1>1, <2>1, <2>2, <2>3 DEF RequeueAbandoned
<1> QED
  BY <1>4, <1>5, <1>6, <1>7, <1>8, <1>9, <1>10 DEF JobsInv

\* The second transaction: afterwards no cancellation is half done.
LEMMA FinaliseJobs == ASSUME TypeInv, JobsInv, FinaliseCancelled PROVE JobsInv'
<1> USE DEF Active, Started, Final
<1>1. /\ pc' = "register" /\ job' = NoJob /\ UNCHANGED <<status, project, cancelFlag>>
      /\ \A j \in JobIds : finishedAt'[j] <=> finishedAt[j] \/ j \in HalfCancelled
  BY DEF FinaliseCancelled, TypeInv, WorkerState, BusyPC, ServingPC
<1>2. HalfCancelled' = {}
  BY <1>1 DEF HalfCancelled
<1>3. \A j \in HalfCancelled : told[j] = <<>> /\ told'[j] = <<"cancelled">>
  <2> TAKE j \in HalfCancelled
  <2>1. j \in JobIds /\ told[j] = <<>>
    BY DEF HalfCancelled, JobsInv, OneTerminalEvent
  <2>2. \A k \in 1..Len(told[j]) : told[j][k] # "cancelled"
    BY <2>1
  <2>3. told'[j] = Append(told[j], "cancelled")
    BY <2>1, <2>2 DEF FinaliseCancelled
  <2> QED
    BY <2>1, <2>3
<1>4. \A j \in JobIds : j \notin HalfCancelled => told'[j] = told[j]
  BY DEF FinaliseCancelled
<1>5. RowsBlankUntilInserted' /\ CancelFlagged' /\ WorkerJobStarted' /\ OneActiveJobPerProject'
  BY <1>1
  DEF JobsInv, RowsBlankUntilInserted, CancelFlagged, WorkerJobStarted, OneActiveJobPerProject
<1>6. OneTerminalEvent'
  BY <1>1, <1>3, <1>4 DEF JobsInv, OneTerminalEvent, HalfCancelled
<1>7. OnlyCancelsAreHalfDone'
  BY <1>1 DEF JobsInv, OnlyCancelsAreHalfDone
<1>8. HalfCancelledProjectIdle' /\ RecoveryDone'
  BY <1>2 DEF HalfCancelledProjectIdle, RecoveryDone
<1>9. ProjectShowsStartedJob'
  <2> SUFFICES ASSUME NEW j \in JobIds, status[j] \in Started
               PROVE  projStatus'[project[j]] = projStatus[project[j]]
    BY <1>1 DEF JobsInv, ProjectShowsStartedJob
  <2>1. project[j] \in Projects
    BY DEF JobsInv, RowsBlankUntilInserted
  <2>2. \A i \in HalfCancelled : project[i] # project[j]
    BY DEF JobsInv, HalfCancelledProjectIdle, HalfCancelled
  <2> QED
    BY <2>1, <2>2 DEF FinaliseCancelled
<1> QED
  BY <1>5, <1>6, <1>7, <1>8, <1>9 DEF JobsInv

\* A claim happens only in the serving part, where no cancellation is half done.
LEMMA ClaimJobs == ASSUME TypeInv, JobsInv, Claim PROVE JobsInv'
<1> USE DEF Active, Started, Final
<1>1. PICK c \in JobIds :
        /\ status[c] = "queued" /\ job' = c
        /\ status' = [status EXCEPT ![c] = "running"]
        /\ projStatus' = [projStatus EXCEPT ![project[c]] = "rendering"]
        /\ UNCHANGED <<project, cancelFlag, finishedAt, told>>
  BY DEF Claim, Queued
<1>2. HalfCancelled = {} /\ HalfCancelled' = {}
  <2>1. HalfCancelled = {}
    BY DEF Claim, JobsInv, RecoveryDone, SettledPC, ServingPC
  <2> QED
    BY <1>1, <2>1 DEF HalfCancelled, TypeInv, TypeOK
<1>3. RowsBlankUntilInserted' /\ CancelFlagged' /\ WorkerJobStarted'
  BY <1>1
  DEF JobsInv, RowsBlankUntilInserted, CancelFlagged, WorkerJobStarted, TypeInv, TypeOK
<1>4. OneActiveJobPerProject' /\ OneTerminalEvent'
  BY <1>1 DEF JobsInv, OneActiveJobPerProject, OneTerminalEvent, TypeInv, TypeOK
<1>5. OnlyCancelsAreHalfDone' /\ RecoveryDone' /\ HalfCancelledProjectIdle'
  BY <1>1, <1>2
  DEF JobsInv, OnlyCancelsAreHalfDone, RecoveryDone, HalfCancelledProjectIdle, TypeInv, TypeOK
<1>6. ProjectShowsStartedJob'
  BY <1>1
  DEF JobsInv, ProjectShowsStartedJob, OneActiveJobPerProject, RowsBlankUntilInserted,
      TypeInv, TypeOK
<1> QED
  BY <1>3, <1>4, <1>5, <1>6 DEF JobsInv

\* finish_job finds its job started, so the guard of WorkerDubStore.finish_job
\* never turns it away, and its event is the first one.
LEMMA FinishJobs == ASSUME TypeInv, JobsInv, Finish PROVE JobsInv'
<1> USE DEF Active, Started, Final
<1>1. job \in JobIds /\ status[job] \in Started /\ outcome \in Final /\ pc' = "idle" /\ job' = NoJob
  BY DEF Finish, Release, TypeInv, TypeOK, WorkerState, BusyPC, ServingPC, DecidedPC,
         JobsInv, WorkerJobStarted
<1>2. /\ status' = [status EXCEPT ![job] = outcome]
      /\ finishedAt' = [finishedAt EXCEPT ![job] = TRUE]
      /\ told' = [told EXCEPT ![job] = Append(@, outcome)]
      /\ projStatus' = [projStatus EXCEPT ![project[job]] = ProjectStatusFor(outcome)]
      /\ UNCHANGED <<project, cancelFlag>>
  BY <1>1 DEF Finish, StoreOutcome
<1>3. told'[job] = <<outcome>>
  <2>1. told[job] = <<>>
    BY <1>1 DEF JobsInv, OneTerminalEvent
  <2> QED
    BY <1>1, <1>2, <2>1 DEF TypeInv, TypeOK
<1>4. HalfCancelled = {} /\ HalfCancelled' = {}
  <2>1. HalfCancelled = {}
    BY DEF Finish, JobsInv, RecoveryDone, SettledPC, ServingPC
  <2> QED
    BY <1>1, <1>2, <2>1 DEF HalfCancelled, TypeInv, TypeOK
<1>5. RowsBlankUntilInserted' /\ CancelFlagged' /\ WorkerJobStarted'
  BY <1>1, <1>2
  DEF JobsInv, RowsBlankUntilInserted, CancelFlagged, WorkerJobStarted, TypeInv, TypeOK
<1>6. OneActiveJobPerProject'
  BY <1>1, <1>2 DEF JobsInv, OneActiveJobPerProject, TypeInv, TypeOK
<1>7. OneTerminalEvent'
  BY <1>1, <1>2, <1>3 DEF JobsInv, OneTerminalEvent, TypeInv, TypeOK
<1>8. OnlyCancelsAreHalfDone' /\ RecoveryDone' /\ HalfCancelledProjectIdle'
  BY <1>1, <1>2, <1>4
  DEF JobsInv, OnlyCancelsAreHalfDone, RecoveryDone, HalfCancelledProjectIdle, TypeInv, TypeOK
<1>9. ProjectShowsStartedJob'
  BY <1>1, <1>2
  DEF JobsInv, ProjectShowsStartedJob, OneActiveJobPerProject, RowsBlankUntilInserted,
      TypeInv, TypeOK
<1> QED
  BY <1>5, <1>6, <1>7, <1>8, <1>9 DEF JobsInv

\* The steps that write neither dub_jobs nor dub_projects.
Quiet ==
  \/ StartWorker \/ ReclaimOrphan \/ OrphansDone \/ Register
  \/ StopCheck \/ PreflightStopped \/ PreflightPassed \/ PreflightFailed
  \/ Spawn \/ RecordLease \/ WatchStopped \/ WatchExited \/ CloseLease
  \/ QualityRestart \/ Handler \/ Shutdown
  \/ Faults \/ SignalStop \/ Crash
  \/ \E w \in fresh : HeartbeatExpires(w)
  \/ \E r \in live : RunnerExits(r)

\* The steps that do.
Writing == Telegram \/ RequeueAbandoned \/ FinaliseCancelled \/ Claim \/ Finish

LEMMA NextSplit == Next <=> Quiet \/ Writing
  BY DEF Next, Quiet, Writing, Recovery, Execution

LEMMA QuietStore ==
  Quiet => UNCHANGED store /\ job' \in {job, NoJob} /\ (pc' \in SettledPC => pc \in SettledPC)
  BY DEF Quiet, StartWorker, ReclaimOrphan, OrphansDone, Register, StopCheck, PreflightStopped,
         PreflightPassed, PreflightFailed, Spawn, RecordLease, WatchStopped, WatchExited,
         CloseLease, QualityRestart, Handler, Shutdown, Faults, SignalStop, Crash,
         SpawnRaises, LeaseRaises, WatchRaises, CloseLeaseRaises, FinishRaises, LoopRaises,
         HeartbeatExpires, RunnerExits, Goto, GotoWith, Untouched, Release, worker,
         SettledPC, ServingPC

LEMMA JobsStep == TypeInv /\ JobsInv /\ [Next]_vars => JobsInv'
<1> SUFFICES ASSUME TypeInv, JobsInv, [Next]_vars PROVE JobsInv'
  OBVIOUS
<1>1. CASE Telegram
  BY <1>1, EnqueueJobs, CancelQueuedJobs, CancelStartedJobs DEF Telegram
<1>2. CASE RequeueAbandoned \/ FinaliseCancelled \/ Claim \/ Finish
  BY <1>2, RequeueJobs, FinaliseJobs, ClaimJobs, FinishJobs
<1>3. CASE Quiet
  BY <1>3, QuietStore, StoreUnchanged
<1>4. CASE UNCHANGED vars
  BY <1>4, StoreUnchanged DEF vars, worker
<1> QED
  BY <1>1, <1>2, <1>3, <1>4, NextSplit DEF Writing

\* The inductive invariant of the job table.
THEOREM Jobs == Spec => [](TypeInv /\ JobsInv)
<1>1. TypeInv /\ JobsInv /\ [Next]_vars => JobsInv'
  BY JobsStep
<1> QED
  BY Types, InitJobs, <1>1, PTL DEF Spec

\* The typing of every reachable state.
THEOREM TypeCorrect == Spec => []TypeOK
<1>1. TypeInv => TypeOK
  BY DEF TypeInv
<1> QED
  BY Types, <1>1, PTL

\* A project never has two jobs in work.
THEOREM OneActiveJob == Spec => []OneActiveJobPerProject
<1>1. JobsInv => OneActiveJobPerProject
  BY DEF JobsInv
<1> QED
  BY Jobs, <1>1, PTL

\* A job that is over is announced exactly once, with its own status.
THEOREM AnnouncedOnce == Spec => []OneTerminalEvent
<1>1. JobsInv => OneTerminalEvent
  BY DEF JobsInv
<1> QED
  BY Jobs, <1>1, PTL

\* A crash in the middle of the recovery is made good before the next claim.
THEOREM RecoveryIsFinished == Spec => []NoHalfCancelWhileServing
<1>1. JobsInv => NoHalfCancelWhileServing
  BY DEF JobsInv, RecoveryDone, NoHalfCancelWhileServing, SettledPC
<1> QED
  BY Jobs, <1>1, PTL

\* The project row shows what its started job does.
THEOREM ProjectShows == Spec => []ProjectShowsStartedJob
<1>1. JobsInv => ProjectShowsStartedJob
  BY DEF JobsInv
<1> QED
  BY Jobs, <1>1, PTL

-----------------------------------------------------------------------------
(* Verdicts.                                                               *)

\* What VerdictsAreFinal asks of one step.
VerdictKept ==
  \A j \in JobIds :
    /\ status[j] \in Final => status'[j] = status[j]
    /\ cancelFlag[j] => cancelFlag'[j] /\ status'[j] \notin {"queued", "running"}

LEMMA VerdictStep == TypeInv /\ JobsInv /\ [Next]_vars => VerdictKept
<1> SUFFICES ASSUME TypeInv, JobsInv, [Next]_vars PROVE VerdictKept
  OBVIOUS
<1> USE DEF Active, Started, Final, VerdictKept, TypeInv, TypeOK
<1>0. CASE UNCHANGED <<status, cancelFlag>>
  BY <1>0 DEF JobsInv, CancelFlagged
<1>1. CASE Telegram
  <2>1. CASE \E p \in Projects : Enqueue(p)
    BY <2>1 DEF Enqueue, JobsInv, CancelFlagged
  <2>2. CASE \E p \in Projects : CancelQueued(p)
    BY <2>2 DEF CancelQueued, Cancellable, ActiveJobsOf, JobsInv, CancelFlagged
  <2>3. CASE \E p \in Projects : CancelStarted(p)
    BY <2>3 DEF CancelStarted, Cancellable, ActiveJobsOf, JobsInv, CancelFlagged
  <2> QED
    BY <1>1, <2>1, <2>2, <2>3 DEF Telegram
<1>2. CASE RequeueAbandoned
  BY <1>2 DEF RequeueAbandoned, Abandoned, RecoveredStatus, JobsInv, CancelFlagged
<1>3. CASE FinaliseCancelled
  BY <1>0, <1>3 DEF FinaliseCancelled
<1>4. CASE Claim
  BY <1>4 DEF Claim, Queued, JobsInv, CancelFlagged
<1>5. CASE Finish
  <2>1. job \in JobIds /\ status[job] \in Started /\ outcome \in Final
    BY <1>5 DEF Finish, WorkerState, BusyPC, ServingPC, DecidedPC, JobsInv, WorkerJobStarted
  <2> QED
    BY <1>5, <2>1 DEF Finish, StoreOutcome, JobsInv, CancelFlagged
<1>6. CASE Quiet
  BY <1>0, <1>6, QuietStore DEF store
<1>7. CASE UNCHANGED vars
  BY <1>0, <1>7 DEF vars, store
<1> QED
  BY <1>1, <1>2, <1>3, <1>4, <1>5, <1>6, <1>7, NextSplit DEF Writing

\* A verdict is never revised, and an accepted cancellation is never undone by
\* a recovery or a claim.
THEOREM VerdictsStay == Spec => VerdictsAreFinal
<1>1. TypeInv /\ JobsInv /\ [Next]_vars => [VerdictKept]_vars
  BY VerdictStep
<1>2. [][VerdictKept]_vars <=> VerdictsAreFinal
  BY DEF VerdictKept, VerdictsAreFinal
<1> QED
  BY Jobs, <1>1, <1>2, PTL DEF Spec

-----------------------------------------------------------------------------
(* The runner processes: which of them may be alive, and for which jobs.   *)

LEMMA InitRunners == Init => RunnersInv
  BY BoundAssumption
  DEF Init, RunnersInv, RunnersNumbered, OwnRunner, Supervised, LeasesDead, LeaseDead,
      NoRunner, NoLeasePC, LeasedRunning

\* Runner, lease and job table as the Telegram process leaves them: it writes
\* rows only, never turns a started job into anything but cancel_requested, and
\* queues only a row that did not exist.
LEMMA TelegramRunners == TypeInv /\ RunnersInv /\ Telegram => RunnersInv'
<1> SUFFICES ASSUME TypeInv, RunnersInv, Telegram PROVE RunnersInv'
  OBVIOUS
<1>1. UNCHANGED <<leases, runners, worker>>
  BY DEF Telegram, Enqueue, CancelQueued, CancelStarted
<1>2. \A j \in JobIds :
        /\ status[j] \in Started => status'[j] \in Started
        /\ status'[j] \in {"none", "queued"} => status[j] \in {"none", "queued"}
  BY DEF Telegram, Enqueue, CancelQueued, CancelStarted, Cancellable, ActiveJobsOf,
         Active, Started, TypeInv, TypeOK
<1>3. RunnersNumbered' /\ OwnRunner' /\ LeasesDead'
  BY <1>1, <1>2
  DEF RunnersInv, RunnersNumbered, OwnRunner, LeasesDead, LeaseDead, LeasedRunning,
      leases, runners, worker
<1>4. Supervised'
  <2>1. \A r \in live : r.job \in JobIds
    BY DEF TypeInv, TypeOK, Runner
  <2> QED
    BY <1>1, <1>2, <2>1 DEF RunnersInv, Supervised, leases, runners, worker
<1> QED
  BY <1>3, <1>4 DEF RunnersInv

\* A worker that starts kills every leased runner before it requeues anything.
LEMMA RecoveryRunners == TypeInv /\ JobsInv /\ RunnersInv /\ (StartWorker \/ Recovery) => RunnersInv'
<1> SUFFICES ASSUME TypeInv, JobsInv, RunnersInv, StartWorker \/ Recovery PROVE RunnersInv'
  OBVIOUS
<1>0. \A r \in live : r.job \in JobIds
  BY DEF TypeInv, TypeOK, Runner
<1> USE DEF RunnersInv, RunnersNumbered, OwnRunner, Supervised, LeasesDead, LeaseDead,
            NoLeasePC, LeasedRunning
<1>1. CASE StartWorker
  BY <1>1 DEF StartWorker, store, leases, runners
<1>2. CASE ReclaimOrphan
  <2>1. PICK j \in LeasedRunning :
          /\ leaseState' = [leaseState EXCEPT ![j] =
                              IF leaseRunner[j] \in live THEN "terminated" ELSE "stale"]
          /\ live' = live \ {leaseRunner[j]} /\ lost' = lost \ {leaseRunner[j]}
          /\ pc = "orphans"
          /\ UNCHANGED <<store, leaseRunner, spawned, worker>>
    BY <1>2 DEF ReclaimOrphan
  <2>2. Supervised'
    <3> SUFFICES ASSUME NEW r \in live' \ lost'
                 PROVE  /\ leaseState'[r.job] = "running" /\ leaseRunner'[r.job] = r
                        /\ status'[r.job] \in Started
      BY <2>1 DEF worker
    <3>1. r \in live \ lost /\ r # leaseRunner[j] /\ r.job \in JobIds
      BY <1>0, <2>1
    <3>2. leaseRunner[r.job] = r /\ leaseState[r.job] = "running" /\ status[r.job] \in Started
      BY <2>1, <3>1
    <3>3. r.job # j
      BY <3>1, <3>2
    <3> QED
      BY <2>1, <3>1, <3>2, <3>3 DEF store, TypeInv, TypeOK
  <2>3. LeasesDead'
    BY <2>1 DEF TypeInv, TypeOK, store, worker
  <2>4. RunnersNumbered' /\ OwnRunner'
    BY <2>1 DEF worker
  <2> QED
    BY <2>2, <2>3, <2>4
<1>3. CASE OrphansDone
  BY <1>0, <1>3 DEF OrphansDone, store, leases, runners
<1>4. CASE RequeueAbandoned
  BY <1>0, <1>4 DEF RequeueAbandoned, leases, runners
<1>5. CASE FinaliseCancelled
  BY <1>0, <1>5 DEF FinaliseCancelled, leases, runners
<1>6. CASE Register
  BY <1>0, <1>6 DEF Register, store, leases, runners
<1> QED
  BY <1>1, <1>2, <1>3, <1>4, <1>5, <1>6 DEF Recovery

\* One step of the execution of a job.  Steps that end the watch kill the
\* runner or find it dead; Finish and Handler come after that.
LEMMA ExecutionRunners == TypeInv /\ JobsInv /\ RunnersInv /\ Execution => RunnersInv'
<1> SUFFICES ASSUME TypeInv, JobsInv, RunnersInv, Execution PROVE RunnersInv'
  OBVIOUS
<1>0. \A r \in live : r.job \in JobIds
  BY DEF TypeInv, TypeOK, Runner
<1>a. pc \in BusyPC => job \in JobIds /\ status[job] \in Started
  BY DEF TypeInv, TypeOK, WorkerState, JobsInv, WorkerJobStarted
<1>b. \A j \in JobIds : status[j] \notin Started \/ status[j] \notin {"none", "queued"}
  BY DEF Started
<1> USE DEF RunnersInv, RunnersNumbered, OwnRunner, Supervised, LeasesDead, LeaseDead,
            NoLeasePC, LeasedRunning, BusyPC, ServingPC
<1>1. CASE Claim
  <2>1. PICK j \in JobIds :
          /\ status[j] = "queued" /\ status' = [status EXCEPT ![j] = "running"] /\ job' = j
          /\ pc = "idle" /\ pc' = "check" /\ UNCHANGED <<leases, runners, runner>>
    BY <1>1 DEF Claim, Queued
  <2> QED
    BY <1>0, <2>1 DEF leases, runners, TypeInv, TypeOK
<1>2. CASE StopCheck
  BY <1>0, <1>2 DEF StopCheck, Goto, GotoWith, Untouched, store, leases, runners
<1>3. CASE PreflightStopped \/ PreflightPassed \/ PreflightFailed
  BY <1>0, <1>3
  DEF PreflightStopped, PreflightPassed, PreflightFailed, Goto, GotoWith, Untouched,
      store, leases, runners
<1>4. CASE Spawn
  <2>1. /\ pc = "spawn" /\ pc' = "lease" /\ job' = job /\ spawned' = spawned + 1
        /\ runner' = [id |-> spawned + 1, job |-> job] /\ live' = live \cup {runner'}
        /\ UNCHANGED <<store, leases, lost>>
    BY <1>4 DEF Spawn
  <2>2. spawned \in Nat /\ lost \subseteq live
        /\ \A r \in live : r.id \in Nat /\ r.id <= spawned
    BY DEF TypeInv, TypeOK, Runner
  <2>3. \A j \in JobIds : leaseRunner[j].id \in Nat /\ leaseRunner[j].id <= spawned
    BY DEF TypeInv, TypeOK, Runner, NoRunner
  <2>4. runner'.id = spawned + 1 /\ runner'.job = job
    BY <2>1
  <2>5. runner' \notin live /\ \A j \in JobIds : leaseRunner[j] # runner'
    BY <2>2, <2>3, <2>4
  <2>6. RunnersNumbered'
    BY <2>1, <2>2, <2>3, <2>4 DEF leases
  <2>7. OwnRunner' /\ Supervised'
    BY <2>1, <2>2, <2>4, <2>5
  <2>8. LeasesDead'
    BY <1>a, <2>1, <2>5 DEF leases, store
  <2> QED
    BY <2>6, <2>7, <2>8
<1>5. CASE RecordLease
  <2>1. ~LeaseTaken
    BY <1>5 DEF RecordLease, LeaseTaken
  <2>2. /\ pc = "lease" /\ pc' = "watch"
        /\ leaseState' = [leaseState EXCEPT ![job] = "running"]
        /\ leaseRunner' = [leaseRunner EXCEPT ![job] = runner]
        /\ UNCHANGED <<store, live, lost, spawned, job, runner>>
    BY <1>5, <2>1 DEF RecordLease, Goto
  <2>3. job \in JobIds /\ status[job] \in Started /\ runner.job = job
    BY <1>a, <2>2
  <2>4. RunnersNumbered' /\ OwnRunner'
    BY <2>2, <2>3 DEF TypeInv, TypeOK
  <2>5. Supervised'
    BY <2>2, <2>3 DEF TypeInv, TypeOK, store
  <2>6. LeasesDead'
    BY <1>b, <2>2, <2>3 DEF TypeInv, TypeOK, store
  <2> QED
    BY <2>4, <2>5, <2>6
<1>6. CASE WatchStopped
  BY <1>0, <1>a, <1>6 DEF WatchStopped, GotoWith, store, leases
<1>7. CASE WatchExited
  BY <1>0, <1>a, <1>7 DEF WatchExited, GotoWith, Untouched, store, leases, runners
<1>8. CASE CloseLease
  <2>1. LeaseStateFor(outcome) # "running"
    BY <1>8 DEF CloseLease, LeaseStateFor, TypeInv, TypeOK, Final
  <2> QED
    BY <1>0, <1>8, <2>1 DEF CloseLease, Goto, store, runners, TypeInv, TypeOK
<1>9. CASE QualityRestart
  BY <1>0, <1>a, <1>9
  DEF QualityRestart, GotoWith, Untouched, store, leases, runners, NoRunner, TypeInv, TypeOK
<1>10. CASE Finish
  <2>1. /\ job \in JobIds /\ outcome \in Final /\ pc' = "idle" /\ runner' = NoRunner
        /\ live \ lost = {}
        /\ UNCHANGED <<leases, runners>>
    BY <1>a, <1>10 DEF Finish, Release, TypeInv, WorkerState, DecidedPC
  <2>2. \A j \in JobIds : status'[j] \in {"none", "queued"} => status[j] \in {"none", "queued"}
    <3>1. status' = status \/ status' = [status EXCEPT ![job] = outcome]
      BY <1>10 DEF Finish, StoreOutcome, store
    <3> QED
      BY <2>1, <3>1 DEF TypeInv, TypeOK, Final
  <2> QED
    BY <2>1, <2>2 DEF leases, runners, NoRunner, TypeInv, TypeOK
<1>11. CASE Handler
  BY <1>0, <1>11 DEF Handler, GotoWith, store, runners, TypeInv, TypeOK
<1>12. CASE Shutdown
  BY <1>0, <1>12 DEF Shutdown, store, leases, runners
<1> QED
  BY <1>1, <1>2, <1>3, <1>4, <1>5, <1>6, <1>7, <1>8, <1>9, <1>10, <1>11, <1>12 DEF Execution

\* An exception in the watch loop and a crash before the lease are the two ways
\* to lose a runner; every other disturbance leaves it dead or leased.
LEMMA DisturbanceRunners ==
  ASSUME TypeInv, JobsInv, RunnersInv,
         \/ Faults \/ SignalStop \/ Crash
         \/ \E w \in fresh : HeartbeatExpires(w)
         \/ \E r \in live : RunnerExits(r)
  PROVE  RunnersInv'
<1>0. \A r \in live : r.job \in JobIds
  BY DEF TypeInv, TypeOK, Runner
<1>a. pc \in BusyPC => job \in JobIds /\ status[job] \in Started
  BY DEF TypeInv, TypeOK, WorkerState, JobsInv, WorkerJobStarted
<1> USE DEF RunnersInv, RunnersNumbered, OwnRunner, Supervised, LeasesDead, LeaseDead,
            NoLeasePC, LeasedRunning, BusyPC, ServingPC
<1>1. CASE SpawnRaises \/ LeaseRaises \/ CloseLeaseRaises \/ FinishRaises
  BY <1>0, <1>1
  DEF SpawnRaises, LeaseRaises, CloseLeaseRaises, FinishRaises, Goto, GotoWith, Fault,
      store, leases, runners
<1>2. CASE WatchRaises
  BY <1>0, <1>2 DEF WatchRaises, Goto, Fault, store, leases
<1>3. CASE LoopRaises
  BY <1>0, <1>3 DEF LoopRaises, Release, store, leases, runners, NoRunner, TypeInv, TypeOK
<1>4. CASE SignalStop
  BY <1>0, <1>4 DEF SignalStop, store, leases, runners
<1>5. CASE Crash
  BY <1>0, <1>a, <1>5 DEF Crash, Release, store, leases, NoRunner, TypeInv, TypeOK
<1>6. CASE \E w \in fresh : HeartbeatExpires(w)
  BY <1>0, <1>6 DEF HeartbeatExpires, store, leases, runners, worker
<1>7. CASE \E r \in live : RunnerExits(r)
  BY <1>0, <1>7 DEF RunnerExits, store, leases, worker
<1> QED
  BY <1>1, <1>2, <1>3, <1>4, <1>5, <1>6, <1>7 DEF Faults

\* The inductive invariant of runners and leases.
THEOREM Runners == Spec => []RunnersInv
<1>1. TypeInv /\ JobsInv /\ RunnersInv /\ [Next]_vars => RunnersInv'
  <2> SUFFICES ASSUME TypeInv, JobsInv, RunnersInv, [Next]_vars PROVE RunnersInv'
    OBVIOUS
  <2>1. CASE Telegram
    BY <2>1, TelegramRunners
  <2>2. CASE StartWorker \/ Recovery
    BY <2>2, RecoveryRunners
  <2>3. CASE Execution
    BY <2>3, ExecutionRunners
  <2>4. CASE \/ Faults \/ SignalStop \/ Crash
             \/ \E w \in fresh : HeartbeatExpires(w)
             \/ \E r \in live : RunnerExits(r)
    BY <2>4, DisturbanceRunners
  <2>5. CASE UNCHANGED vars
    BY <2>5
    DEF vars, store, leases, runners, worker, RunnersInv, RunnersNumbered, OwnRunner,
        Supervised, LeasesDead, LeaseDead, LeasedRunning
  <2> QED
    BY <2>1, <2>2, <2>3, <2>4, <2>5 DEF Next
<1> QED
  BY Jobs, InitRunners, <1>1, PTL DEF Spec

\* While a worker serves, every supervised runner is its own.
THEOREM OneRunner == Spec => []OneSupervisedRunner
<1>1. TypeInv /\ RunnersInv => OneSupervisedRunner
  BY DEF RunnersInv, Supervised, OneSupervisedRunner, ServingPC
<1> QED
  BY Jobs, Runners, <1>1, PTL

\* A supervised runner works for a started job: no job waits in the queue or
\* has a verdict while a runner somebody looks after is still at it.
THEOREM RunnersServe == Spec => []RunnersServeStartedJobs
<1>1. TypeInv /\ JobsInv /\ RunnersInv => RunnersServeStartedJobs
  BY DEF TypeInv, TypeOK, WorkerState, BusyPC, ServingPC, JobsInv, WorkerJobStarted,
         RunnersInv, Supervised, OwnRunner, RunnersServeStartedJobs
<1> QED
  BY Jobs, Runners, <1>1, PTL

\* record_execution_lease never refuses.
THEOREM LeaseFree == Spec => []LeaseNeverTaken
<1>1. RunnersInv => LeaseNeverTaken
  BY DEF RunnersInv, LeasesDead, LeaseDead, NoLeasePC, LeaseNeverTaken, LeaseTaken
<1> QED
  BY Runners, <1>1, PTL

-----------------------------------------------------------------------------
(* DubStudio implements DubJobLifecycle: step simulation.                  *)

\* The mapping, value by value; distinct statuses map to distinct phases.
LEMMA PhaseValues ==
  /\ Phase("none") = "absent" /\ Phase("queued") = "waiting"
  /\ Phase("running") = "working" /\ Phase("cancel_requested") = "stopping"
  /\ \A v \in Final : Phase(v) = v
  BY DEF Phase, Final

LEMMA PhaseOpen ==
  ASSUME NEW s \in {"none"} \cup Active \cup Final
  PROVE  Phase(s) \in Lifecycle!Open <=> s \in Active
  BY PhaseValues DEF Active, Final, Lifecycle!Open

LEMMA InitLifecycle == Init => Lifecycle!Init
  BY PhaseValues DEF Init, Lifecycle!Init, JobIds, Lifecycle!JobIds

\* The abstract state as seen through the mapping.
phaseOf == [j \in JobIds |-> Phase(status[j])]

LEMMA LifecycleStep ==
  TypeInv /\ JobsInv /\ [Next]_vars => [Lifecycle!Next]_<<phaseOf, project, told>>
<1> SUFFICES ASSUME TypeInv, JobsInv, [Next]_vars
             PROVE  Lifecycle!Next \/ UNCHANGED <<phaseOf, project, told>>
  OBVIOUS
<1> USE DEF phaseOf, Active, Started, Final
<1>0. JobIds = Lifecycle!JobIds
  BY DEF JobIds, Lifecycle!JobIds
<1>a. ASSUME UNCHANGED <<status, project, told>> PROVE UNCHANGED <<phaseOf, project, told>>
  BY <1>a
<1>1. ASSUME NEW p \in Projects, Enqueue(p) PROVE Lifecycle!Next
  <2>1. PICK j \in JobIds :
          /\ status[j] = "none" /\ status' = [status EXCEPT ![j] = "queued"]
          /\ project' = [project EXCEPT ![j] = p] /\ told' = told
    BY <1>1 DEF Enqueue
  <2>2. \A i \in JobIds : project[i] = p => Phase(status[i]) \notin Lifecycle!Open
    BY <1>1, PhaseOpen DEF Enqueue, ActiveJobsOf, TypeInv, TypeOK
  <2>3. phaseOf' = [phaseOf EXCEPT ![j] = "waiting"] /\ phaseOf[j] = "absent"
    BY <2>1, PhaseValues DEF TypeInv, TypeOK
  <2>4. Lifecycle!Accept(j, p)
    BY <1>0, <2>1, <2>2, <2>3 DEF Lifecycle!Accept
  <2> QED
    BY <1>0, <2>4 DEF Lifecycle!Next
<1>2. ASSUME NEW p \in Projects, CancelQueued(p) PROVE Lifecycle!Next
  <2>1. PICK j \in JobIds :
          /\ status[j] = "queued" /\ status' = [status EXCEPT ![j] = "cancelled"]
          /\ told' = [told EXCEPT ![j] = Append(@, "cancelled")] /\ project' = project
    BY <1>2 DEF CancelQueued
  <2>2. told[j] = <<>>
    BY <2>1 DEF JobsInv, OneTerminalEvent
  <2>3. told' = [told EXCEPT ![j] = <<"cancelled">>]
    <3>1. Append(told[j], "cancelled") = <<"cancelled">>
      BY <2>2
    <3> QED
      BY <2>1, <3>1
  <2>4. phaseOf' = [phaseOf EXCEPT ![j] = "cancelled"] /\ phaseOf[j] = "waiting"
    BY <2>1, PhaseValues DEF TypeInv, TypeOK
  <2>5. Lifecycle!Conclude(j, "cancelled")
    BY <2>1, <2>2, <2>3, <2>4 DEF Lifecycle!Conclude
  <2> QED
    BY <1>0, <2>5 DEF Lifecycle!Next, Lifecycle!Verdict
<1>3. ASSUME NEW p \in Projects, CancelStarted(p)
      PROVE  Lifecycle!Next \/ UNCHANGED <<phaseOf, project, told>>
  <2>1. PICK j \in JobIds :
          /\ status[j] \in Started /\ status' = [status EXCEPT ![j] = "cancel_requested"]
          /\ UNCHANGED <<project, told>>
    BY <1>3 DEF CancelStarted, Cancellable
  <2>2. CASE status[j] = "running"
    <3>1. phaseOf' = [phaseOf EXCEPT ![j] = "stopping"] /\ phaseOf[j] = "working"
      BY <2>1, <2>2, PhaseValues DEF TypeInv, TypeOK
    <3>2. Lifecycle!AskToStop(j)
      BY <2>1, <3>1 DEF Lifecycle!AskToStop
    <3> QED
      BY <1>0, <3>2 DEF Lifecycle!Next
  <2>3. CASE status[j] = "cancel_requested"
    BY <2>1, <2>3, <1>a DEF TypeInv, TypeOK
  <2> QED
    BY <2>1, <2>2, <2>3
<1>4. ASSUME RequeueAbandoned PROVE Lifecycle!Next
  <2>1. /\ status' = [j \in JobIds |-> IF j \in Abandoned THEN RecoveredStatus(j) ELSE status[j]]
        /\ UNCHANGED <<project, told>>
    BY <1>4 DEF RequeueAbandoned
  <2>2. ASSUME NEW j \in Abandoned
        PROVE  /\ phaseOf[j] \in {"working", "stopping"}
               /\ Phase(RecoveredStatus(j)) =
                    IF phaseOf[j] = "working" THEN "waiting" ELSE "cancelled"
    BY PhaseValues DEF Abandoned, RecoveredStatus, JobsInv, CancelFlagged
  <2>3. phaseOf' = [j \in JobIds |->
                      IF j \notin Abandoned THEN phaseOf[j]
                      ELSE IF phaseOf[j] = "working" THEN "waiting" ELSE "cancelled"]
    BY <2>1, <2>2
  <2>4. Lifecycle!Return(Abandoned)
    BY <1>0, <2>1, <2>2, <2>3 DEF Lifecycle!Return
  <2>5. Abandoned \in SUBSET JobIds
    BY DEF Abandoned
  <2> QED
    BY <1>0, <2>4, <2>5 DEF Lifecycle!Next
<1>5. ASSUME FinaliseCancelled PROVE Lifecycle!Next
  <2>1. UNCHANGED <<status, project>> /\ phaseOf' = phaseOf
    BY <1>5 DEF FinaliseCancelled
  <2>2. \A j \in HalfCancelled : j \in JobIds /\ phaseOf[j] = "cancelled" /\ told[j] = <<>>
    BY PhaseValues DEF HalfCancelled, JobsInv, OneTerminalEvent
  <2>3. told' = [j \in JobIds |-> IF j \in HalfCancelled THEN <<"cancelled">> ELSE told[j]]
    <3>1. ASSUME NEW j \in HalfCancelled
          PROVE  /\ Append(told[j], "cancelled") = <<"cancelled">>
                 /\ \A k \in 1..Len(told[j]) : told[j][k] # "cancelled"
      <4>1. told[j] = <<>>
        BY <2>2
      <4>2. Append(told[j], "cancelled") = <<"cancelled">>
        BY <4>1
      <4>3. \A k \in 1..Len(told[j]) : told[j][k] # "cancelled"
        BY <4>1
      <4> QED
        BY <4>2, <4>3
    <3> QED
      BY <1>5, <3>1 DEF FinaliseCancelled
  <2>4. Lifecycle!Announce(HalfCancelled)
    BY <1>0, <2>1, <2>2, <2>3 DEF Lifecycle!Announce
  <2>5. HalfCancelled \in SUBSET JobIds
    BY DEF HalfCancelled
  <2> QED
    BY <1>0, <2>4, <2>5 DEF Lifecycle!Next
<1>6. ASSUME Claim PROVE Lifecycle!Next
  <2>1. PICK j \in JobIds :
          /\ status[j] = "queued" /\ status' = [status EXCEPT ![j] = "running"]
          /\ UNCHANGED <<project, told>>
    BY <1>6 DEF Claim, Queued
  <2>2. phaseOf' = [phaseOf EXCEPT ![j] = "working"] /\ phaseOf[j] = "waiting"
    BY <2>1, PhaseValues DEF TypeInv, TypeOK
  <2>3. Lifecycle!Start(j)
    BY <2>1, <2>2 DEF Lifecycle!Start
  <2> QED
    BY <1>0, <2>3 DEF Lifecycle!Next
<1>7. ASSUME Finish PROVE Lifecycle!Next
  <2>1. job \in JobIds /\ status[job] \in Started /\ outcome \in Final
    BY <1>7 DEF Finish, TypeInv, TypeOK, WorkerState, BusyPC, ServingPC, DecidedPC,
                JobsInv, WorkerJobStarted
  <2>2. /\ status' = [status EXCEPT ![job] = outcome] /\ project' = project
        /\ told' = [told EXCEPT ![job] = Append(@, outcome)]
    BY <1>7, <2>1 DEF Finish, StoreOutcome
  <2>3. told[job] = <<>>
    BY <2>1 DEF JobsInv, OneTerminalEvent
  <2>4. told' = [told EXCEPT ![job] = <<outcome>>]
    <3>1. Append(told[job], outcome) = <<outcome>>
      BY <2>1, <2>3
    <3> QED
      BY <2>2, <3>1
  <2>5. phaseOf' = [phaseOf EXCEPT ![job] = outcome] /\ phaseOf[job] \in {"working", "stopping"}
    BY <2>1, <2>2, PhaseValues DEF TypeInv, TypeOK
  <2>6. Lifecycle!Conclude(job, outcome)
    BY <2>2, <2>3, <2>4, <2>5 DEF Lifecycle!Conclude
  <2> QED
    BY <1>0, <2>1, <2>6 DEF Lifecycle!Next, Lifecycle!Verdict
<1>8. ASSUME Quiet \/ UNCHANGED vars PROVE UNCHANGED <<status, project, told>>
  BY <1>8, QuietStore DEF store, vars
<1> QED
  BY <1>a, <1>1, <1>2, <1>3, <1>4, <1>5, <1>6, <1>7, <1>8, NextSplit DEF Writing, Telegram

-----------------------------------------------------------------------------
(* What each project shows of its jobs: DubProject.                        *)

USE DEF JobIds

\* Beside the cancellation that waits for its event its project has no other.
HalfCancelledOnce ==
  \A i, j \in HalfCancelled : project[i] = project[j] => i = j

ShownInv == TypeInv /\ JobsInv /\ HalfCancelledOnce

LEMMA TheOneIs ==
  /\ TheOne({}) = 0
  /\ \A j : TheOne({j}) = j
  /\ 0 \notin JobIds
  BY DEF TheOne

\* At most one job of a project is in work, and one half cancelled.
LEMMA OneOrNone ==
  ASSUME ShownInv, NEW p \in Projects
  PROVE  /\ \A j \in JobIds : project[j] = p /\ status[j] \in Active => ActiveJobsOf(p) = {j}
         /\ \A j \in HalfCancelled : project[j] = p => HalfCancelledOf(p) = {j}
         /\ HalfCancelledOf(p) # {} =>
              \A j \in JobIds : project[j] = p => status[j] \notin Started
<1>1. ASSUME NEW j \in JobIds, project[j] = p, status[j] \in Active PROVE ActiveJobsOf(p) = {j}
  BY <1>1 DEF ShownInv, JobsInv, OneActiveJobPerProject, ActiveJobsOf
<1>2. ASSUME NEW j \in HalfCancelled, project[j] = p PROVE HalfCancelledOf(p) = {j}
  BY <1>2 DEF ShownInv, HalfCancelledOnce, HalfCancelledOf
<1>3. ASSUME NEW i \in HalfCancelledOf(p), NEW j \in JobIds, project[j] = p
      PROVE  status[j] \notin Started
  BY <1>3 DEF ShownInv, JobsInv, HalfCancelledProjectIdle, HalfCancelledOf, HalfCancelled
<1> QED  BY <1>1, <1>2, <1>3

\* Who has no verdict, and what a project shows while a job of it is started.
LEMMA ShownFacts ==
  ASSUME ShownInv, NEW j \in JobIds
  PROVE  /\ status[j] \notin Final => ~finishedAt[j] /\ told[j] = <<>> /\ j \notin HalfCancelled
         /\ j \in HalfCancelled => told[j] = <<>> /\ status[j] \notin Active
         /\ status[j] \in Started =>
              project[j] \in Projects /\ projStatus[project[j]] \in ActiveProjectStatus
  BY DEF ShownInv, JobsInv, OneTerminalEvent, HalfCancelled, ProjectShowsStartedJob,
         RowsBlankUntilInserted, ActiveProjectStatus, Active, Started, Final, TypeInv, TypeOK

ToldOf(p) == {j \in JobIds : project[j] = p /\ told[j] # <<>>}

LEMMA ShownUnchanged ==
  ASSUME NEW p \in Projects, ActiveJobsOf(p)' = ActiveJobsOf(p),
         HalfCancelledOf(p)' = HalfCancelledOf(p), ToldOf(p)' = ToldOf(p),
         (projStatus[p] \in ActiveProjectStatus)' = (projStatus[p] \in ActiveProjectStatus)
  PROVE  UNCHANGED Shown(p)!aspects
  BY DEF Shown!aspects, ToldOf

\* enqueue_job.
LEMMA ShownEnqueue ==
  ASSUME ShownInv, NEW q \in Projects, Enqueue(q), NEW p \in Projects
  PROVE  [Shown(p)!Next]_(Shown(p)!aspects)
<1>1. PICK n \in JobIds :
        /\ status[n] = "none" /\ status' = [status EXCEPT ![n] = "queued"]
        /\ project' = [project EXCEPT ![n] = q]
  BY DEF Enqueue
<1>2. /\ projStatus' = [projStatus EXCEPT ![q] = "queued"]
      /\ UNCHANGED <<cancelFlag, finishedAt, told>> /\ ActiveJobsOf(q) = {}
  BY DEF Enqueue
<1>3. /\ status \in [JobIds -> {"none"} \cup Active \cup Final]
      /\ project \in [JobIds -> Projects \cup {NoProject}]
      /\ projStatus \in [Projects -> ProjectStatus]
  BY DEF ShownInv, TypeInv, TypeOK
<1>4. project[n] = NoProject /\ told[n] = <<>> /\ n \notin HalfCancelled
  BY <1>1, ShownFacts DEF ShownInv, JobsInv, RowsBlankUntilInserted, Final
<1>5. HalfCancelledOf(p)' = HalfCancelledOf(p) /\ ToldOf(p)' = ToldOf(p) /\ n \notin ToldOf(p)
  BY <1>1, <1>2, <1>3, <1>4 DEF HalfCancelledOf, HalfCancelled, ToldOf
<1>6. CASE p = q
  <2>1. ActiveJobsOf(p) = {} /\ ActiveJobsOf(p)' = {n}
    BY <1>1, <1>2, <1>3, <1>6, ProjectAssumption DEF ActiveJobsOf, Active
  <2>2. n # TheOne(HalfCancelledOf(p))
    BY <1>4 DEF TheOne, HalfCancelledOf
  <2>3. (projStatus[p] \in ActiveProjectStatus)' = TRUE
    BY <1>2, <1>3, <1>6 DEF ActiveProjectStatus
  <2>4. Shown(p)!Accept(n)
    BY <1>5, <2>1, <2>2, <2>3, TheOneIs DEF Shown!Accept, ToldOf
  <2> QED  BY <1>1, <2>4 DEF Shown!Next
<1>7. CASE p # q
  <2>1. ActiveJobsOf(p)' = ActiveJobsOf(p)
    BY <1>1, <1>3, <1>4, <1>7, ProjectAssumption DEF ActiveJobsOf, Active
  <2>2. projStatus'[p] = projStatus[p]  BY <1>2, <1>3, <1>7
  <2> QED  BY <1>5, <2>1, <2>2, ShownUnchanged
<1> QED  BY <1>6, <1>7

\* A verdict is stored: request_cancel of a queued job, finish_job.
LEMMA ShownVerdict ==
  ASSUME ShownInv, NEW j \in JobIds, status[j] \in Active, NEW v \in Final,
         NEW ps \in ProjectStatus \ ActiveProjectStatus,
         status' = [status EXCEPT ![j] = v], finishedAt' = [finishedAt EXCEPT ![j] = TRUE],
         told' = [told EXCEPT ![j] = Append(@, v)],
         projStatus' = [projStatus EXCEPT ![project[j]] = ps], UNCHANGED project,
         \A i \in JobIds \ {j} : cancelFlag'[i] = cancelFlag[i],
         NEW p \in Projects
  PROVE  [Shown(p)!Next]_(Shown(p)!aspects)
<1>1. /\ status \in [JobIds -> {"none"} \cup Active \cup Final]
      /\ project \in [JobIds -> Projects \cup {NoProject}]
      /\ projStatus \in [Projects -> ProjectStatus]
      /\ told \in [JobIds -> Seq(Final)] /\ finishedAt \in [JobIds -> BOOLEAN]
  BY DEF ShownInv, TypeInv, TypeOK
<1>2. project[j] \in Projects
  BY DEF ShownInv, JobsInv, RowsBlankUntilInserted, Active
<1>3. v \notin Active  BY DEF Active, Final
<1>4. j \notin HalfCancelled /\ told[j] = <<>>
  BY ShownFacts DEF Active, Final
<1>5. Append(told[j], v) # <<>>  BY <1>4
<1>6. HalfCancelledOf(p)' = HalfCancelledOf(p)
  BY <1>1, <1>4 DEF HalfCancelledOf, HalfCancelled
<1>7. CASE p = project[j]
  <2>1. ActiveJobsOf(p) = {j} /\ ActiveJobsOf(p)' = {}
    <3>1. ActiveJobsOf(p) = {j}  BY <1>7, OneOrNone
    <3> QED  BY <1>1, <1>3, <3>1 DEF ActiveJobsOf
  <2>2. ToldOf(p)' = ToldOf(p) \cup {j}
    BY <1>1, <1>5, <1>7 DEF ToldOf
  <2>3. (projStatus[p] \in ActiveProjectStatus)' = FALSE
    BY <1>1, <1>2, <1>7
  <2>4. TheOne(ActiveJobsOf(p)) = j /\ TheOne(ActiveJobsOf(p))' = 0 /\ j # 0
    BY <2>1, TheOneIs, Zenon
  <2>5. Shown(p)!Conclude
    BY <1>6, <2>2, <2>3, <2>4 DEF Shown!Conclude, ToldOf
  <2> QED  BY <2>5 DEF Shown!Next
<1>8. CASE p # project[j]
  <2>1. ActiveJobsOf(p)' = ActiveJobsOf(p) /\ ToldOf(p)' = ToldOf(p)
    BY <1>1, <1>8 DEF ActiveJobsOf, ToldOf
  <2>2. projStatus'[p] = projStatus[p]  BY <1>1, <1>8
  <2> QED  BY <1>6, <2>1, <2>2, ShownUnchanged
<1> QED  BY <1>7, <1>8

\* request_cancel of a started job: its project looked active and still does.
LEMMA ShownCancelStarted ==
  ASSUME ShownInv, NEW q \in Projects, CancelStarted(q), NEW p \in Projects
  PROVE  UNCHANGED Shown(p)!aspects
<1>1. PICK j \in JobIds :
        /\ project[j] = q /\ status[j] \in Started
        /\ status' = [status EXCEPT ![j] = "cancel_requested"]
        /\ cancelFlag' = [cancelFlag EXCEPT ![j] = TRUE]
        /\ projStatus' = [projStatus EXCEPT ![q] = "cancelling"]
        /\ UNCHANGED <<project, finishedAt, told>>
  BY DEF CancelStarted, Cancellable, ActiveJobsOf
<1>2. /\ status \in [JobIds -> {"none"} \cup Active \cup Final]
      /\ cancelFlag \in [JobIds -> BOOLEAN] /\ projStatus \in [Projects -> ProjectStatus]
  BY DEF ShownInv, TypeInv, TypeOK
<1>3. ActiveJobsOf(p)' = ActiveJobsOf(p)
  BY <1>1, <1>2 DEF ActiveJobsOf, Active, Started
<1>4. HalfCancelledOf(p)' = HalfCancelledOf(p)
  BY <1>1, <1>2 DEF HalfCancelledOf, HalfCancelled, Started
<1>5. ToldOf(p)' = ToldOf(p)  BY <1>1 DEF ToldOf
<1>6. (projStatus[p] \in ActiveProjectStatus)' = (projStatus[p] \in ActiveProjectStatus)
  <2>1. CASE p = q
    BY <1>1, <1>2, <2>1, ShownFacts DEF ActiveProjectStatus
  <2>2. CASE p # q
    BY <1>1, <1>2, <2>2
  <2> QED  BY <2>1, <2>2
<1> QED  BY <1>3, <1>4, <1>5, <1>6, ShownUnchanged

\* claim_next_job: no cancellation is pending, and the project looks active (again).
LEMMA ShownClaim ==
  ASSUME ShownInv, Claim, NEW p \in Projects
  PROVE  [Shown(p)!Next]_(Shown(p)!aspects)
<1>1. PICK j \in JobIds :
        /\ status[j] = "queued" /\ status' = [status EXCEPT ![j] = "running"]
        /\ projStatus' = [projStatus EXCEPT ![project[j]] = "rendering"]
        /\ UNCHANGED <<project, cancelFlag, finishedAt, told>>
  BY DEF Claim, Queued
<1>2. /\ status \in [JobIds -> {"none"} \cup Active \cup Final]
      /\ projStatus \in [Projects -> ProjectStatus]
  BY DEF ShownInv, TypeInv, TypeOK
<1>3. project[j] \in Projects
  BY <1>1 DEF ShownInv, JobsInv, RowsBlankUntilInserted
<1>4. HalfCancelledOf(p) = {}
  BY DEF Claim, ShownInv, JobsInv, RecoveryDone, SettledPC, ServingPC, HalfCancelledOf
<1>5. /\ ActiveJobsOf(p)' = ActiveJobsOf(p) /\ HalfCancelledOf(p)' = HalfCancelledOf(p)
      /\ ToldOf(p)' = ToldOf(p)
  BY <1>1, <1>2 DEF ActiveJobsOf, HalfCancelledOf, HalfCancelled, ToldOf, Active
<1>6. CASE p = project[j]
  <2>1. ActiveJobsOf(p) = {j}  BY <1>1, <1>6, OneOrNone DEF Active
  <2>2. (projStatus[p] \in ActiveProjectStatus)' = TRUE
    BY <1>1, <1>2, <1>6 DEF ActiveProjectStatus
  <2>3. TheOne(ActiveJobsOf(p)) # 0  BY <2>1, TheOneIs, Zenon
  <2>4. Shown(p)!Resume
    BY <1>4, <1>5, <2>2, <2>3, TheOneIs DEF Shown!Resume, ToldOf
  <2> QED  BY <2>4 DEF Shown!Next
<1>7. CASE p # project[j]
  <2>1. projStatus'[p] = projStatus[p]  BY <1>1, <1>2, <1>7
  <2> QED  BY <1>5, <2>1, ShownUnchanged
<1> QED  BY <1>6, <1>7

\* The first transaction of the recovery returns the project's job or cancels it by half.
LEMMA ShownRequeue ==
  ASSUME ShownInv, RequeueAbandoned, NEW p \in Projects
  PROVE  [Shown(p)!Next]_(Shown(p)!aspects)
<1>1. /\ status' = [j \in JobIds |-> IF j \in Abandoned THEN RecoveredStatus(j) ELSE status[j]]
      /\ projStatus' = [q \in Projects |->
           IF \E j \in Abandoned : project[j] = q
           THEN RecoveredStatus(CHOOSE j \in Abandoned : project[j] = q)
           ELSE projStatus[q]]
      /\ UNCHANGED <<project, cancelFlag, finishedAt, told>>
  BY DEF RequeueAbandoned
<1>2. status \in [JobIds -> {"none"} \cup Active \cup Final]
  BY DEF ShownInv, TypeInv, TypeOK
<1>3. ToldOf(p)' = ToldOf(p)  BY <1>1 DEF ToldOf
<1>4. ASSUME NEW j \in Abandoned, project[j] = p PROVE [Shown(p)!Next]_(Shown(p)!aspects)
  <2>1. j \in JobIds /\ status[j] \in Started /\ status[j] \in Active
    BY DEF Abandoned, Started, Active
  <2>2. ActiveJobsOf(p) = {j} /\ HalfCancelledOf(p) = {}
    BY <1>4, <2>1, OneOrNone
  <2>3. \A i \in Abandoned : project[i] = p => i = j
    <3>1. \A i \in Abandoned : project[i] = p => i \in ActiveJobsOf(p)
      BY DEF Abandoned, ActiveJobsOf, Started, Active
    <3> QED  BY <2>2, <3>1
  <2>4. projStatus'[p] = RecoveredStatus(j)
    <3>1. (CHOOSE i \in Abandoned : project[i] = p) = j  BY <1>4, <2>3
    <3> QED  BY <1>1, <1>4, <3>1
  <2>5. projStatus[p] \in ActiveProjectStatus /\ ~finishedAt[j]
    BY <1>4, <2>1, ShownFacts DEF Started, Final
  <2>6. \A i \in JobIds \ {j} : project[i] = p => status'[i] = status[i]
    BY <1>1, <2>3
  <2>7. status'[j] = RecoveredStatus(j)  BY <1>1, <2>1
  <2>8. CASE RecoveredStatus(j) = "queued"
    <3>1. ActiveJobsOf(p)' = {j}
      BY <1>1, <1>4, <2>1, <2>2, <2>6, <2>7, <2>8 DEF ActiveJobsOf, Active
    <3>2. HalfCancelledOf(p)' = {}
      BY <1>1, <1>4, <2>1, <2>2, <2>6, <2>7, <2>8 DEF HalfCancelledOf, HalfCancelled
    <3>3. projStatus'[p] \in ActiveProjectStatus
      BY <2>4, <2>8 DEF ActiveProjectStatus
    <3> QED  BY <1>3, <2>2, <2>5, <3>1, <3>2, <3>3, ShownUnchanged
  <2>9. CASE RecoveredStatus(j) = "cancelled"
    <3>1. ActiveJobsOf(p)' = {}
      BY <1>1, <1>4, <2>1, <2>2, <2>6, <2>7, <2>9 DEF ActiveJobsOf, Active
    <3>2. cancelFlag[j]
      BY <2>1, <2>9 DEF RecoveredStatus, ShownInv, JobsInv, CancelFlagged
    <3>3. HalfCancelledOf(p)' = {j}
      BY <1>1, <1>4, <2>1, <2>2, <2>5, <2>6, <2>7, <2>9, <3>2 DEF HalfCancelledOf, HalfCancelled
    <3>4. (projStatus[p] \in ActiveProjectStatus)' = FALSE
      BY <2>4, <2>9 DEF ActiveProjectStatus
    <3>5. /\ TheOne(ActiveJobsOf(p)) = j /\ TheOne(ActiveJobsOf(p))' = 0 /\ j # 0
          /\ TheOne(HalfCancelledOf(p)) = 0 /\ TheOne(HalfCancelledOf(p))' = j
      BY <2>1, <2>2, <3>1, <3>3, TheOneIs, Zenon
    <3>6. Shown(p)!HalfCancel
      BY <1>3, <2>5, <3>4, <3>5 DEF Shown!HalfCancel, ToldOf
    <3> QED  BY <3>6 DEF Shown!Next
  <2> QED  BY <2>8, <2>9 DEF RecoveredStatus
<1>5. CASE \A j \in Abandoned : project[j] # p
  <2>1. \A i \in JobIds : project[i] = p => status'[i] = status[i]  BY <1>1, <1>5
  <2>2. projStatus'[p] = projStatus[p]  BY <1>1, <1>5
  <2>3. ActiveJobsOf(p)' = ActiveJobsOf(p) /\ HalfCancelledOf(p)' = HalfCancelledOf(p)
    BY <1>1, <2>1 DEF ActiveJobsOf, HalfCancelledOf, HalfCancelled
  <2> QED  BY <1>3, <2>2, <2>3, ShownUnchanged
<1> QED  BY <1>4, <1>5

\* The second ends the cancellation, whatever job the project has by then.
LEMMA ShownFinalise ==
  ASSUME ShownInv, FinaliseCancelled, NEW p \in Projects
  PROVE  [Shown(p)!Next]_(Shown(p)!aspects)
<1>1. /\ finishedAt' = [j \in JobIds |-> finishedAt[j] \/ j \in HalfCancelled]
      /\ projStatus' = [q \in Projects |->
           IF \E j \in HalfCancelled : project[j] = q THEN "cancelled" ELSE projStatus[q]]
      /\ UNCHANGED <<status, project, cancelFlag>>
  BY DEF FinaliseCancelled
<1>2. \A j \in JobIds : told'[j] = IF j \in HalfCancelled THEN <<"cancelled">> ELSE told[j]
  <2>1. ASSUME NEW j \in JobIds, j \in HalfCancelled PROVE told'[j] = <<"cancelled">>
    <3>1. told[j] = <<>>  BY <2>1, ShownFacts
    <3>2. \A k \in 1..Len(told[j]) : told[j][k] # "cancelled"  BY <3>1
    <3>3. told'[j] = Append(told[j], "cancelled")  BY <2>1, <3>2 DEF FinaliseCancelled
    <3> QED  BY <3>1, <3>3
  <2> QED  BY <2>1 DEF FinaliseCancelled
<1>3. ActiveJobsOf(p)' = ActiveJobsOf(p)  BY <1>1 DEF ActiveJobsOf
<1>4. HalfCancelledOf(p)' = {}  BY <1>1 DEF HalfCancelledOf, HalfCancelled
<1>5. ASSUME NEW j \in HalfCancelled, project[j] = p PROVE [Shown(p)!Next]_(Shown(p)!aspects)
  <2>1. HalfCancelledOf(p) = {j} /\ j \in JobIds  BY <1>5, OneOrNone DEF HalfCancelled
  <2>2. ToldOf(p)' = ToldOf(p) \cup {j}
    <3>1. \A i \in JobIds : project[i] = p /\ i \in HalfCancelled => i = j
      BY <2>1 DEF HalfCancelledOf
    <3>2. <<"cancelled">> # <<>>  OBVIOUS
    <3> QED  BY <1>1, <1>2, <1>5, <2>1, <3>1, <3>2 DEF ToldOf
  <2>3. (projStatus[p] \in ActiveProjectStatus)' = FALSE
    BY <1>1, <1>5 DEF ActiveProjectStatus
  <2>4. TheOne(HalfCancelledOf(p)) = j /\ TheOne(HalfCancelledOf(p))' = 0 /\ j # 0
    BY <1>4, <2>1, TheOneIs, Zenon
  <2>5. Shown(p)!FinishCancel
    BY <1>3, <2>2, <2>3, <2>4 DEF Shown!FinishCancel, ToldOf
  <2> QED  BY <2>5 DEF Shown!Next
<1>6. CASE \A j \in HalfCancelled : project[j] # p
  <2>1. HalfCancelledOf(p) = {}  BY <1>6 DEF HalfCancelledOf
  <2>2. projStatus'[p] = projStatus[p]  BY <1>1, <1>6
  <2>3. ToldOf(p)' = ToldOf(p)  BY <1>1, <1>2, <1>6 DEF ToldOf
  <2> QED  BY <1>3, <1>4, <2>1, <2>2, <2>3, ShownUnchanged
<1> QED  BY <1>5, <1>6

\* Only a started job is cancelled by half, and then its project has no other.
LEMMA HalfOnceStep ==
  ASSUME ShownInv, [Next]_vars
  PROVE  HalfCancelledOnce'
<1>0. /\ status \in [JobIds -> {"none"} \cup Active \cup Final]
      /\ cancelFlag \in [JobIds -> BOOLEAN] /\ finishedAt \in [JobIds -> BOOLEAN]
      /\ project \in [JobIds -> Projects \cup {NoProject}]
  BY DEF ShownInv, TypeInv, TypeOK
<1>1. ASSUME HalfCancelled' \subseteq HalfCancelled,
             \A j \in HalfCancelled : project'[j] = project[j]
      PROVE  HalfCancelledOnce'
  BY <1>1 DEF ShownInv, HalfCancelledOnce
<1>2. ASSUME NEW p \in Projects, Enqueue(p) PROVE HalfCancelledOnce'
  <2>1. PICK n \in JobIds :
          /\ status[n] = "none" /\ status' = [status EXCEPT ![n] = "queued"]
          /\ project' = [project EXCEPT ![n] = p] /\ UNCHANGED <<cancelFlag, finishedAt>>
    BY <1>2 DEF Enqueue
  <2> QED  BY <1>0, <1>1, <2>1 DEF HalfCancelled
<1>3. ASSUME NEW p \in Projects, CancelQueued(p) PROVE HalfCancelledOnce'
  <2>1. PICK j \in JobIds :
          /\ status[j] = "queued" /\ status' = [status EXCEPT ![j] = "cancelled"]
          /\ cancelFlag' = [cancelFlag EXCEPT ![j] = TRUE]
          /\ finishedAt' = [finishedAt EXCEPT ![j] = TRUE] /\ UNCHANGED project
    BY <1>3 DEF CancelQueued
  <2> QED  BY <1>0, <1>1, <2>1 DEF HalfCancelled
<1>4. ASSUME NEW p \in Projects, CancelStarted(p) PROVE HalfCancelledOnce'
  <2>1. PICK j \in JobIds :
          /\ status' = [status EXCEPT ![j] = "cancel_requested"]
          /\ cancelFlag' = [cancelFlag EXCEPT ![j] = TRUE] /\ UNCHANGED <<project, finishedAt>>
    BY <1>4 DEF CancelStarted
  <2> QED  BY <1>0, <1>1, <2>1 DEF HalfCancelled
<1>5. ASSUME RequeueAbandoned PROVE HalfCancelledOnce'
  <2> SUFFICES ASSUME NEW i \in HalfCancelled', NEW j \in HalfCancelled', project'[i] = project'[j]
               PROVE  i = j
    BY DEF HalfCancelledOnce
  <2>1. /\ status' = [k \in JobIds |-> IF k \in Abandoned THEN RecoveredStatus(k) ELSE status[k]]
        /\ UNCHANGED <<project, cancelFlag, finishedAt>>
    BY <1>5 DEF RequeueAbandoned
  <2>2. HalfCancelled' \subseteq HalfCancelled \cup Abandoned
    BY <2>1 DEF HalfCancelled
  <2>3. \A k \in Abandoned : k \in JobIds /\ status[k] \in Started /\ status[k] \in Active
    BY DEF Abandoned, Started, Active
  <2>4. \A k \in HalfCancelled, l \in Abandoned : project[k] # project[l]
    BY <2>3 DEF ShownInv, JobsInv, HalfCancelledProjectIdle, HalfCancelled
  <2>5. \A k, l \in Abandoned : project[k] = project[l] => k = l
    BY <2>3 DEF ShownInv, JobsInv, OneActiveJobPerProject
  <2> QED  BY <2>1, <2>2, <2>4, <2>5 DEF ShownInv, HalfCancelledOnce
<1>6. ASSUME FinaliseCancelled PROVE HalfCancelledOnce'
  BY <1>1, <1>6 DEF FinaliseCancelled, HalfCancelled
<1>7. ASSUME Claim PROVE HalfCancelledOnce'
  BY <1>0, <1>1, <1>7 DEF Claim, HalfCancelled
<1>8. ASSUME Finish PROVE HalfCancelledOnce'
  BY <1>0, <1>1, <1>8 DEF Finish, StoreOutcome, HalfCancelled, store
<1>9. ASSUME UNCHANGED store PROVE HalfCancelledOnce'
  BY <1>1, <1>9 DEF store, HalfCancelled
<1> QED
  BY <1>2, <1>3, <1>4, <1>5, <1>6, <1>7, <1>8, <1>9, NextSplit, QuietStore
  DEF Writing, Telegram, vars

LEMMA ShownStep ==
  ASSUME ShownInv, [Next]_vars, NEW p \in Projects
  PROVE  [Shown(p)!Next]_(Shown(p)!aspects)
<1>1. CASE Telegram
  <2>1. ASSUME NEW q \in Projects, CancelQueued(q) PROVE [Shown(p)!Next]_(Shown(p)!aspects)
    <3>1. PICK j \in JobIds :
            /\ project[j] = q /\ status[j] = "queued"
            /\ status' = [status EXCEPT ![j] = "cancelled"]
            /\ cancelFlag' = [cancelFlag EXCEPT ![j] = TRUE]
            /\ finishedAt' = [finishedAt EXCEPT ![j] = TRUE]
            /\ told' = [told EXCEPT ![j] = Append(@, "cancelled")]
            /\ projStatus' = [projStatus EXCEPT ![q] = "cancelled"]
            /\ UNCHANGED project
      BY <2>1 DEF CancelQueued, Cancellable, ActiveJobsOf
    <3>2. \A i \in JobIds \ {j} : cancelFlag'[i] = cancelFlag[i]
      BY <3>1 DEF ShownInv, TypeInv, TypeOK
    <3>3. "cancelled" \in ProjectStatus \ ActiveProjectStatus
      BY DEF ProjectStatus, ActiveProjectStatus
    <3> QED  BY <3>1, <3>2, <3>3, ShownVerdict DEF Active, Final
  <2> QED  BY <1>1, <2>1, ShownEnqueue, ShownCancelStarted DEF Telegram
<1>2. CASE RequeueAbandoned \/ FinaliseCancelled \/ Claim
  BY <1>2, ShownRequeue, ShownFinalise, ShownClaim
<1>3. CASE Finish
  <2>1. job \in JobIds /\ status[job] \in Started /\ outcome \in Final
    BY <1>3 DEF Finish, ShownInv, TypeInv, TypeOK, WorkerState, BusyPC, ServingPC, DecidedPC,
                JobsInv, WorkerJobStarted
  <2>2. /\ status' = [status EXCEPT ![job] = outcome]
        /\ finishedAt' = [finishedAt EXCEPT ![job] = TRUE]
        /\ told' = [told EXCEPT ![job] = Append(@, outcome)]
        /\ projStatus' = [projStatus EXCEPT ![project[job]] = ProjectStatusFor(outcome)]
        /\ UNCHANGED <<project, cancelFlag>>
    BY <1>3, <2>1 DEF Finish, StoreOutcome, Started, Final
  <2>3. ProjectStatusFor(outcome) \in ProjectStatus \ ActiveProjectStatus
    BY <2>1 DEF ProjectStatusFor, ProjectStatus, ActiveProjectStatus, Final
  <2> QED  BY <2>1, <2>2, <2>3, ShownVerdict DEF Started, Active
<1>4. CASE UNCHANGED store
  <2>1. UNCHANGED Shown(p)!aspects
    BY <1>4 DEF store, Shown!aspects, ActiveJobsOf, HalfCancelledOf, HalfCancelled, TheOne
  <2> QED  BY <2>1
<1> QED
  BY <1>1, <1>2, <1>3, <1>4, NextSplit, QuietStore DEF Writing, vars

LEMMA ShownInit == ASSUME Init, NEW p \in Projects PROVE Shown(p)!Init
<1>1. ActiveJobsOf(p) = {} /\ HalfCancelledOf(p) = {} /\ ToldOf(p) = {}
  BY DEF Init, ActiveJobsOf, HalfCancelledOf, HalfCancelled, ToldOf, Active
<1>2. projStatus[p] \notin ActiveProjectStatus
  BY DEF Init, ActiveProjectStatus
<1> QED  BY <1>1, <1>2, TheOneIs DEF Shown!Init, ToldOf

LEMMA ShownInductive == Spec => []ShownInv
<1>1. Init => HalfCancelledOnce  BY DEF Init, HalfCancelledOnce, HalfCancelled
<1>2. TypeInv /\ JobsInv /\ HalfCancelledOnce /\ [Next]_vars => HalfCancelledOnce'
  BY HalfOnceStep DEF ShownInv
<1>3. TypeInv /\ JobsInv /\ HalfCancelledOnce => ShownInv  BY DEF ShownInv
<1> QED  BY Jobs, <1>1, <1>2, <1>3, PTL DEF Spec

\* Each project shows of its jobs what DubProject says, whatever recovery, worker
\* and users do: this is what the notification loop is modelled on.
THEOREM ProjectsAreShown == Spec => ImplementsProjects
<1>1. Init => \A p \in Projects : Shown(p)!Init  BY ShownInit
<1>2. ShownInv /\ [Next]_vars =>
        [\A p \in Projects : [Shown(p)!Next]_(Shown(p)!aspects)]_vars
  BY ShownStep
<1> QED  BY <1>1, <1>2, ShownInductive, PTL DEF Spec, ImplementsProjects

\* A started job is the one its project shows, and the project looks active: only
\* then does the worker report progress.
StartedIsShown ==
  \A j \in JobIds : status[j] \in Started =>
    /\ TheOne(ActiveJobsOf(project[j])) = j
    /\ TheOne(HalfCancelledOf(project[j])) = NoJob
    /\ projStatus[project[j]] \in ActiveProjectStatus

THEOREM StartedJobsAreShown == Spec => []StartedIsShown
<1>1. ASSUME ShownInv, NEW j \in JobIds, status[j] \in Started
      PROVE  /\ TheOne(ActiveJobsOf(project[j])) = j
             /\ TheOne(HalfCancelledOf(project[j])) = 0
             /\ projStatus[project[j]] \in ActiveProjectStatus
  <2>1. project[j] \in Projects /\ projStatus[project[j]] \in ActiveProjectStatus
    BY <1>1, ShownFacts
  <2>2. ActiveJobsOf(project[j]) = {j} /\ HalfCancelledOf(project[j]) = {}
    BY <1>1, <2>1, OneOrNone DEF Started, Active
  <2> QED  BY <2>1, <2>2, TheOneIs
<1>2. ShownInv => StartedIsShown  BY <1>1 DEF StartedIsShown
<1> QED  BY <1>2, ShownInductive, PTL

\* Every behaviour of Dub Studio, whatever crashes and fails in it, is one that the
\* lifecycle of jobs and what a project shows of them allow.
THEOREM LifecycleImplemented == Spec => ImplementsLifecycle
<1>1. Init => Lifecycle!Init
  BY InitLifecycle
<1>2. TypeInv /\ JobsInv /\ [Next]_vars => [Lifecycle!Next]_(Lifecycle!lifecycle)
  BY LifecycleStep DEF phaseOf, Lifecycle!lifecycle
<1> QED
  BY Jobs, ProjectsAreShown, <1>1, <1>2, PTL DEF Spec, ImplementsLifecycle, Lifecycle!Spec
=============================================================================
