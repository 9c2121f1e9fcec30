---------------------------- MODULE FactoryDelivery ----------------------------
(***************************************************************************)
(* Shorts Factory for one video and one chat: the runs that analyse the    *)
(* video and send its clips (process_shorts_factory of                     *)
(* pipelines/shorts_factory.py), the lease that lets one run at a time     *)
(* work, the ledger of what was sent                                       *)
(* (services/shorts_factory_delivery_ledger.py), the calendar that runs    *)
(* the job again after an overload of Gemini                               *)
(* (services/shorts_factory_retry_store.py, pipelines/                     *)
(* factory_retry_runtime.py), and the operator, who clears up what a crash *)
(* left behind.                                                            *)
(*                                                                         *)
(* A step is a transaction, which runs in a thread, or a call of Telegram. *)
(* A task may be cancelled while it waits for either: the thread finishes  *)
(* all the same.                                                           *)
(***************************************************************************)
EXTENDS Integers

CONSTANTS
  Users,       \* runs that users start, concurrently; each may start again
  Deferred,    \* the run of the retry loop
  Artifacts,   \* number of files that a run sends, one after the other
  Prints,      \* fingerprints that a rendered file may have
  NoPrint,     \* none
  Windows      \* MAX_PROVIDER_WINDOWS

ASSUME FactoryAssumption ==
  /\ Deferred \notin Users /\ NoPrint \notin Prints
  /\ Artifacts \in Nat \ {0} /\ Windows \in Nat \ {0}

VARIABLES
  lease,       \* is there a row of factory_job_lease
  row,         \* per artifact, its row of factory_delivery
  inChat,      \* per artifact, how many messages with it the user has
  job,         \* the row of factory_deferred_jobs; history: was its last run cut
               \* short, and did the report of its end fail
  runAt,       \* where each run is
  run          \* its local variables

factoryVars == <<lease, row, inChat, job, runAt, run>>

Runs     == Users \cup {Deferred}
Files    == 1..Artifacts
Terminal == {"done", "blocked", "canceled", "exhausted"}
Results  == {"none", "ok", "failed", "cancelled"}

\* A run that acquired the lease, up to its release.
Leased  == {"plan", "overload", "render", "send", "confirm", "complete", "finally"}
Owner(r) == runAt[r] \in Leased

FactoryTypeOK ==
  /\ lease \in BOOLEAN
  /\ row \in [Files -> [state : {"none", "sending", "delivered"}, print : Prints \cup {NoPrint}]]
  /\ inChat \in [Files -> Nat]
  /\ job \in [status : {"none", "scheduled", "running"} \cup Terminal,
              windows : 0..Windows,
              stopped : BOOLEAN, unreported : BOOLEAN]
  /\ runAt \in [Runs -> {"idle", "mode", "acquire", "report"} \cup Leased]
  /\ run \in [Runs -> [file : 1..(Artifacts + 1), print : Prints \cup {NoPrint}, sent : BOOLEAN, result : Results]]

NewRun == [file |-> 1, print |-> NoPrint, sent |-> FALSE, result |-> "none"]
NoRow  == [state |-> "none", print |-> NoPrint]

FactoryInit ==
  /\ lease = FALSE
  /\ row = [f \in Files |-> NoRow]
  /\ inChat = [f \in Files |-> 0]
  /\ job = [status |-> "none", windows |-> 0, stopped |-> FALSE, unreported |-> FALSE]
  /\ runAt = [r \in Runs |-> "idle"] /\ run = [r \in Runs |-> NewRun]

MoveTo(r, l) == runAt' = [runAt EXCEPT ![r] = l]

\* The run goes on at l with the local variables s, or it is cancelled.
Continue(r, l, s) ==
  \/ MoveTo(r, l) /\ run' = [run EXCEPT ![r] = s]
  \/ MoveTo(r, "finally") /\ run' = [run EXCEPT ![r] = [s EXCEPT !.result = "cancelled"]]

Fail(r, s) == Continue(r, "finally", [s EXCEPT !.result = "failed"])

Uncertain == \E f \in Files : row[f].state = "sending"

-----------------------------------------------------------------------------
(* The lease.                                                              *)

\* process_shorts_factory, up to the metadata.
StartFactory(r) ==
  /\ r \in Users /\ runAt[r] = "idle" /\ MoveTo(r, "acquire")
  /\ UNCHANGED <<lease, row, inChat, job, run>>

\* A run that ends without the lease: only the retry loop reports that.
Leave(r, result) ==
  /\ MoveTo(r, IF r = Deferred THEN "report" ELSE "idle")
  /\ run' = [run EXCEPT ![r] = [NewRun EXCEPT !.result = IF r = Deferred THEN result ELSE "none"]]

\* acquire_job_lease.  A run that is cancelled meanwhile never learns that the
\* lease is its own.
AcquireLease(r) ==
  /\ runAt[r] = "acquire" /\ lease' = TRUE
  /\ \/ ~lease /\ MoveTo(r, "plan") /\ UNCHANGED run
     \/ ~lease /\ Leave(r, "cancelled")
     \/ lease /\ Leave(r, "failed")
     \/ lease /\ Leave(r, "cancelled")
  /\ UNCHANGED <<row, inChat, job>>

\* release_job_lease, which may fail.
ReleaseLease(r) ==
  /\ runAt[r] = "finally" /\ Leave(r, run[r].result) /\ lease' \in {FALSE, lease}
  /\ UNCHANGED <<row, inChat, job>>

-----------------------------------------------------------------------------
(* The plan, and the overload of Gemini.                                   *)

\* The audio, the plan and the source video; an overload is told apart.
PlanFactory(r) ==
  /\ runAt[r] = "plan"
  /\ Continue(r, "render", run[r]) \/ Continue(r, "overload", run[r]) \/ Fail(r, run[r])
  /\ UNCHANGED <<lease, row, inChat, job>>

\* Mutant: the original request is not counted as a window.
OneMoreWindow ==
  IF job.status \in Terminal THEN UNCHANGED job
  ELSE \E s \in (IF job.windows < Windows THEN {"scheduled", "exhausted"} ELSE {"exhausted"}) :
         job' = [job EXCEPT !.status = s, !.windows = @ + 1]

\* record_real_overload: the next window, if there is one before the deadline.
NextWindow ==
  IF job.status \in Terminal THEN UNCHANGED job
  ELSE \E s \in (IF job.windows + 1 < Windows THEN {"scheduled", "exhausted"} ELSE {"exhausted"}) :
         job' = [job EXCEPT !.status = s, !.windows = @ + 1]

RecordOverload(r) ==
  /\ runAt[r] = "overload" /\ Fail(r, run[r])
  /\ NextWindow \/ UNCHANGED job
  /\ UNCHANGED <<lease, row, inChat>>

-----------------------------------------------------------------------------
(* send_once, for one file after the other.                                *)

NextFile(s, sent) == [s EXCEPT !.file = @ + 1, !.print = NoPrint, !.sent = @ \/ sent]

\* The next file, or none; a run that sent nothing has failed.
GoOn(r, s) ==
  IF s.file <= Artifacts THEN Continue(r, "render", s)
  ELSE IF s.sent THEN Continue(r, "complete", s)
  ELSE Fail(r, s)

\* Mutant: a send without a receipt counts as failed and is repeated.
FreshOrUnconfirmed(f) == row[f].state # "delivered"

FreshRow(f) == row[f].state = "none"

\* The file is rendered, or left out; _reserve writes down the intent to send it
\* and finds out whether it was sent before.
ReserveArtifact(r) ==
  /\ runAt[r] = "render"
  /\ LET f == run[r].file IN
     \/ GoOn(r, NextFile(run[r], FALSE)) /\ UNCHANGED row
     \/ \E p \in Prints :
          LET s == [run[r] EXCEPT !.print = p] IN
          \/ /\ FreshRow(f) /\ Continue(r, "send", s)
             /\ row' = [row EXCEPT ![f] = [state |-> "sending", print |-> p]]
          \/ /\ ~FreshRow(f) /\ row[f] = [state |-> "delivered", print |-> p]
             /\ GoOn(r, NextFile(s, TRUE)) /\ UNCHANGED row
          \/ /\ ~FreshRow(f) /\ row[f] # [state |-> "delivered", print |-> p]
             /\ Fail(r, s) /\ UNCHANGED row
  /\ UNCHANGED <<lease, inChat, job>>

\* The call of Telegram: what reports an error may have been carried out, and
\* what was cancelled, too.
SendArtifact(r) ==
  /\ runAt[r] = "send"
  /\ LET f == run[r].file IN
     \/ Continue(r, "confirm", run[r]) /\ inChat' = [inChat EXCEPT ![f] = @ + 1]
     \/ Fail(r, run[r]) /\ inChat' \in {inChat, [inChat EXCEPT ![f] = @ + 1]}
  /\ UNCHANGED <<lease, row, job>>

\* _confirm; if the database fails the run goes on with the next file.
ConfirmArtifact(r) ==
  /\ runAt[r] = "confirm"
  /\ LET f == run[r].file IN
     \/ /\ row[f] = [state |-> "sending", print |-> run[r].print]
        /\ row' = [row EXCEPT ![f].state = "delivered"] /\ GoOn(r, NextFile(run[r], TRUE))
     \/ /\ row[f] # [state |-> "sending", print |-> run[r].print]
        /\ Fail(r, run[r]) /\ UNCHANGED row
     \/ GoOn(r, NextFile(run[r], FALSE)) /\ UNCHANGED row
  /\ UNCHANGED <<lease, inChat, job>>

MarkCompleted == job' = [job EXCEPT !.status = IF @ = "none" THEN @ ELSE "done"]

\* Something was delivered: mark_completed, which may fail; then so does the run.
CompleteFactory(r) ==
  /\ runAt[r] = "complete"
  /\ \/ MarkCompleted /\ Continue(r, "finally", [run[r] EXCEPT !.result = "ok"])
     \/ UNCHANGED job /\ Fail(r, run[r])
  /\ UNCHANGED <<lease, row, inChat>>

-----------------------------------------------------------------------------
(* The retry loop.                                                         *)

\* claim_due: the job's deadline has passed.
ExpireDeferred ==
  /\ job.status = "scheduled" /\ runAt[Deferred] = "idle"
  /\ job' = [job EXCEPT !.status = "exhausted"]
  /\ UNCHANGED <<lease, row, inChat, runAt, run>>

\* claim_due: an uncertain send blocks the job; a lease postpones it.
ClaimDue ==
  /\ job.status = "scheduled" /\ runAt[Deferred] = "idle"
  /\ \/ Uncertain /\ job' = [job EXCEPT !.status = "blocked"] /\ UNCHANGED runAt
     \/ /\ ~Uncertain /\ ~lease /\ MoveTo(Deferred, "mode")
        /\ job' = [job EXCEPT !.status = "running", !.stopped = FALSE, !.unreported = FALSE]
  /\ UNCHANGED <<lease, row, inChat, run>>

\* The user may have chosen another mode, and the bot may be about to stop.
CheckMode ==
  /\ runAt[Deferred] = "mode"
  /\ \/ MoveTo(Deferred, "acquire") /\ UNCHANGED run
     \/ Leave(Deferred, "failed")
     \/ Leave(Deferred, "cancelled")
  /\ UNCHANGED <<lease, row, inChat, job>>

\* Mutant: the result of the run is not looked at.
NoReport ==
  /\ runAt[Deferred] = "report" /\ MoveTo(Deferred, "idle")
  /\ job' = [job EXCEPT !.stopped = run[Deferred].result = "cancelled"]
  /\ run' = [run EXCEPT ![Deferred] = NewRun] /\ UNCHANGED <<lease, row, inChat>>

MarkBlocked == job' = [job EXCEPT !.status = IF @ = "running" THEN "blocked" ELSE @]

\* _run_due_job marks the job after its run, unless that was cancelled.  A mark
\* that fails is followed by mark_blocked; if that fails, too, the retry loop
\* only logs it and turns to other jobs.
ReportDeferred ==
  /\ runAt[Deferred] = "report" /\ MoveTo(Deferred, "idle")
  /\ \/ run[Deferred].result = "cancelled" /\ job' = [job EXCEPT !.stopped = TRUE]
     \/ run[Deferred].result = "ok" /\ MarkCompleted
     \/ run[Deferred].result # "cancelled" /\ MarkBlocked
     \/ run[Deferred].result # "cancelled" /\ job' = [job EXCEPT !.unreported = TRUE]
  /\ run' = [run EXCEPT ![Deferred] = NewRun] /\ UNCHANGED <<lease, row, inChat>>

-----------------------------------------------------------------------------
(* A crash, and the operator, who acts on what no live run works at, and   *)
(* has looked into the chat before.                                        *)

CrashFactory ==
  /\ \E r \in Runs : runAt[r] # "idle"
  /\ runAt' = [r \in Runs |-> "idle"] /\ run' = [r \in Runs |-> NewRun]
  /\ job' = [job EXCEPT !.stopped = @ \/ runAt[Deferred] # "idle"]
  /\ UNCHANGED <<lease, row, inChat>>

Stopped == \A r \in Runs : ~Owner(r)

\* operator_reconcile_delivery.
ReconcileDelivery(f) ==
  /\ Stopped /\ row[f].state = "sending"
  /\ row' = [row EXCEPT ![f] = IF inChat[f] > 0 THEN [@ EXCEPT !.state = "delivered"] ELSE NoRow]
  /\ UNCHANGED <<lease, inChat, job, runAt, run>>

\* operator_release_stale_job_lease.
ReleaseStaleLease ==
  /\ Stopped /\ lease /\ lease' = FALSE
  /\ UNCHANGED <<row, inChat, job, runAt, run>>

CancelDeferred ==
  /\ job.status \in {"scheduled", "blocked"} /\ job' = [job EXCEPT !.status = "canceled"]
  /\ UNCHANGED <<lease, row, inChat, runAt, run>>

\* operator_reset_crashed_running.
ResetRunning ==
  /\ job.status = "running" /\ runAt[Deferred] = "idle" /\ ~lease /\ ~Uncertain
  /\ job' \in [status : {"scheduled", "exhausted"}, windows : {job.windows},
               stopped : {FALSE}, unreported : {FALSE}]
  /\ UNCHANGED <<lease, row, inChat, runAt, run>>

-----------------------------------------------------------------------------

RunStep(r) ==
  \/ AcquireLease(r) \/ PlanFactory(r) \/ RecordOverload(r) \/ ReserveArtifact(r)
  \/ SendArtifact(r) \/ ConfirmArtifact(r) \/ CompleteFactory(r) \/ ReleaseLease(r)

LoopStep == ExpireDeferred \/ ClaimDue \/ CheckMode \/ ReportDeferred

OperatorStep ==
  \/ \E f \in Files : ReconcileDelivery(f)
  \/ ReleaseStaleLease \/ CancelDeferred \/ ResetRunning

FactoryNext ==
  \/ \E r \in Runs : StartFactory(r) \/ RunStep(r)
  \/ LoopStep \/ CrashFactory \/ OperatorStep

FactorySpec == FactoryInit /\ [][FactoryNext]_factoryVars

\* Runs go on and end, their calls have timeouts; the retry loop polls, and the
\* deadline of a job passes.
FactoryFairness ==
  /\ \A r \in Runs : WF_factoryVars(RunStep(r))
  /\ WF_factoryVars(ExpireDeferred) /\ WF_factoryVars(CheckMode \/ ReportDeferred)

FactoryFairSpec == FactorySpec /\ FactoryFairness

-----------------------------------------------------------------------------
(* Properties.                                                             *)

\* Whatever crashes, is cancelled, times out or runs at the same time, the user
\* gets each file at most once, and the ledger never claims a delivery that did
\* not happen.
SentAtMostOnce ==
  \A f \in Files : inChat[f] <= 1 /\ (row[f].state = "delivered" => inChat[f] = 1)

\* A deferred job comes to an end unless its run was cut short, by a stop or a
\* crash, or neither the end of its run nor that it is blocked could be written
\* down; then the operator has to decide.
DeferredJobSettles ==
  []<>(job.status \notin {"scheduled", "running"} \/ job.stopped \/ job.unreported)
=============================================================================
