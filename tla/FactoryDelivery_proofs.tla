----------------------- MODULE FactoryDelivery_proofs -----------------------
(***************************************************************************)
(* What holds of the Shorts Factory's ledger for every number of runs,     *)
(* files, fingerprints and retry windows, and what becomes of its jobs.    *)
(***************************************************************************)
EXTENDS FactoryDelivery, TLAPS

Places == {"idle", "mode", "acquire", "report"} \cup Leased
Locals == [file : 1..(Artifacts + 1), print : Prints \cup {NoPrint}, sent : BOOLEAN, result : Results]

-----------------------------------------------------------------------------
(* The inductive invariant, one part per piece of state.                   *)

\* The lease is there while a run owns it, and it has one owner.
OwnersHold == \A r \in Runs : Owner(r) => lease
OneOwner   == \A r, s \in Runs : Owner(r) /\ Owner(s) => r = s

\* A run starts with the first file and handles only files that there are.
FileFits(l, s) ==
  /\ l \in {"idle", "mode", "acquire", "plan"} => s.file = 1
  /\ l \in {"render", "send", "confirm"} => s.file \in Files

RunsInv ==
  /\ lease \in BOOLEAN /\ runAt \in [Runs -> Places] /\ run \in [Runs -> Locals]
  /\ OwnersHold /\ OneOwner
  /\ \A r \in Runs : FileFits(runAt[r], run[r])

\* The intent of an owner that sends or confirms is in the ledger, and no
\* message of another run got in between.
Intended(l, s, ledger, messages) ==
  /\ l \in {"send", "confirm"} => ledger[s.file] = [state |-> "sending", print |-> s.print]
  /\ l = "send" => messages[s.file] = 0
  /\ l = "confirm" => messages[s.file] = 1

IntentIsWritten == \A r \in Runs : Intended(runAt[r], run[r], row, inChat)

\* What the ledger says of a file and what the user has of it.
LedgerInv ==
  /\ row \in [Files -> [state : {"none", "sending", "delivered"}, print : Prints \cup {NoPrint}]]
  /\ inChat \in [Files -> Nat]
  /\ \A f \in Files :
       /\ row[f].state = "none" => inChat[f] = 0
       /\ row[f].state = "sending" => inChat[f] \in {0, 1}
       /\ row[f].state = "delivered" => inChat[f] = 1

\* A job that goes on has windows left.
JobInv ==
  /\ job \in [status : {"none", "scheduled", "running"} \cup Terminal,
              windows : 0..Windows, stopped : BOOLEAN, unreported : BOOLEAN]
  /\ job.status \notin Terminal => job.windows < Windows

FactoryInv == RunsInv /\ IntentIsWritten /\ LedgerInv /\ JobInv

LEMMA InvariantSuffices == FactoryInv => FactoryTypeOK /\ SentAtMostOnce
  BY DEF FactoryInv, RunsInv, LedgerInv, JobInv, FactoryTypeOK, SentAtMostOnce, Places, Locals

LEMMA InitHolds == FactoryInit => FactoryInv
<1>. SUFFICES ASSUME FactoryInit PROVE FactoryInv
  OBVIOUS
<1>. USE FactoryAssumption DEF FactoryInit
<1>1. NewRun \in Locals /\ NewRun.file = 1
  BY DEF NewRun, Locals, Results
<1>2. \A r \in Runs : runAt[r] = "idle" /\ run[r] = NewRun
  OBVIOUS
<1>3. RunsInv
  BY <1>1, <1>2 DEF RunsInv, Places, OwnersHold, OneOwner, Owner, Leased, FileFits
<1>4. IntentIsWritten
  BY <1>2 DEF IntentIsWritten, Intended
<1>5. LedgerInv
  BY DEF LedgerInv, NoRow
<1>6. JobInv
  BY DEF JobInv, Terminal
<1>. QED BY <1>3, <1>4, <1>5, <1>6 DEF FactoryInv

-----------------------------------------------------------------------------
(* A step of one run, in general.                                          *)

FileMoves(r, l, s) == runAt' = [runAt EXCEPT ![r] = l] /\ run' = [run EXCEPT ![r] = s]

LEMMA MovesOthers ==
  ASSUME RunsInv, NEW r \in Runs, NEW l \in Places, NEW s \in Locals, FileMoves(r, l, s)
  PROVE  /\ runAt' \in [Runs -> Places] /\ run' \in [Runs -> Locals]
         /\ runAt'[r] = l /\ run'[r] = s
         /\ \A q \in Runs \ {r} : runAt'[q] = runAt[q] /\ run'[q] = run[q]
  BY DEF FileMoves, RunsInv

\* The owner of the lease moves and keeps it.
LEMMA OwnerMoves ==
  ASSUME RunsInv, IntentIsWritten, NEW r \in Runs, NEW l \in Places, NEW s \in Locals,
         FileMoves(r, l, s), Owner(r), FileFits(l, s), Intended(l, s, row', inChat'), lease' = lease
  PROVE  RunsInv' /\ IntentIsWritten'
<1>1. /\ runAt' \in [Runs -> Places] /\ run' \in [Runs -> Locals]
      /\ runAt'[r] = l /\ run'[r] = s
      /\ \A q \in Runs \ {r} : runAt'[q] = runAt[q] /\ run'[q] = run[q]
  BY MovesOthers
<1>2. lease /\ \A q \in Runs \ {r} : runAt[q] \notin Leased
  BY DEF RunsInv, OwnersHold, OneOwner, Owner
<1>3. OwnersHold' /\ OneOwner'
  BY <1>1, <1>2 DEF OwnersHold, OneOwner, Owner
<1>4. \A q \in Runs : FileFits(runAt'[q], run'[q])
  BY <1>1 DEF RunsInv, FileFits
<1>5. IntentIsWritten'
  BY <1>1, <1>2 DEF IntentIsWritten, Intended, Leased
<1>. QED BY <1>1, <1>2, <1>3, <1>4, <1>5 DEF RunsInv

\* A run that does not own the lease moves to a place without it.
LEMMA OutsiderMoves ==
  ASSUME RunsInv, IntentIsWritten, NEW r \in Runs, NEW l \in Places \ Leased, NEW s \in Locals,
         FileMoves(r, l, s), FileFits(l, s), UNCHANGED <<row, inChat>>,
         lease' \in BOOLEAN, Owner(r) \/ (lease => lease')
  PROVE  RunsInv' /\ IntentIsWritten'
<1>1. /\ runAt' \in [Runs -> Places] /\ run' \in [Runs -> Locals]
      /\ runAt'[r] = l /\ run'[r] = s
      /\ \A q \in Runs \ {r} : runAt'[q] = runAt[q] /\ run'[q] = run[q]
  BY MovesOthers
<1>2. OwnersHold' /\ OneOwner'
  BY <1>1 DEF RunsInv, OwnersHold, OneOwner, Owner
<1>3. \A q \in Runs : FileFits(runAt'[q], run'[q])
  BY <1>1 DEF RunsInv, FileFits
<1>4. IntentIsWritten'
  BY <1>1 DEF IntentIsWritten, Intended, Leased
<1>. QED BY <1>1, <1>2, <1>3, <1>4 DEF RunsInv

\* The owner goes on, or is cancelled.
LEMMA OwnerContinues ==
  ASSUME RunsInv, IntentIsWritten, NEW r \in Runs, NEW l \in Leased, NEW s \in Locals,
         Continue(r, l, s), Owner(r), FileFits(l, s), Intended(l, s, row', inChat'), lease' = lease
  PROVE  RunsInv' /\ IntentIsWritten'
<1>1. CASE FileMoves(r, l, s)
  BY <1>1, OwnerMoves DEF Places
<1>2. CASE FileMoves(r, "finally", [s EXCEPT !.result = "cancelled"])
  <2>1. [s EXCEPT !.result = "cancelled"] \in Locals
    BY DEF Locals, Results
  <2>2. "finally" \in Places /\ FileFits("finally", [s EXCEPT !.result = "cancelled"])
    BY DEF Places, Leased, FileFits
  <2>3. Intended("finally", [s EXCEPT !.result = "cancelled"], row', inChat')
    BY DEF Intended
  <2>. QED BY <1>2, <2>1, <2>2, <2>3, OwnerMoves
<1>. QED BY <1>1, <1>2 DEF Continue, FileMoves, MoveTo

LEMMA OwnerFails ==
  ASSUME RunsInv, IntentIsWritten, NEW r \in Runs, NEW s \in Locals,
         Fail(r, s), Owner(r), lease' = lease
  PROVE  RunsInv' /\ IntentIsWritten'
<1>1. [s EXCEPT !.result = "failed"] \in Locals
  BY DEF Locals, Results
<1>2. "finally" \in Leased /\ FileFits("finally", [s EXCEPT !.result = "failed"])
  BY DEF Leased, FileFits
<1>3. Intended("finally", [s EXCEPT !.result = "failed"], row', inChat')
  BY DEF Intended
<1>. QED BY <1>1, <1>2, <1>3, OwnerContinues DEF Fail

\* The owner goes on with the next file.
LEMMA OwnerGoesOn ==
  ASSUME RunsInv, IntentIsWritten, NEW r \in Runs, NEW s \in Locals,
         GoOn(r, s), Owner(r), lease' = lease
  PROVE  RunsInv' /\ IntentIsWritten'
<1>1. CASE s.file <= Artifacts /\ Continue(r, "render", s)
  <2>1. "render" \in Leased /\ FileFits("render", s) /\ Intended("render", s, row', inChat')
    BY <1>1, FactoryAssumption DEF Leased, FileFits, Intended, Files, Locals
  <2>. QED BY <1>1, <2>1, OwnerContinues
<1>2. CASE Continue(r, "complete", s)
  <2>1. "complete" \in Leased /\ FileFits("complete", s) /\ Intended("complete", s, row', inChat')
    BY DEF Leased, FileFits, Intended
  <2>. QED BY <1>2, <2>1, OwnerContinues
<1>3. CASE Fail(r, s)
  BY <1>3, OwnerFails
<1>. QED BY <1>1, <1>2, <1>3 DEF GoOn

-----------------------------------------------------------------------------
(* The steps of a run.                                                     *)

LEMMA RunStays == ASSUME RunsInv, NEW r \in Runs PROVE run = [run EXCEPT ![r] = run[r]]
  BY DEF RunsInv

LEMMA LedgerStays == ASSUME LedgerInv, UNCHANGED <<row, inChat>> PROVE LedgerInv'
  BY DEF LedgerInv

LEMMA JobStays == ASSUME JobInv, UNCHANGED job PROVE JobInv'
  BY DEF JobInv

LEMMA LeaveMoves ==
  ASSUME RunsInv, NEW r \in Runs, NEW result \in Results, Leave(r, result)
  PROVE  \E l \in Places \ Leased, s \in Locals : FileMoves(r, l, s) /\ FileFits(l, s)
<1>. DEFINE l == IF r = Deferred THEN "report" ELSE "idle"
            x == IF r = Deferred THEN result ELSE "none"
            s == [NewRun EXCEPT !.result = x]
<1>1. l \in Places \ Leased
  BY DEF Places, Leased
<1>2. s \in Locals /\ s.file = 1
  <2>1. x \in Results
    BY DEF Results
  <2>2. NewRun \in Locals /\ NewRun.file = 1
    BY FactoryAssumption DEF NewRun, Locals, Results
  <2>3. \A y \in Results : [NewRun EXCEPT !.result = y] \in Locals /\ [NewRun EXCEPT !.result = y].file = 1
    BY <2>2 DEF Locals
  <2>. HIDE DEF x
  <2>. QED BY <2>1, <2>3
<1>3. FileMoves(r, l, s)
  BY DEF Leave, MoveTo, FileMoves
<1>4. FileFits(l, s)
  BY <1>2 DEF FileFits
<1>. QED BY <1>1, <1>2, <1>3, <1>4

LEMMA NextFileFits ==
  ASSUME NEW s \in Locals, s.file \in Files, NEW b \in BOOLEAN
  PROVE  NextFile(s, b) \in Locals
<1>1. s.file + 1 \in 1..(Artifacts + 1)
  BY FactoryAssumption DEF Files
<1>2. \A w \in BOOLEAN : [s EXCEPT !.file = @ + 1, !.print = NoPrint, !.sent = w] \in Locals
  BY <1>1 DEF Locals
<1>3. (s.sent \/ b) \in BOOLEAN
  OBVIOUS
<1>. QED BY <1>2, <1>3, Zenon DEF NextFile

LEMMA StartFactoryStep == ASSUME FactoryInv, NEW r \in Runs, StartFactory(r) PROVE FactoryInv'
<1>1. run[r] \in Locals /\ FileFits("acquire", run[r]) /\ "acquire" \in Places \ Leased
  BY DEF FactoryInv, RunsInv, StartFactory, FileFits, Places, Leased
<1>2. FileMoves(r, "acquire", run[r]) /\ lease' = lease /\ lease \in BOOLEAN
  BY RunStays DEF FactoryInv, RunsInv, StartFactory, FileMoves, MoveTo
<1>. QED BY <1>1, <1>2, OutsiderMoves, LedgerStays, JobStays DEF FactoryInv, StartFactory

LEMMA AcquireLeaseStep == ASSUME FactoryInv, NEW r \in Runs, AcquireLease(r) PROVE FactoryInv'
<1>. USE DEF FactoryInv
<1>1. CASE ~lease /\ MoveTo(r, "plan") /\ UNCHANGED run
  <2>1. /\ runAt' = [runAt EXCEPT ![r] = "plan"] /\ run' = run /\ lease'
        /\ runAt[r] = "acquire"
    BY <1>1 DEF AcquireLease, MoveTo
  <2>2. \A q \in Runs : runAt[q] \notin Leased
    BY <1>1 DEF RunsInv, OwnersHold, Owner
  <2>3. /\ runAt' \in [Runs -> Places] /\ runAt'[r] = "plan"
        /\ \A q \in Runs \ {r} : runAt'[q] = runAt[q]
    BY <2>1 DEF RunsInv, Places, Leased
  <2>4. OwnersHold' /\ OneOwner'
    BY <2>1, <2>2, <2>3 DEF OwnersHold, OneOwner, Owner
  <2>5. \A q \in Runs : FileFits(runAt'[q], run'[q])
    BY <2>1, <2>3 DEF RunsInv, FileFits
  <2>6. IntentIsWritten'
    BY <2>1, <2>3 DEF IntentIsWritten, Intended, AcquireLease
  <2>. QED BY <2>1, <2>3, <2>4, <2>5, <2>6, LedgerStays, JobStays DEF RunsInv, AcquireLease
<1>2. CASE \E result \in {"failed", "cancelled"} : Leave(r, result)
  <2>1. PICK l \in Places \ Leased, s \in Locals : FileMoves(r, l, s) /\ FileFits(l, s)
    BY <1>2, LeaveMoves DEF Results
  <2>. QED BY <2>1, OutsiderMoves, LedgerStays, JobStays DEF AcquireLease
<1>. QED BY <1>1, <1>2 DEF AcquireLease

LEMMA ReleaseLeaseStep == ASSUME FactoryInv, NEW r \in Runs, ReleaseLease(r) PROVE FactoryInv'
<1>. USE DEF FactoryInv
<1>1. Owner(r) /\ run[r].result \in Results /\ lease' \in BOOLEAN
  BY DEF ReleaseLease, Owner, Leased, RunsInv, Locals
<1>2. PICK l \in Places \ Leased, s \in Locals : FileMoves(r, l, s) /\ FileFits(l, s)
  BY <1>1, LeaveMoves DEF ReleaseLease
<1>. QED BY <1>1, <1>2, OutsiderMoves, LedgerStays, JobStays DEF ReleaseLease

LEMMA PlanFactoryStep == ASSUME FactoryInv, NEW r \in Runs, PlanFactory(r) PROVE FactoryInv'
<1>. USE DEF FactoryInv
<1>1. Owner(r) /\ run[r] \in Locals /\ run[r].file = 1 /\ 1 \in Files /\ UNCHANGED <<lease, row, inChat, job>>
  BY FactoryAssumption DEF PlanFactory, Owner, Leased, RunsInv, FileFits, Files
<1>2. \A l \in {"render", "overload"} :
         l \in Leased /\ FileFits(l, run[r]) /\ Intended(l, run[r], row', inChat')
  BY <1>1 DEF Leased, FileFits, Intended
<1>3. RunsInv' /\ IntentIsWritten'
  BY <1>1, <1>2, OwnerContinues, OwnerFails DEF PlanFactory
<1>. QED BY <1>1, <1>3, LedgerStays, JobStays

LEMMA RecordOverloadStep == ASSUME FactoryInv, NEW r \in Runs, RecordOverload(r) PROVE FactoryInv'
<1>. USE DEF FactoryInv
<1>1. Owner(r) /\ run[r] \in Locals /\ UNCHANGED <<lease, row, inChat>>
  BY DEF RecordOverload, Owner, Leased, RunsInv
<1>2. RunsInv' /\ IntentIsWritten'
  BY <1>1, OwnerFails DEF RecordOverload
<1>3. JobInv'
  <2>1. CASE UNCHANGED job
    BY <2>1, JobStays
  <2>2. CASE NextWindow /\ job.status \in Terminal
    BY <2>2, JobStays DEF NextWindow
  <2>3. CASE NextWindow /\ job.status \notin Terminal
    <3>1. job.windows + 1 \in 0..Windows
      BY <2>3, FactoryAssumption DEF JobInv
    <3>2. PICK st \in {"scheduled", "exhausted"} :
            /\ st = "scheduled" => job.windows + 1 < Windows
            /\ job' = [job EXCEPT !.status = st, !.windows = @ + 1]
      BY <2>3 DEF NextWindow
    <3>. QED BY <3>1, <3>2 DEF JobInv, Terminal
  <2>. QED BY <2>1, <2>2, <2>3 DEF RecordOverload
<1>. QED BY <1>1, <1>2, <1>3, LedgerStays

LEMMA ReserveArtifactStep == ASSUME FactoryInv, NEW r \in Runs, ReserveArtifact(r) PROVE FactoryInv'
<1>. USE DEF FactoryInv
<1>. DEFINE f == run[r].file
<1>1. /\ Owner(r) /\ run[r] \in Locals /\ f \in Files /\ UNCHANGED <<lease, inChat, job>>
  BY DEF ReserveArtifact, Owner, Leased, RunsInv, FileFits
<1>2. \A p \in Prints : [run[r] EXCEPT !.print = p] \in Locals
  BY <1>1 DEF Locals
<1>3. \A s \in Locals : s.file = f => \A b \in BOOLEAN : NextFile(s, b) \in Locals
  BY <1>1, NextFileFits
<1>4. CASE GoOn(r, NextFile(run[r], FALSE)) /\ UNCHANGED row
  BY <1>1, <1>3, <1>4, OwnerGoesOn, LedgerStays, JobStays
<1>5. ASSUME NEW p \in Prints, FreshRow(f), Continue(r, "send", [run[r] EXCEPT !.print = p]),
             row' = [row EXCEPT ![f] = [state |-> "sending", print |-> p]]
      PROVE  FactoryInv'
  <2>. DEFINE s == [run[r] EXCEPT !.print = p]
  <2>1. s.file = f /\ s.print = p /\ s \in Locals /\ "send" \in Leased
    BY <1>1, <1>2 DEF Leased, Locals
  <2>2. inChat[f] = 0 /\ row'[f] = [state |-> "sending", print |-> p]
    BY <1>1, <1>5 DEF LedgerInv, FreshRow
  <2>3. FileFits("send", s) /\ Intended("send", s, row', inChat')
    BY <1>1, <2>1, <2>2 DEF FileFits, Intended
  <2>4. RunsInv' /\ IntentIsWritten'
    BY <1>1, <1>5, <2>1, <2>3, OwnerContinues
  <2>5. LedgerInv'
    BY <1>1, <1>5, <2>2 DEF LedgerInv
  <2>. QED BY <1>1, <2>4, <2>5, JobStays
<1>6. ASSUME NEW p \in Prints, GoOn(r, NextFile([run[r] EXCEPT !.print = p], TRUE)), UNCHANGED row
      PROVE  FactoryInv'
  <2>1. NextFile([run[r] EXCEPT !.print = p], TRUE) \in Locals
    BY <1>1, <1>2, <1>3 DEF Locals
  <2>. QED BY <1>1, <1>6, <2>1, OwnerGoesOn, LedgerStays, JobStays
<1>7. ASSUME NEW p \in Prints, Fail(r, [run[r] EXCEPT !.print = p]), UNCHANGED row
      PROVE  FactoryInv'
  BY <1>1, <1>2, <1>7, OwnerFails, LedgerStays, JobStays
<1>. QED BY <1>4, <1>5, <1>6, <1>7 DEF ReserveArtifact

LEMMA SendArtifactStep == ASSUME FactoryInv, NEW r \in Runs, SendArtifact(r) PROVE FactoryInv'
<1>. USE DEF FactoryInv
<1>. DEFINE f == run[r].file
<1>1. /\ Owner(r) /\ run[r] \in Locals /\ f \in Files /\ UNCHANGED <<lease, row, job>>
      /\ row[f] = [state |-> "sending", print |-> run[r].print] /\ inChat[f] = 0
      /\ FileFits("confirm", run[r])
  BY DEF SendArtifact, Owner, Leased, RunsInv, FileFits, IntentIsWritten, Intended
<1>2. inChat' \in {inChat, [inChat EXCEPT ![f] = @ + 1]}
  BY DEF SendArtifact
<1>3. LedgerInv'
  BY <1>1, <1>2 DEF LedgerInv
<1>4. CASE Continue(r, "confirm", run[r]) /\ inChat' = [inChat EXCEPT ![f] = @ + 1]
  <2>1. Intended("confirm", run[r], row', inChat') /\ "confirm" \in Leased
    BY <1>1, <1>4 DEF Intended, Leased, LedgerInv
  <2>. QED BY <1>1, <1>3, <1>4, <2>1, OwnerContinues, JobStays
<1>5. CASE Fail(r, run[r])
  BY <1>1, <1>3, <1>5, OwnerFails, JobStays
<1>. QED BY <1>4, <1>5 DEF SendArtifact

LEMMA ConfirmArtifactStep == ASSUME FactoryInv, NEW r \in Runs, ConfirmArtifact(r) PROVE FactoryInv'
<1>. USE DEF FactoryInv
<1>. DEFINE f == run[r].file
<1>1. /\ Owner(r) /\ run[r] \in Locals /\ f \in Files /\ UNCHANGED <<lease, inChat, job>>
      /\ row[f] = [state |-> "sending", print |-> run[r].print] /\ inChat[f] = 1
  BY DEF ConfirmArtifact, Owner, Leased, RunsInv, FileFits, IntentIsWritten, Intended
<1>2. \A b \in BOOLEAN : NextFile(run[r], b) \in Locals
  BY <1>1, NextFileFits
<1>3. CASE row' = [row EXCEPT ![f].state = "delivered"] /\ GoOn(r, NextFile(run[r], TRUE))
  <2>1. LedgerInv'
    BY <1>1, <1>3 DEF LedgerInv
  <2>. QED BY <1>1, <1>2, <1>3, <2>1, OwnerGoesOn, JobStays
<1>4. CASE GoOn(r, NextFile(run[r], FALSE)) /\ UNCHANGED row
  BY <1>1, <1>2, <1>4, OwnerGoesOn, LedgerStays, JobStays
<1>. QED BY <1>1, <1>3, <1>4 DEF ConfirmArtifact

LEMMA CompleteFactoryStep == ASSUME FactoryInv, NEW r \in Runs, CompleteFactory(r) PROVE FactoryInv'
<1>. USE DEF FactoryInv
<1>. DEFINE s == [run[r] EXCEPT !.result = "ok"]
<1>1. /\ Owner(r) /\ s \in Locals /\ UNCHANGED <<lease, row, inChat>>
  BY DEF CompleteFactory, Owner, Leased, RunsInv, Locals, Results
<1>2. "finally" \in Leased /\ FileFits("finally", s) /\ Intended("finally", s, row', inChat')
  BY DEF Leased, FileFits, Intended
<1>3. RunsInv' /\ IntentIsWritten'
  <2>1. CASE Continue(r, "finally", s)
    BY <1>1, <1>2, <2>1, OwnerContinues
  <2>2. CASE Fail(r, run[r])
    BY <1>1, <2>2, OwnerFails DEF RunsInv
  <2>. QED BY <2>1, <2>2 DEF CompleteFactory
<1>4. JobInv'
  BY DEF CompleteFactory, MarkCompleted, JobInv, Terminal
<1>. QED BY <1>1, <1>3, <1>4, LedgerStays

-----------------------------------------------------------------------------
(* The steps of the retry loop, of the operator, and the crash.            *)

LEMMA RunsStay ==
  ASSUME RunsInv, IntentIsWritten, UNCHANGED <<lease, row, inChat, runAt, run>>
  PROVE  RunsInv' /\ IntentIsWritten'
  BY DEF RunsInv, IntentIsWritten, Intended, OwnersHold, OneOwner, Owner, FileFits

LEMMA DeferredIsARun == Deferred \in Runs
  BY DEF Runs

LEMMA JobOnlyStep ==
  ASSUME FactoryInv, ExpireDeferred \/ CancelDeferred \/ ResetRunning
  PROVE  FactoryInv'
<1>1. JobInv'
  BY DEF FactoryInv, JobInv, ExpireDeferred, CancelDeferred, ResetRunning, Terminal
<1>2. UNCHANGED <<lease, row, inChat, runAt, run>>
  BY DEF ExpireDeferred, CancelDeferred, ResetRunning
<1>. QED BY <1>1, <1>2, RunsStay, LedgerStays DEF FactoryInv

LEMMA ClaimDueStep == ASSUME FactoryInv, ClaimDue PROVE FactoryInv'
<1>. USE DEF FactoryInv
<1>1. JobInv' /\ UNCHANGED <<lease, row, inChat, run>>
  BY DEF ClaimDue, JobInv, Terminal
<1>2. CASE UNCHANGED runAt
  BY <1>1, <1>2, RunsStay, LedgerStays
<1>3. CASE MoveTo(Deferred, "mode")
  <2>1. run[Deferred] \in Locals /\ FileFits("mode", run[Deferred]) /\ "mode" \in Places \ Leased
    BY DeferredIsARun DEF RunsInv, ClaimDue, FileFits, Places, Leased
  <2>2. FileMoves(Deferred, "mode", run[Deferred]) /\ lease \in BOOLEAN
    BY <1>1, <1>3, RunStays, DeferredIsARun DEF RunsInv, FileMoves, MoveTo
  <2>. QED BY <1>1, <2>1, <2>2, OutsiderMoves, LedgerStays, DeferredIsARun
<1>. QED BY <1>2, <1>3 DEF ClaimDue

LEMMA CheckModeStep == ASSUME FactoryInv, CheckMode PROVE FactoryInv'
<1>. USE DEF FactoryInv
<1>1. UNCHANGED <<lease, row, inChat, job>> /\ lease \in BOOLEAN
  BY DEF CheckMode, RunsInv
<1>2. CASE MoveTo(Deferred, "acquire") /\ UNCHANGED run
  <2>1. run[Deferred] \in Locals /\ FileFits("acquire", run[Deferred]) /\ "acquire" \in Places \ Leased
    BY DeferredIsARun DEF RunsInv, CheckMode, FileFits, Places, Leased
  <2>2. FileMoves(Deferred, "acquire", run[Deferred])
    BY <1>2, RunStays, DeferredIsARun DEF FileMoves, MoveTo
  <2>. QED BY <1>1, <2>1, <2>2, OutsiderMoves, LedgerStays, JobStays, DeferredIsARun
<1>3. CASE \E result \in {"failed", "cancelled"} : Leave(Deferred, result)
  <2>1. PICK l \in Places \ Leased, s \in Locals : FileMoves(Deferred, l, s) /\ FileFits(l, s)
    BY <1>3, LeaveMoves, DeferredIsARun DEF Results
  <2>. QED BY <1>1, <2>1, OutsiderMoves, LedgerStays, JobStays, DeferredIsARun
<1>. QED BY <1>2, <1>3 DEF CheckMode

LEMMA NewRunFits == NewRun \in Locals /\ FileFits("idle", NewRun)
  BY FactoryAssumption DEF NewRun, Locals, Results, FileFits

LEMMA ReportDeferredStep == ASSUME FactoryInv, ReportDeferred PROVE FactoryInv'
<1>. USE DEF FactoryInv
<1>1. FileMoves(Deferred, "idle", NewRun) /\ "idle" \in Places \ Leased
  BY DEF ReportDeferred, FileMoves, MoveTo, Places, Leased
<1>2. UNCHANGED <<lease, row, inChat>> /\ lease \in BOOLEAN
  BY DEF ReportDeferred, RunsInv
<1>3. JobInv'
  BY DEF ReportDeferred, MarkCompleted, MarkBlocked, JobInv, Terminal
<1>. QED BY <1>1, <1>2, <1>3, NewRunFits, OutsiderMoves, LedgerStays, DeferredIsARun

LEMMA CrashFactoryStep == ASSUME FactoryInv, CrashFactory PROVE FactoryInv'
<1>. USE DEF FactoryInv
<1>1. \A r \in Runs : runAt'[r] = "idle" /\ run'[r] = NewRun
  BY DEF CrashFactory
<1>2. RunsInv' /\ IntentIsWritten'
  BY <1>1, NewRunFits DEF CrashFactory, RunsInv, IntentIsWritten, Intended, OwnersHold, OneOwner,
     Owner, Leased, Places
<1>3. JobInv'
  BY DEF CrashFactory, JobInv
<1>. QED BY <1>2, <1>3, LedgerStays DEF CrashFactory

\* The operator acts while no run owns the lease.
LEMMA ReconcileDeliveryStep == ASSUME FactoryInv, NEW f \in Files, ReconcileDelivery(f) PROVE FactoryInv'
<1>. USE DEF FactoryInv
<1>1. \A r \in Runs : runAt[r] \notin Leased
  BY DEF ReconcileDelivery, Stopped, Owner
<1>2. RunsInv' /\ UNCHANGED <<lease, inChat, job, runAt, run>>
  BY DEF ReconcileDelivery, RunsInv, OwnersHold, OneOwner, Owner, FileFits
<1>3. IntentIsWritten'
  BY <1>1, <1>2 DEF IntentIsWritten, Intended, Leased
<1>4. LedgerInv'
  BY DEF ReconcileDelivery, LedgerInv, NoRow
<1>. QED BY <1>2, <1>3, <1>4, JobStays

LEMMA ReleaseStaleLeaseStep == ASSUME FactoryInv, ReleaseStaleLease PROVE FactoryInv'
<1>. USE DEF FactoryInv
<1>1. \A r \in Runs : ~Owner(r)
  BY DEF ReleaseStaleLease, Stopped
<1>2. RunsInv' /\ IntentIsWritten'
  BY <1>1 DEF ReleaseStaleLease, RunsInv, IntentIsWritten, Intended, OwnersHold, OneOwner, Owner,
     Leased, FileFits
<1>. QED BY <1>2, LedgerStays, JobStays DEF ReleaseStaleLease

LEMMA Stuttering == ASSUME FactoryInv, UNCHANGED factoryVars PROVE FactoryInv'
  BY RunsStay, LedgerStays, JobStays DEF FactoryInv, factoryVars

LEMMA NextKeepsInvariant == FactoryInv /\ [FactoryNext]_factoryVars => FactoryInv'
<1>. SUFFICES ASSUME FactoryInv, [FactoryNext]_factoryVars PROVE FactoryInv'
  OBVIOUS
<1>1. ASSUME NEW r \in Runs, StartFactory(r) \/ RunStep(r) PROVE FactoryInv'
  BY <1>1, StartFactoryStep, AcquireLeaseStep, PlanFactoryStep, RecordOverloadStep,
     ReserveArtifactStep, SendArtifactStep, ConfirmArtifactStep, CompleteFactoryStep,
     ReleaseLeaseStep DEF RunStep
<1>2. CASE LoopStep
  BY <1>2, JobOnlyStep, ClaimDueStep, CheckModeStep, ReportDeferredStep DEF LoopStep
<1>3. CASE OperatorStep
  BY <1>3, JobOnlyStep, ReconcileDeliveryStep, ReleaseStaleLeaseStep DEF OperatorStep
<1>. QED BY <1>1, <1>2, <1>3, CrashFactoryStep, Stuttering DEF FactoryNext

LEMMA InvariantHolds == FactorySpec => []FactoryInv
  BY InitHolds, NextKeepsInvariant, PTL DEF FactorySpec

-----------------------------------------------------------------------------
(* The results.                                                            *)

\* The types of the lease, the ledger, the calendar and the runs, among them
\* that the calendar never grants more windows than MAX_PROVIDER_WINDOWS.
THEOREM FactoryTypes == FactorySpec => []FactoryTypeOK
  BY InvariantHolds, InvariantSuffices, PTL

\* For every number of concurrent runs and files: whatever is cancelled,
\* crashes or loses its answer, send_once never delivers a file twice, and the
\* ledger claims no delivery that did not happen.
THEOREM FilesArriveOnce == FactorySpec => []SentAtMostOnce
  BY InvariantHolds, InvariantSuffices, PTL

\* The lease excludes: two runs never work for one video and chat at a time,
\* whatever the operator releases.
THEOREM LeaseExcludes == FactorySpec => []OneOwner
<1>1. FactoryInv => OneOwner
  BY DEF FactoryInv, RunsInv
<1>. QED BY <1>1, InvariantHolds, PTL

\* No step takes back a confirmed delivery.
DeliveriesStay ==
  [][\A f \in Files : row[f].state = "delivered" => row'[f] = row[f]]_factoryVars

\* _reserve refuses, _confirm and the operator touch only rows in 'sending'.
LEMMA DeliveredStep ==
  FactoryInv /\ [FactoryNext]_factoryVars
    => [\A f \in Files : row[f].state = "delivered" => row'[f] = row[f]]_factoryVars
<1>. SUFFICES ASSUME FactoryInv, FactoryNext, NEW f \in Files, row[f].state = "delivered"
              PROVE  row'[f] = row[f]
  OBVIOUS
<1>. USE DEF FactoryInv, LedgerInv
<1>1. CASE \E r \in Runs : ReserveArtifact(r)
  <2>1. PICK r \in Runs : ReserveArtifact(r)
    BY <1>1
  <2>2. CASE UNCHANGED row
    BY <2>2
  <2>3. CASE \E p \in Prints : /\ FreshRow(run[r].file)
                               /\ row' = [row EXCEPT ![run[r].file] = [state |-> "sending", print |-> p]]
    BY <2>3 DEF FreshRow
  <2>. QED BY <2>1, <2>2, <2>3 DEF ReserveArtifact
<1>2. CASE \E r \in Runs : ConfirmArtifact(r)
  <2>1. PICK r \in Runs : ConfirmArtifact(r)
    BY <1>2
  <2>2. CASE UNCHANGED row
    BY <2>2
  <2>3. CASE /\ row[run[r].file] = [state |-> "sending", print |-> run[r].print]
             /\ row' = [row EXCEPT ![run[r].file].state = "delivered"]
    <3>1. run[r].file # f
      BY <2>3
    <3>. QED BY <2>3, <3>1
  <2>. QED BY <2>1, <2>2, <2>3 DEF ConfirmArtifact
<1>3. CASE \E g \in Files : ReconcileDelivery(g)
  BY <1>3 DEF ReconcileDelivery
<1>4. CASE UNCHANGED row
  BY <1>4
<1>. QED BY <1>1, <1>2, <1>3, <1>4 DEF FactoryNext, RunStep, LoopStep, OperatorStep, StartFactory,
     AcquireLease, PlanFactory, RecordOverload, SendArtifact, CompleteFactory, ReleaseLease,
     ExpireDeferred, ClaimDue, CheckMode, ReportDeferred, CrashFactory, ReleaseStaleLease,
     CancelDeferred, ResetRunning

\* Whatever comes later, what the ledger says was delivered stays so.
THEOREM ConfirmedStays == FactorySpec => DeliveriesStay
  BY DeliveredStep, InvariantHolds, PTL DEF FactorySpec, DeliveriesStay

-----------------------------------------------------------------------------
(* What becomes of a deferred job, and the end of a run.                   *)

\* How many steps a run that is at l with the locals s has left at most: three
\* for a file, and those before and after them.
RunSteps(l, s) ==
  LET files == 3 * (Artifacts + 1 - s.file) IN
  CASE l = "idle" -> 0
    [] l = "report" -> 1
    [] l = "finally" -> 2
    [] l \in {"complete", "overload"} -> 3
    [] l = "confirm" -> 1 + files
    [] l = "send" -> 2 + files
    [] l = "render" -> 3 + files
    [] l = "plan" -> 4 + files
    [] l = "acquire" -> 5 + files
    [] OTHER -> 6 + files

RunStepsLeft(r) == RunSteps(runAt[r], run[r])

SomeDelivered == \E f \in Files : row[f].state = "delivered"

\* Does a run at l with the locals s say that something was delivered?
ClaimsDelivery(l, s) == s.sent \/ s.result = "ok" \/ l = "complete"

\* A run that takes a step comes nearer to its end, and says that something was
\* delivered only if it was; the deferred one ends with its report.
RunAdvances(r) ==
  \E l \in Places, s \in Locals :
    /\ FileMoves(r, l, s) /\ RunSteps(l, s) < RunStepsLeft(r)
    /\ ClaimsDelivery(l, s) => ClaimsDelivery(runAt[r], run[r]) \/ SomeDelivered'
    /\ r = Deferred /\ l = "idle" => runAt[r] = "report"

LEMMA RunStepsNat ==
  ASSUME NEW l \in Places, NEW s \in Locals
  PROVE  RunSteps(l, s) \in 0..(3 * Artifacts + 6)
<1>. DEFINE files == 3 * (Artifacts + 1 - s.file)
<1>1. s.file \in 1..(Artifacts + 1) /\ Artifacts \in Nat
  BY FactoryAssumption DEF Locals
<1>2. files \in 0..(3 * Artifacts)
  BY <1>1
<1>3. RunSteps(l, s) \in {0, 1, 2, 3, 1 + files, 2 + files, 3 + files, 4 + files, 5 + files, 6 + files}
  BY DEF RunSteps
<1>. HIDE DEF files
<1>. QED BY <1>1, <1>2, <1>3

LEMMA RunStepsLeftNat ==
  ASSUME RunsInv, NEW r \in Runs
  PROVE  RunStepsLeft(r) \in 0..(3 * Artifacts + 6) /\ RunStepsLeft(r) \in Nat
<1>1. runAt[r] \in Places /\ run[r] \in Locals
  BY DEF RunsInv
<1>. QED BY <1>1, RunStepsNat, FactoryAssumption DEF RunStepsLeft

LEMMA ContinueAdvances ==
  ASSUME RunsInv, NEW r \in Runs, NEW l \in Leased, NEW s \in Locals, Continue(r, l, s),
         RunSteps(l, s) < RunStepsLeft(r), 2 < RunStepsLeft(r),
         ClaimsDelivery(l, s) => ClaimsDelivery(runAt[r], run[r]) \/ SomeDelivered'
  PROVE  RunAdvances(r)
<1>. DEFINE c == [s EXCEPT !.result = "cancelled"]
<1>1. l \in Places /\ "finally" \in Places /\ l # "idle"
  BY DEF Places, Leased
<1>2. CASE FileMoves(r, l, s)
  BY <1>1, <1>2 DEF RunAdvances
<1>3. CASE FileMoves(r, "finally", c)
  <2>1. c \in Locals /\ RunSteps("finally", c) = 2
    BY DEF Locals, Results, RunSteps
  <2>2. ClaimsDelivery("finally", c) => ClaimsDelivery(l, s)
    BY DEF ClaimsDelivery, Locals
  <2>. QED BY <1>1, <1>3, <2>1, <2>2 DEF RunAdvances
<1>. QED BY <1>2, <1>3 DEF Continue, FileMoves, MoveTo

LEMMA FailAdvances ==
  ASSUME RunsInv, NEW r \in Runs, NEW s \in Locals, Fail(r, s), 2 < RunStepsLeft(r),
         s.sent => ClaimsDelivery(runAt[r], run[r]) \/ SomeDelivered'
  PROVE  RunAdvances(r)
<1>. DEFINE c == [s EXCEPT !.result = "failed"]
<1>1. c \in Locals /\ "finally" \in Leased /\ RunSteps("finally", c) = 2
  BY DEF Locals, Results, Leased, RunSteps
<1>2. ClaimsDelivery("finally", c) => s.sent
  BY DEF ClaimsDelivery, Locals
<1>. QED BY <1>1, <1>2, ContinueAdvances DEF Fail

LEMMA GoOnAdvances ==
  ASSUME RunsInv, NEW r \in Runs, NEW s \in Locals, GoOn(r, s), 3 < RunStepsLeft(r),
         RunSteps("render", s) < RunStepsLeft(r),
         s.sent \/ s.result = "ok" => ClaimsDelivery(runAt[r], run[r]) \/ SomeDelivered'
  PROVE  RunAdvances(r)
<1>1. "render" \in Leased /\ "complete" \in Leased /\ RunSteps("complete", s) = 3
  BY DEF Leased, RunSteps
<1>2. CASE Continue(r, "render", s)
  <2>1. RunStepsLeft(r) \in Nat
    BY RunStepsLeftNat
  <2>2. ClaimsDelivery("render", s) => s.sent \/ s.result = "ok"
    BY DEF ClaimsDelivery
  <2>. QED BY <1>1, <1>2, <2>1, <2>2, ContinueAdvances
<1>3. CASE s.sent /\ Continue(r, "complete", s)
  <2>1. RunStepsLeft(r) \in Nat
    BY RunStepsLeftNat
  <2>. QED BY <1>1, <1>3, <2>1, ContinueAdvances DEF ClaimsDelivery
<1>4. CASE Fail(r, s)
  <2>1. RunStepsLeft(r) \in Nat
    BY RunStepsLeftNat
  <2>. QED BY <1>4, <2>1, FailAdvances
<1>. QED BY <1>2, <1>3, <1>4 DEF GoOn

LEMMA LeaveAdvances ==
  ASSUME RunsInv, NEW r \in Runs, NEW result \in Results, Leave(r, result), 1 < RunStepsLeft(r),
         result = "ok" => ClaimsDelivery(runAt[r], run[r])
  PROVE  RunAdvances(r)
<1>. DEFINE l == IF r = Deferred THEN "report" ELSE "idle"
            x == IF r = Deferred THEN result ELSE "none"
            s == [NewRun EXCEPT !.result = x]
<1>1. l \in Places /\ (r = Deferred => l # "idle")
  BY DEF Places
<1>2. RunSteps(l, s) < RunStepsLeft(r)
  <2>1. RunStepsLeft(r) \in Nat /\ RunSteps(l, s) \in {0, 1}
    BY RunStepsLeftNat DEF RunSteps
  <2>. QED BY <2>1
<1>3. x \in Results
  BY DEF Results
<1>4. NewRun \in Locals /\ NewRun.sent = FALSE
  BY FactoryAssumption DEF NewRun, Locals, Results
<1>5. s \in Locals /\ s.sent = FALSE /\ s.result = x
  <2>. HIDE DEF x
  <2>. QED BY <1>3, <1>4 DEF Locals
<1>6. ClaimsDelivery(l, s) => ClaimsDelivery(runAt[r], run[r])
  BY <1>5 DEF ClaimsDelivery
<1>7. FileMoves(r, l, s)
  BY DEF Leave, MoveTo, FileMoves
<1>. HIDE DEF l, s
<1>. QED BY <1>1, <1>2, <1>5, <1>6, <1>7 DEF RunAdvances

LEMMA ReserveAdvances ==
  ASSUME FactoryInv, NEW r \in Runs, ReserveArtifact(r)
  PROVE  RunAdvances(r)
<1>. DEFINE f == run[r].file
            files == 3 * (Artifacts + 1 - f)
<1>1. RunsInv /\ run[r] \in Locals /\ f \in Files /\ runAt[r] = "render"
  BY DEF FactoryInv, RunsInv, FileFits, ReserveArtifact
<1>2. RunStepsLeft(r) = 3 + files /\ files \in Nat /\ files > 0
  <2>1. f \in 1..Artifacts /\ Artifacts \in Nat
    BY <1>1, FactoryAssumption DEF Files
  <2>. QED BY <1>1, <2>1 DEF RunStepsLeft, RunSteps
<1>3. ASSUME NEW s \in Locals, s.file = f, NEW b \in BOOLEAN
      PROVE  /\ NextFile(s, b) \in Locals /\ NextFile(s, b).sent = (s.sent \/ b)
             /\ NextFile(s, b).result = s.result
             /\ RunSteps("render", NextFile(s, b)) = files
  <2>1. NextFile(s, b) \in Locals
    BY <1>1, <1>3, NextFileFits
  <2>2. /\ NextFile(s, b).sent = (s.sent \/ b) /\ NextFile(s, b).result = s.result
        /\ NextFile(s, b).file = f + 1
    BY <1>3 DEF NextFile, Locals
  <2>3. 3 + 3 * (Artifacts + 1 - (f + 1)) = files
    BY <1>1, FactoryAssumption DEF Files
  <2>. QED BY <2>1, <2>2, <2>3 DEF RunSteps
<1>4. CASE GoOn(r, NextFile(run[r], FALSE))
  <2>. DEFINE s == NextFile(run[r], FALSE)
  <2>1. s \in Locals /\ RunSteps("render", s) = files /\ s.sent = (run[r].sent \/ FALSE)
        /\ s.result = run[r].result
    BY <1>1, <1>3
  <2>2. s.sent \/ s.result = "ok" => ClaimsDelivery(runAt[r], run[r])
    BY <2>1 DEF ClaimsDelivery
  <2>. HIDE DEF s, files, f
  <2>3. 3 < RunStepsLeft(r) /\ files < RunStepsLeft(r)
    BY <1>2
  <2>. QED BY <1>1, <1>4, <2>1, <2>2, <2>3, GoOnAdvances DEF s
<1>5. ASSUME NEW p \in Prints
      PROVE  [run[r] EXCEPT !.print = p] \in Locals /\ [run[r] EXCEPT !.print = p].file = f
             /\ [run[r] EXCEPT !.print = p].sent = run[r].sent
             /\ [run[r] EXCEPT !.print = p].result = run[r].result
  BY <1>1 DEF Locals
<1>6. ASSUME NEW p \in Prints, Continue(r, "send", [run[r] EXCEPT !.print = p])
      PROVE  RunAdvances(r)
  <2>. DEFINE s == [run[r] EXCEPT !.print = p]
  <2>1. s \in Locals /\ s.file = f /\ s.sent = run[r].sent /\ s.result = run[r].result
    BY <1>5
  <2>2. RunSteps("send", s) = 2 + files /\ "send" \in Leased
    BY <2>1 DEF RunSteps, Leased
  <2>3. ClaimsDelivery("send", s) => ClaimsDelivery(runAt[r], run[r])
    BY <2>1 DEF ClaimsDelivery
  <2>. HIDE DEF s, files, f
  <2>. QED BY <1>1, <1>2, <1>6, <2>1, <2>2, <2>3, ContinueAdvances DEF s
<1>7. ASSUME NEW p \in Prints, row[f] = [state |-> "delivered", print |-> p], UNCHANGED row,
             GoOn(r, NextFile([run[r] EXCEPT !.print = p], TRUE))
      PROVE  RunAdvances(r)
  <2>. DEFINE s == NextFile([run[r] EXCEPT !.print = p], TRUE)
  <2>1. s \in Locals /\ RunSteps("render", s) = files
    BY <1>3, <1>5
  <2>2. SomeDelivered'
    BY <1>1, <1>7 DEF SomeDelivered
  <2>. HIDE DEF s, files, f
  <2>3. 3 < RunStepsLeft(r) /\ files < RunStepsLeft(r)
    BY <1>2
  <2>. QED BY <1>1, <1>7, <2>1, <2>2, <2>3, GoOnAdvances DEF s
<1>8. ASSUME NEW p \in Prints, Fail(r, [run[r] EXCEPT !.print = p])
      PROVE  RunAdvances(r)
  <2>. DEFINE s == [run[r] EXCEPT !.print = p]
  <2>1. s \in Locals /\ (s.sent => ClaimsDelivery(runAt[r], run[r]))
    BY <1>5 DEF ClaimsDelivery
  <2>. HIDE DEF s, files, f
  <2>2. 2 < RunStepsLeft(r)
    BY <1>2
  <2>. QED BY <1>1, <1>8, <2>1, <2>2, FailAdvances DEF s
<1>. QED BY <1>4, <1>6, <1>7, <1>8 DEF ReserveArtifact

LEMMA ConfirmAdvances ==
  ASSUME FactoryInv, NEW r \in Runs, ConfirmArtifact(r)
  PROVE  RunAdvances(r)
<1>. DEFINE f == run[r].file
            files == 3 * (Artifacts + 1 - f)
            n(b) == NextFile(run[r], b)
<1>1. RunsInv /\ run[r] \in Locals /\ f \in Files /\ runAt[r] = "confirm"
  BY DEF FactoryInv, RunsInv, FileFits, ConfirmArtifact
<1>2. RunStepsLeft(r) = 1 + files /\ files \in Nat /\ files > 2
  <2>1. f \in 1..Artifacts /\ Artifacts \in Nat
    BY <1>1, FactoryAssumption DEF Files
  <2>. QED BY <1>1, <2>1 DEF RunStepsLeft, RunSteps
<1>3. ASSUME NEW b \in BOOLEAN
      PROVE  n(b) \in Locals /\ RunSteps("render", n(b)) = files
             /\ (~b => n(b).sent = run[r].sent) /\ n(b).result = run[r].result
  <2>1. n(b) \in Locals
    BY <1>1, NextFileFits
  <2>2. n(b).file = f + 1 /\ n(b).sent = (run[r].sent \/ b) /\ n(b).result = run[r].result
    BY <1>1 DEF NextFile, Locals
  <2>3. 3 + 3 * (Artifacts + 1 - (f + 1)) = files
    BY <1>1, FactoryAssumption DEF Files
  <2>4. run[r].sent \in BOOLEAN
    BY <1>1 DEF Locals
  <2>. QED BY <2>1, <2>2, <2>3, <2>4 DEF RunSteps
<1>4. CASE row' = [row EXCEPT ![f].state = "delivered"] /\ GoOn(r, n(TRUE))
  <2>1. SomeDelivered'
    BY <1>1, <1>4 DEF SomeDelivered, FactoryInv, LedgerInv
  <2>2. n(TRUE) \in Locals /\ RunSteps("render", n(TRUE)) = files
    BY <1>3
  <2>. HIDE DEF n, files, f
  <2>3. 3 < RunStepsLeft(r) /\ files < RunStepsLeft(r)
    BY <1>2
  <2>. QED BY <1>1, <1>4, <2>1, <2>2, <2>3, GoOnAdvances
<1>5. CASE Fail(r, run[r])
  BY <1>1, <1>2, <1>5, FailAdvances DEF ClaimsDelivery
<1>6. CASE GoOn(r, n(FALSE))
  <2>1. n(FALSE).sent \/ n(FALSE).result = "ok" => ClaimsDelivery(runAt[r], run[r])
    BY <1>3 DEF ClaimsDelivery
  <2>2. n(FALSE) \in Locals /\ RunSteps("render", n(FALSE)) = files
    BY <1>3
  <2>. HIDE DEF n, files, f
  <2>3. 3 < RunStepsLeft(r) /\ files < RunStepsLeft(r)
    BY <1>2
  <2>. QED BY <1>1, <1>6, <2>1, <2>2, <2>3, GoOnAdvances
<1>. QED BY <1>4, <1>5, <1>6 DEF ConfirmArtifact

\* A run that acts takes one of its steps to an end.
LEMMA RunStepAdvances ==
  ASSUME FactoryInv, NEW r \in Runs, RunStep(r)
  PROVE  RunAdvances(r)
<1>. DEFINE files == 3 * (Artifacts + 1 - run[r].file)
<1>1. RunsInv /\ run[r] \in Locals /\ run = [run EXCEPT ![r] = run[r]]
  BY DEF FactoryInv, RunsInv
<1>2. files \in Nat
  <2>1. run[r].file \in 1..(Artifacts + 1) /\ Artifacts \in Nat
    BY <1>1, FactoryAssumption DEF Locals
  <2>. QED BY <2>1
<1>3. CASE AcquireLease(r)
  <2>1. runAt[r] = "acquire" /\ RunStepsLeft(r) = 5 + files
    BY <1>3 DEF AcquireLease, RunStepsLeft, RunSteps
  <2>2. CASE MoveTo(r, "plan") /\ UNCHANGED run
    <3>1. FileMoves(r, "plan", run[r]) /\ "plan" \in Places
      BY <1>1, <2>2 DEF FileMoves, MoveTo, Places, Leased
    <3>2. RunSteps("plan", run[r]) = 4 + files
      BY DEF RunSteps
    <3>3. ClaimsDelivery("plan", run[r]) => ClaimsDelivery(runAt[r], run[r])
      BY DEF ClaimsDelivery
    <3>. QED BY <1>1, <1>2, <2>1, <3>1, <3>2, <3>3 DEF RunAdvances
  <2>3. CASE Leave(r, "cancelled") \/ Leave(r, "failed")
    BY <1>1, <1>2, <2>1, <2>3, LeaveAdvances DEF Results
  <2>. QED BY <1>3, <2>2, <2>3 DEF AcquireLease
<1>4. CASE PlanFactory(r)
  <2>1. runAt[r] = "plan" /\ RunStepsLeft(r) = 4 + files
    BY <1>4 DEF PlanFactory, RunStepsLeft, RunSteps
  <2>2. RunSteps("render", run[r]) = 3 + files /\ RunSteps("overload", run[r]) = 3
        /\ "render" \in Leased /\ "overload" \in Leased
    BY DEF RunSteps, Leased
  <2>3. CASE Continue(r, "render", run[r]) \/ Continue(r, "overload", run[r])
    <3>1. \A l \in {"render", "overload"} : ClaimsDelivery(l, run[r]) => ClaimsDelivery(runAt[r], run[r])
      BY DEF ClaimsDelivery
    <3>. QED BY <1>1, <1>2, <2>1, <2>2, <2>3, <3>1, ContinueAdvances
  <2>4. CASE Fail(r, run[r])
    BY <1>1, <1>2, <2>1, <2>4, FailAdvances DEF ClaimsDelivery
  <2>. QED BY <1>4, <2>3, <2>4 DEF PlanFactory
<1>5. CASE RecordOverload(r)
  <2>1. runAt[r] = "overload" /\ RunStepsLeft(r) = 3 /\ Fail(r, run[r])
    BY <1>5 DEF RecordOverload, RunStepsLeft, RunSteps
  <2>. QED BY <1>1, <2>1, FailAdvances DEF ClaimsDelivery
<1>6. CASE ReserveArtifact(r)
  BY <1>6, ReserveAdvances
<1>7. CASE SendArtifact(r)
  <2>1. runAt[r] = "send" /\ RunStepsLeft(r) = 2 + files /\ files > 0
    <3>1. run[r].file \in 1..Artifacts /\ Artifacts \in Nat
      BY <1>7, FactoryAssumption DEF SendArtifact, FactoryInv, RunsInv, FileFits, Files
    <3>. QED BY <1>7, <3>1 DEF SendArtifact, RunStepsLeft, RunSteps
  <2>2. RunSteps("confirm", run[r]) = 1 + files /\ "confirm" \in Leased
    BY DEF RunSteps, Leased
  <2>3. CASE Continue(r, "confirm", run[r])
    <3>1. ClaimsDelivery("confirm", run[r]) => ClaimsDelivery(runAt[r], run[r])
      BY DEF ClaimsDelivery
    <3>. QED BY <1>1, <1>2, <2>1, <2>2, <2>3, <3>1, ContinueAdvances
  <2>4. CASE Fail(r, run[r])
    BY <1>1, <1>2, <2>1, <2>4, FailAdvances DEF ClaimsDelivery
  <2>. QED BY <1>7, <2>3, <2>4 DEF SendArtifact
<1>8. CASE ConfirmArtifact(r)
  BY <1>8, ConfirmAdvances
<1>9. CASE CompleteFactory(r)
  <2>. DEFINE s == [run[r] EXCEPT !.result = "ok"]
  <2>1. runAt[r] = "complete" /\ RunStepsLeft(r) = 3
    BY <1>9 DEF CompleteFactory, RunStepsLeft, RunSteps
  <2>2. s \in Locals /\ RunSteps("finally", s) = 2 /\ "finally" \in Leased
    BY <1>1 DEF RunSteps, Leased, Locals, Results
  <2>3. ClaimsDelivery(runAt[r], run[r])
    BY <2>1 DEF ClaimsDelivery
  <2>4. CASE Fail(r, run[r])
    BY <1>1, <2>1, <2>4, FailAdvances DEF ClaimsDelivery
  <2>5. CASE Continue(r, "finally", s)
    <3>. HIDE DEF s
    <3>. QED BY <1>1, <2>1, <2>2, <2>3, <2>5, ContinueAdvances
  <2>. QED BY <1>9, <2>4, <2>5 DEF CompleteFactory
<1>10. CASE ReleaseLease(r)
  <2>1. runAt[r] = "finally" /\ RunStepsLeft(r) = 2 /\ Leave(r, run[r].result)
    BY <1>10 DEF ReleaseLease, RunStepsLeft, RunSteps
  <2>2. run[r].result \in Results
    BY <1>1 DEF Locals
  <2>3. run[r].result = "ok" => ClaimsDelivery(runAt[r], run[r])
    BY DEF ClaimsDelivery
  <2>. QED BY <1>1, <2>1, <2>2, <2>3, LeaveAdvances
<1>. QED BY <1>3, <1>4, <1>5, <1>6, <1>7, <1>8, <1>9, <1>10 DEF RunStep

\* So does the retry loop's run before the pipeline and after it.
LEMMA LoopAdvances ==
  ASSUME FactoryInv, CheckMode \/ ReportDeferred
  PROVE  RunAdvances(Deferred)
<1>. DEFINE r == Deferred
            files == 3 * (Artifacts + 1 - run[r].file)
<1>1. r \in Runs /\ RunsInv /\ run[r] \in Locals /\ run = [run EXCEPT ![r] = run[r]]
  BY DeferredIsARun DEF FactoryInv, RunsInv
<1>2. files \in Nat
  <2>1. run[r].file \in 1..(Artifacts + 1) /\ Artifacts \in Nat
    BY <1>1, FactoryAssumption DEF Locals
  <2>. QED BY <2>1
<1>3. CASE CheckMode
  <2>1. runAt[r] = "mode" /\ RunStepsLeft(r) = 6 + files
    BY <1>3 DEF CheckMode, RunStepsLeft, RunSteps
  <2>2. CASE MoveTo(r, "acquire") /\ UNCHANGED run
    <3>1. FileMoves(r, "acquire", run[r]) /\ "acquire" \in Places
      BY <1>1, <2>2 DEF FileMoves, MoveTo, Places
    <3>2. RunSteps("acquire", run[r]) = 5 + files
      BY DEF RunSteps
    <3>3. ClaimsDelivery("acquire", run[r]) => ClaimsDelivery(runAt[r], run[r])
      BY DEF ClaimsDelivery
    <3>. QED BY <1>1, <1>2, <2>1, <3>1, <3>2, <3>3 DEF RunAdvances
  <2>3. CASE Leave(r, "cancelled") \/ Leave(r, "failed")
    BY <1>1, <1>2, <2>1, <2>3, LeaveAdvances DEF Results
  <2>. QED BY <1>3, <2>2, <2>3 DEF CheckMode
<1>4. CASE ReportDeferred
  <2>1. runAt[r] = "report" /\ FileMoves(r, "idle", NewRun) /\ RunStepsLeft(r) = 1
    BY <1>4 DEF ReportDeferred, FileMoves, MoveTo, RunStepsLeft, RunSteps
  <2>2. NewRun \in Locals /\ RunSteps("idle", NewRun) = 0 /\ "idle" \in Places
    BY NewRunFits DEF RunSteps, Places
  <2>3. ~ClaimsDelivery("idle", NewRun)
    BY DEF ClaimsDelivery, NewRun
  <2>. QED BY <2>1, <2>2, <2>3 DEF RunAdvances
<1>. QED BY <1>3, <1>4

\* A run that was begun comes nearer to its end with each of its steps, and
\* nobody else puts it off: neither another run nor the operator.
RunsComeToAnEnd ==
  [][\A r \in Runs : runAt[r] # "idle" =>
       /\ RunStepsLeft(r)' <= RunStepsLeft(r)
       /\ RunStepsLeft(r)' = RunStepsLeft(r) => UNCHANGED <<runAt[r], run[r]>>]_factoryVars

\* What a step of one run leaves to the others.
LEMMA AdvancesAlone ==
  ASSUME FactoryInv, NEW r \in Runs, RunAdvances(r)
  PROVE  /\ RunStepsLeft(r)' < RunStepsLeft(r)
         /\ \A q \in Runs \ {r} : UNCHANGED <<runAt[q], run[q]>>
<1>1. PICK l \in Places, s \in Locals : FileMoves(r, l, s) /\ RunSteps(l, s) < RunStepsLeft(r)
  BY DEF RunAdvances
<1>2. RunsInv
  BY DEF FactoryInv
<1>3. runAt'[r] = l /\ run'[r] = s /\ \A q \in Runs \ {r} : runAt'[q] = runAt[q] /\ run'[q] = run[q]
  BY <1>1, <1>2, MovesOthers
<1>. QED BY <1>1, <1>3 DEF RunStepsLeft

\* The steps of the others: a start, a claim, a crash, and those that leave all
\* runs alone.
LEMMA OtherSteps ==
  ASSUME FactoryInv, [FactoryNext]_factoryVars
  PROVE  \/ \E r \in Runs : RunStep(r) /\ RunAdvances(r)
         \/ (CheckMode \/ ReportDeferred) /\ RunAdvances(Deferred)
         \/ \E r \in Runs \ {Deferred} : StartFactory(r)
         \/ ClaimDue
         \/ CrashFactory
         \/ UNCHANGED <<runAt, run>> /\ (ExpireDeferred \/ OperatorStep \/ UNCHANGED factoryVars)
<1>1. ASSUME NEW r \in Runs, StartFactory(r) PROVE r # Deferred
  BY <1>1, FactoryAssumption DEF StartFactory
<1>2. ExpireDeferred \/ OperatorStep \/ UNCHANGED factoryVars => UNCHANGED <<runAt, run>>
  BY DEF ExpireDeferred, OperatorStep, ReconcileDelivery, ReleaseStaleLease, CancelDeferred,
     ResetRunning, factoryVars
<1>. QED BY <1>1, <1>2, RunStepAdvances, LoopAdvances DEF FactoryNext, LoopStep

\* The rows of the ledger's delivered files stay, so that somebody who saw one is
\* right for ever.
LEMMA SomeDeliveredStays ==
  ASSUME FactoryInv, [FactoryNext]_factoryVars, SomeDelivered
  PROVE  SomeDelivered'
  BY DeliveredStep DEF SomeDelivered, factoryVars

\* Every call of process_shorts_factory ends after at most three steps for each
\* file and six others, whatever other runs, the retry loop and the operator do.
THEOREM RunsRunOut ==
  FactorySpec =>
    RunsComeToAnEnd /\ [](\A r \in Runs : RunStepsLeft(r) \in 0..(3 * Artifacts + 6))
<1>1. FactoryInv => \A r \in Runs : RunStepsLeft(r) \in 0..(3 * Artifacts + 6)
  BY RunStepsLeftNat DEF FactoryInv
<1>2. ASSUME FactoryInv, [FactoryNext]_factoryVars, NEW r \in Runs, runAt[r] # "idle"
      PROVE  /\ RunStepsLeft(r)' <= RunStepsLeft(r)
             /\ RunStepsLeft(r)' = RunStepsLeft(r) => UNCHANGED <<runAt[r], run[r]>>
  <2>1. RunStepsLeft(r) \in Nat
    BY <1>2, RunStepsLeftNat DEF FactoryInv
  <2>2. CASE UNCHANGED <<runAt[r], run[r]>>
    <3>1. RunStepsLeft(r)' = RunStepsLeft(r)
      BY <2>2 DEF RunStepsLeft
    <3>. QED BY <2>1, <2>2, <3>1
  <2>3. ASSUME NEW q \in Runs, RunAdvances(q)
        PROVE  UNCHANGED <<runAt[r], run[r]>> \/ RunStepsLeft(r)' < RunStepsLeft(r)
    BY <1>2, <2>3, AdvancesAlone
  <2>4. CASE RunStepsLeft(r)' < RunStepsLeft(r)
    <3>1. RunStepsLeft(r)' \in Nat
      <4>1. FactoryInv'
        BY <1>2, NextKeepsInvariant
      <4>2. runAt'[r] \in Places /\ run'[r] \in Locals
        BY <4>1 DEF FactoryInv, RunsInv
      <4>. QED BY <4>2, RunStepsNat, FactoryAssumption DEF RunStepsLeft
    <3>. QED BY <2>1, <2>4, <3>1
  <2>5. CASE \E q \in Runs \ {Deferred} : StartFactory(q)
    <3>1. PICK q \in Runs : StartFactory(q)
      BY <2>5
    <3>2. UNCHANGED <<runAt[r], run[r]>>
      BY <1>2, <3>1 DEF StartFactory, MoveTo, FactoryInv, RunsInv
    <3>. QED BY <2>2, <3>2
  <2>6. CASE ClaimDue
    <3>1. UNCHANGED <<runAt[r], run[r]>>
      BY <1>2, <2>6 DEF ClaimDue, MoveTo, FactoryInv, RunsInv
    <3>. QED BY <2>2, <3>1
  <2>7. CASE CrashFactory
    <3>1. runAt'[r] = "idle"
      BY <2>7 DEF CrashFactory
    <3>2. RunStepsLeft(r)' = 0
      BY <3>1 DEF RunStepsLeft, RunSteps
    <3>3. RunStepsLeft(r) # 0
      <4>. DEFINE files == 3 * (Artifacts + 1 - run[r].file)
      <4>1. files \in Nat
        <5>1. run[r].file \in 1..(Artifacts + 1) /\ Artifacts \in Nat
          BY <1>2, FactoryAssumption DEF FactoryInv, RunsInv, Locals
        <5>. QED BY <5>1
      <4>2. RunStepsLeft(r) \in {1, 2, 3, 1 + files, 2 + files, 3 + files, 4 + files, 5 + files, 6 + files}
        BY <1>2 DEF RunStepsLeft, RunSteps
      <4>. HIDE DEF files
      <4>. QED BY <4>1, <4>2
    <3>. QED BY <2>1, <2>4, <3>2, <3>3
  <2>8. CASE UNCHANGED <<runAt, run>>
    BY <2>2, <2>8
  <2>. QED BY <1>2, <2>2, <2>3, <2>4, <2>5, <2>6, <2>7, <2>8, DeferredIsARun, OtherSteps
<1>3. FactoryInv /\ [FactoryNext]_factoryVars =>
        [\A r \in Runs : runAt[r] # "idle" =>
           /\ RunStepsLeft(r)' <= RunStepsLeft(r)
           /\ RunStepsLeft(r)' = RunStepsLeft(r) => UNCHANGED <<runAt[r], run[r]>>]_factoryVars
  BY <1>2
<1>. QED BY <1>1, <1>3, InvariantHolds, PTL DEF FactorySpec, RunsComeToAnEnd

\* A job that is said to run has its run, unless that was cut short or its end
\* could not be written down: then the operator is asked.
RunningJobHasRun ==
  job.status = "running" => runAt[Deferred] # "idle" \/ job.stopped \/ job.unreported

LEMMA RunningStep ==
  ASSUME FactoryInv, RunningJobHasRun, [FactoryNext]_factoryVars
  PROVE  RunningJobHasRun'
<1>. USE DEF RunningJobHasRun
<1>0. job \in [status : {"none", "scheduled", "running"} \cup Terminal, windows : 0..Windows, stopped : BOOLEAN, unreported : BOOLEAN]
      /\ Deferred \in Runs /\ runAt \in [Runs -> Places]
  BY DeferredIsARun DEF FactoryInv, JobInv, RunsInv
<1>1. ASSUME NEW r \in Runs, RunStep(r), RunAdvances(r) PROVE RunningJobHasRun'
  <2>1. job'.status = "running" =>
          job.status = "running" /\ job'.stopped = job.stopped /\ job'.unreported = job.unreported
    <3>1. CASE UNCHANGED job
      BY <3>1
    <3>2. CASE NextWindow
      BY <1>0, <3>2 DEF NextWindow, Terminal
    <3>3. CASE MarkCompleted
      BY <1>0, <3>3 DEF MarkCompleted
    <3>. QED BY <1>1, <3>1, <3>2, <3>3 DEF RunStep, AcquireLease, PlanFactory, RecordOverload,
           ReserveArtifact, SendArtifact, ConfirmArtifact, CompleteFactory, ReleaseLease
  <2>2. runAt[Deferred] # "idle" => runAt'[Deferred] # "idle"
    <3>1. CASE r = Deferred
      <4>1. runAt[r] # "report"
        BY <1>1 DEF RunStep, AcquireLease, PlanFactory, RecordOverload, ReserveArtifact, SendArtifact,
               ConfirmArtifact, CompleteFactory, ReleaseLease
      <4>2. PICK l \in Places, s \in Locals : FileMoves(r, l, s) /\ (r = Deferred /\ l = "idle" => runAt[r] = "report")
        BY <1>1 DEF RunAdvances
      <4>. QED BY <1>0, <3>1, <4>1, <4>2 DEF FileMoves
    <3>2. CASE r # Deferred
      BY <1>0, <1>1, <3>2, AdvancesAlone
    <3>. QED BY <3>1, <3>2
  <2>. QED BY <2>1, <2>2
<1>2. CASE CheckMode
  <2>1. UNCHANGED job /\ runAt'[Deferred] \in {"acquire", "report"}
    BY <1>0, <1>2 DEF CheckMode, MoveTo, Leave
  <2>. QED BY <1>0, <2>1
<1>3. CASE ReportDeferred
  <2>1. \/ MarkCompleted \/ MarkBlocked
        \/ job' = [job EXCEPT !.stopped = TRUE]
        \/ job' = [job EXCEPT !.unreported = TRUE]
    BY <1>3 DEF ReportDeferred
  <2>. QED BY <1>0, <2>1 DEF MarkCompleted, MarkBlocked
<1>4. ASSUME NEW r \in Runs \ {Deferred}, StartFactory(r) PROVE RunningJobHasRun'
  BY <1>0, <1>4 DEF StartFactory, MoveTo
<1>5. CASE ClaimDue
  BY <1>0, <1>5 DEF ClaimDue, MoveTo
<1>6. CASE CrashFactory
  BY <1>0, <1>6 DEF CrashFactory
<1>7. CASE UNCHANGED <<runAt, run>> /\ (ExpireDeferred \/ OperatorStep \/ UNCHANGED factoryVars)
  <2>1. CASE UNCHANGED job
    BY <1>7, <2>1
  <2>2. CASE ExpireDeferred \/ CancelDeferred
    BY <1>0, <2>2 DEF ExpireDeferred, CancelDeferred
  <2>3. CASE ResetRunning
    BY <2>3 DEF ResetRunning
  <2>. QED BY <1>7, <2>1, <2>2, <2>3 DEF OperatorStep, ReconcileDelivery, ReleaseStaleLease, factoryVars
<1>. QED BY <1>1, <1>2, <1>3, <1>4, <1>5, <1>6, <1>7, OtherSteps

\* The calendar forgets a job in work in two ways only: whoever finds it 'running'
\* without its run, finds one that a stop or a crash cut short, or one whose end
\* neither mark_completed nor mark_blocked could write down.  With RunsRunOut the
\* safety half of DeferredJobSettles.
THEOREM RunningJobsAreWorkedOn == FactorySpec => []RunningJobHasRun
<1>1. FactoryInit => RunningJobHasRun
  BY DEF FactoryInit, RunningJobHasRun
<1>2. FactoryInv /\ RunningJobHasRun /\ [FactoryNext]_factoryVars => RunningJobHasRun'
  BY RunningStep
<1>. QED BY <1>1, <1>2, InvariantHolds, PTL DEF FactorySpec

\* A job is done only when the user has a file of it, and the ledger knows.
DoneMeansDelivered ==
  job.status = "done" => \E f \in Files : row[f].state = "delivered" /\ inChat[f] = 1

ClaimsAreTrue ==
  /\ job.status = "done" => SomeDelivered
  /\ \A r \in Runs : ClaimsDelivery(runAt[r], run[r]) => SomeDelivered

LEMMA ClaimsStep ==
  ASSUME FactoryInv, ClaimsAreTrue, [FactoryNext]_factoryVars
  PROVE  ClaimsAreTrue'
<1>0. CASE SomeDelivered
  <2>1. SomeDelivered'
    BY <1>0, SomeDeliveredStays
  <2>. QED BY <2>1 DEF ClaimsAreTrue
<1>. SUFFICES ASSUME ~SomeDelivered PROVE ClaimsAreTrue'
  BY <1>0
<1>1. /\ job.status # "done" /\ \A r \in Runs : ~ClaimsDelivery(runAt[r], run[r])
      /\ job \in [status : {"none", "scheduled", "running"} \cup Terminal, windows : 0..Windows, stopped : BOOLEAN, unreported : BOOLEAN]
      /\ RunsInv /\ Deferred \in Runs
  BY DeferredIsARun DEF ClaimsAreTrue, FactoryInv, JobInv
<1>2. ASSUME NEW r \in Runs, RunAdvances(r)
      PROVE  \A q \in Runs : ClaimsDelivery(runAt[q], run[q])' => SomeDelivered'
  <2>1. PICK l \in Places, s \in Locals :
          FileMoves(r, l, s) /\ (ClaimsDelivery(l, s) => SomeDelivered')
    BY <1>1, <1>2 DEF RunAdvances
  <2>2. runAt'[r] = l /\ run'[r] = s /\ \A q \in Runs \ {r} : runAt'[q] = runAt[q] /\ run'[q] = run[q]
    <3>1. RunsInv /\ FileMoves(r, l, s)
      BY <1>1, <2>1
    <3>. QED BY ONLY <3>1, MovesOthers, r \in Runs, l \in Places, s \in Locals
  <2>3. ASSUME NEW q \in Runs, ClaimsDelivery(runAt'[q], run'[q]) PROVE SomeDelivered'
    <3>1. CASE q = r
      <4>1. ClaimsDelivery(l, s)
        BY <2>2, <2>3, <3>1 DEF ClaimsDelivery
      <4>. QED BY <2>1, <4>1
    <3>2. CASE q # r
      BY <1>1, <2>2, <2>3, <3>2
    <3>. QED BY <3>1, <3>2
  <2>. QED BY <2>3 DEF ClaimsDelivery
<1>3. CASE \E r \in Runs : RunStep(r) /\ RunAdvances(r)
  <2>1. PICK r \in Runs : RunStep(r) /\ RunAdvances(r)
    BY <1>3
  <2>2. job'.status # "done"
    <3>1. ~CompleteFactory(r)
      BY <1>1 DEF CompleteFactory, ClaimsDelivery
    <3>2. CASE UNCHANGED job
      BY <1>1, <3>2
    <3>3. CASE NextWindow
      BY <1>1, <3>3 DEF NextWindow, Terminal
    <3>. QED BY <2>1, <3>1, <3>2, <3>3 DEF RunStep, AcquireLease, PlanFactory, RecordOverload,
           ReserveArtifact, SendArtifact, ConfirmArtifact, ReleaseLease
  <2>. QED BY <1>2, <2>1, <2>2 DEF ClaimsAreTrue
<1>4. CASE (CheckMode \/ ReportDeferred) /\ RunAdvances(Deferred)
  <2>1. job'.status # "done"
    <3>1. CASE CheckMode
      BY <1>1, <3>1 DEF CheckMode
    <3>2. CASE ReportDeferred
      <4>1. run[Deferred].result # "ok"
        BY <1>1 DEF ClaimsDelivery
      <4>2. \/ job' = [job EXCEPT !.stopped = TRUE]
            \/ job' = [job EXCEPT !.unreported = TRUE]
            \/ MarkBlocked
        BY <3>2, <4>1 DEF ReportDeferred
      <4>. QED BY <1>1, <4>2 DEF MarkBlocked
    <3>. QED BY <1>4, <3>1, <3>2
  <2>. QED BY <1>1, <1>2, <1>4, <2>1 DEF ClaimsAreTrue
<1>5. CASE \E r \in Runs \ {Deferred} : StartFactory(r)
  <2>1. PICK r \in Runs : StartFactory(r)
    BY <1>5
  <2>2. UNCHANGED <<job, run>> /\ \A q \in Runs : runAt'[q] \in {runAt[q], "acquire"}
    BY <1>1, <2>1 DEF StartFactory, MoveTo, RunsInv
  <2>. QED BY <1>1, <2>2 DEF ClaimsAreTrue, ClaimsDelivery
<1>6. CASE ClaimDue
  <2>1. job'.status # "done" /\ UNCHANGED run /\ \A q \in Runs : runAt'[q] \in {runAt[q], "mode"}
    BY <1>1, <1>6 DEF ClaimDue, MoveTo, RunsInv
  <2>. QED BY <1>1, <2>1 DEF ClaimsAreTrue, ClaimsDelivery
<1>7. CASE CrashFactory
  <2>1. job'.status = job.status /\ \A q \in Runs : runAt'[q] = "idle" /\ run'[q] = NewRun
    BY <1>1, <1>7 DEF CrashFactory
  <2>. QED BY <1>1, <2>1 DEF ClaimsAreTrue, ClaimsDelivery, NewRun
<1>8. CASE UNCHANGED <<runAt, run>> /\ (ExpireDeferred \/ OperatorStep \/ UNCHANGED factoryVars)
  <2>1. job'.status # "done"
    BY <1>1, <1>8 DEF ExpireDeferred, OperatorStep, ReconcileDelivery, ReleaseStaleLease, CancelDeferred,
       ResetRunning, factoryVars
  <2>. QED BY <1>1, <1>8, <2>1 DEF ClaimsAreTrue, ClaimsDelivery
<1>. QED BY <1>3, <1>4, <1>5, <1>6, <1>7, <1>8, OtherSteps

\* Neither a user's run nor the deferred one reports success without a delivery
\* that the ledger confirms and the user has (mark_completed).
THEOREM DoneJobsWereDelivered == FactorySpec => []DoneMeansDelivered
<1>1. FactoryInit => ClaimsAreTrue
  BY DEF FactoryInit, ClaimsAreTrue, ClaimsDelivery, NewRun
<1>2. FactoryInv /\ ClaimsAreTrue /\ [FactoryNext]_factoryVars => ClaimsAreTrue'
  BY ClaimsStep
<1>3. FactoryInv /\ ClaimsAreTrue => DoneMeansDelivered
  BY DEF FactoryInv, LedgerInv, ClaimsAreTrue, SomeDelivered, DoneMeansDelivered
<1>. QED BY <1>1, <1>2, <1>3, InvariantHolds, PTL DEF FactorySpec
=============================================================================
