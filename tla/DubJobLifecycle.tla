--------------------------- MODULE DubJobLifecycle ---------------------------
(***************************************************************************)
(* What Dub Studio promises of its jobs, without workers, runners, leases  *)
(* or heartbeats: a project has at most one job in work; a job waits, is   *)
(* worked on and may return to waiting; a job asked to stop never waits    *)
(* again; a job is over once, with one verdict, which is announced once.   *)
(***************************************************************************)
EXTENDS Naturals, Sequences

CONSTANTS Projects, NoProject, MaxJobs

VARIABLES
  phase,     \* of each job
  tenant,    \* the project of each job
  verdicts   \* what was announced of each job

lifecycle == <<phase, tenant, verdicts>>

JobIds  == 1..MaxJobs
Open    == {"waiting", "working", "stopping"}
Verdict == {"succeeded", "failed", "cancelled"}

Init ==
  /\ phase = [j \in JobIds |-> "absent"]
  /\ tenant = [j \in JobIds |-> NoProject]
  /\ verdicts = [j \in JobIds |-> <<>>]

\* A job is accepted for a project that has none open.
Accept(j, p) ==
  /\ phase[j] = "absent"
  /\ \A i \in JobIds : tenant[i] = p => phase[i] \notin Open
  /\ phase' = [phase EXCEPT ![j] = "waiting"]
  /\ tenant' = [tenant EXCEPT ![j] = p]
  /\ UNCHANGED verdicts

Start(j) ==
  /\ phase[j] = "waiting"
  /\ phase' = [phase EXCEPT ![j] = "working"]
  /\ UNCHANGED <<tenant, verdicts>>

AskToStop(j) ==
  /\ phase[j] = "working"
  /\ phase' = [phase EXCEPT ![j] = "stopping"]
  /\ UNCHANGED <<tenant, verdicts>>

\* A waiting job can only be withdrawn; a started one can end in any way.
Conclude(j, v) ==
  /\ phase[j] \in {"working", "stopping"} \/ (phase[j] = "waiting" /\ v = "cancelled")
  /\ verdicts[j] = <<>>
  /\ phase' = [phase EXCEPT ![j] = v]
  /\ verdicts' = [verdicts EXCEPT ![j] = <<v>>]
  /\ UNCHANGED tenant

\* After a crash the started jobs in S wait again, those asked to stop are
\* cancelled, and it may take a while until that is announced.
Return(S) ==
  /\ \A j \in S : phase[j] \in {"working", "stopping"}
  /\ phase' = [j \in JobIds |->
                 IF j \notin S THEN phase[j]
                 ELSE IF phase[j] = "working" THEN "waiting" ELSE "cancelled"]
  /\ UNCHANGED <<tenant, verdicts>>

Announce(S) ==
  /\ \A j \in S : phase[j] = "cancelled" /\ verdicts[j] = <<>>
  /\ verdicts' = [j \in JobIds |-> IF j \in S THEN <<"cancelled">> ELSE verdicts[j]]
  /\ UNCHANGED <<phase, tenant>>

Next ==
  \/ \E j \in JobIds, p \in Projects : Accept(j, p)
  \/ \E j \in JobIds : Start(j) \/ AskToStop(j) \/ \E v \in Verdict : Conclude(j, v)
  \/ \E S \in SUBSET JobIds : Return(S) \/ Announce(S)

Spec == Init /\ [][Next]_lifecycle
=============================================================================
