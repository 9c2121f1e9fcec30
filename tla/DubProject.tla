----------------------------- MODULE DubProject -----------------------------
(***************************************************************************)
(* One project, as whoever tells its owner of its jobs relies on it: it    *)
(* has at most one job in work; each job gets one verdict; and the project *)
(* looks active while a job of it can make progress.  Only a cancellation  *)
(* that a recovery carries out is in two halves: in between the project    *)
(* may be given a new job, and then looks idle although it has one, until  *)
(* a worker claims that.                                                   *)
(***************************************************************************)
EXTENDS Naturals

CONSTANT MaxJobs

VARIABLES
  open,    \* the job in work, 0 for none
  half,    \* the job that is cancelled and has no verdict yet, 0 for none
  active,  \* does the project look active
  told     \* its jobs with a verdict

aspects == <<open, half, active, told>>

Init == open = 0 /\ half = 0 /\ ~active /\ told = {}

Accept(j) ==
  /\ open = 0 /\ j \notin told \cup {half}
  /\ open' = j /\ active' = TRUE
  /\ UNCHANGED <<half, told>>

Resume ==
  /\ open # 0 /\ half = 0
  /\ active' = TRUE
  /\ UNCHANGED <<open, half, told>>

Conclude ==
  /\ open # 0
  /\ open' = 0 /\ active' = FALSE
  /\ told' = told \cup {open}
  /\ UNCHANGED half

HalfCancel ==
  /\ open # 0 /\ half = 0 /\ active
  /\ open' = 0 /\ half' = open /\ active' = FALSE
  /\ UNCHANGED told

FinishCancel ==
  /\ half # 0
  /\ half' = 0 /\ active' = FALSE
  /\ told' = told \cup {half}
  /\ UNCHANGED open

Next ==
  \/ \E j \in 1..MaxJobs : Accept(j)
  \/ Resume \/ Conclude \/ HalfCancel \/ FinishCancel

Spec == Init /\ [][Next]_aspects
=============================================================================
