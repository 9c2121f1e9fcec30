------------------------------ MODULE MCRequests ------------------------------
(* What users wait for: a turn and a slot of the daily limit (Admission), the  *)
(* video they asked for (VideoRequest), and the verdict on a dub (DubNotifier),*)
(* in one instance for TLC.  The components share no state: each behaviour is  *)
(* one of one component, chosen at the start, while the others rest.           *)
EXTENDS Admission, VideoRequest, DubNotifier

VARIABLE component

all == <<component, admissionVars, requestVars, notifierVars>>

MCInit ==
  /\ component \in {"admission", "request", "notifier"}
  /\ AdmissionInit /\ RequestInit /\ NotifierInit

Only(c, A) == component = c /\ A /\ UNCHANGED component

AdmittingNext == Only("admission", AdmissionNext) /\ UNCHANGED <<requestVars, notifierVars>>
ServingNext   == Only("request", RequestNext) /\ UNCHANGED <<admissionVars, notifierVars>>
NotifyingNext == Only("notifier", NotifierNext) /\ UNCHANGED <<admissionVars, requestVars>>
MCNext == AdmittingNext \/ ServingNext \/ NotifyingNext

\* The fairness of each component.  Its steps are disabled while it rests.
MCFairSpec ==
  /\ MCInit /\ [][MCNext]_all
  /\ \A r \in Requests :
       /\ WF_admissionVars(component = "admission" /\ AdmissionStep(r))
       /\ WF_admissionVars(component = "admission" /\ UseVideo(r) /\ Step(r))
  /\ WF_requestVars(component = "request" /\ RequestStep)
  /\ WF_requestVars(component = "request" /\ WaitTimeout)
  /\ \A r \in 1..Visits : WF_requestVars(component = "request" /\ TimerStep(r))
  /\ WF_notifierVars(component = "notifier" /\ Loop)
=============================================================================
