----------------------------- MODULE MCDubStudio -----------------------------
(* Instances of DubStudio for TLC. *)
EXTENDS DubStudioProperties, FiniteSets, TLC

CONSTANTS p1, p2, none
MCProjects == {p1, p2}
ProjectSymmetry == Permutations(MCProjects)

\* A job that has been claimed once has one runner, and another one after a crash
\* or a restart for quality.
Claimed   == {j \in JobIds : status[j] \notin {"none", "queued"}}
Restarted == attempt > 0 \/ spawned > Cardinality(Claimed) + crashes

\* State constraint: signals and restarts for quality are followed through
\* behaviours without crashes and exceptions only.
OneKindOfTrouble == crashes + faults > 0 => stops = 0 /\ ~Restarted
=============================================================================
