------------------------------ MODULE WorkerLock ------------------------------
(***************************************************************************)
(* worker.lock: the file by which services/dub_worker.py keeps a second    *)
(* worker process from running (class WorkerLock).  Several processes may  *)
(* try at once: ensure_worker_running spawns one at every delivered        *)
(* notification, at the start of the bot and from the health command, as   *)
(* long as the latest worker's heartbeat is not fresh.                     *)
(*                                                                         *)
(* A step is one file operation.  The lock is taken by an exclusive        *)
(* create; the pid is written afterwards, through the descriptor, so a     *)
(* file whose name was removed in between is written to no avail.          *)
(***************************************************************************)
EXTENDS Naturals

CONSTANTS
  Workers,       \* worker processes ever started, named by their pids
  NoFile,        \* there is no file worker.lock
  Attempts,      \* rounds of the loop of WorkerLock.acquire
  SerialStarts   \* do workers start one at a time

ASSUME FileAssumption == NoFile \notin Workers
ASSUME AttemptsAssumption == Attempts \in Nat /\ SerialStarts \in BOOLEAN

VARIABLES
  file,      \* who created the file that bears the name now, or NoFile
  written,   \* the creators whose pid is in their file
  pc,        \* where each process is
  tries      \* rounds of acquire it has used

vars == <<file, written, pc, tries>>

Acquiring == {"open", "inspect", "unlink", "write"}
Holding   == {"holding", "release"}
Gone      == {"refused", "ended", "killed"}
Alive     == {w \in Workers : pc[w] \in Acquiring \cup Holding}

TypeOK ==
  /\ file \in Workers \cup {NoFile}
  /\ written \in SUBSET Workers
  /\ pc \in [Workers -> {"unborn"} \cup Acquiring \cup Holding \cup Gone]
  /\ tries \in [Workers -> 0..Attempts]

Init ==
  /\ file = NoFile /\ written = {}
  /\ pc = [w \in Workers |-> "unborn"]
  /\ tries = [w \in Workers |-> 0]

Goto(w, l) == pc' = [pc EXCEPT ![w] = l]

\* ensure_worker_running spawns a worker process, which calls acquire.
Start(w) ==
  /\ pc[w] = "unborn"
  /\ SerialStarts => \A v \in Workers : pc[v] \notin Acquiring
  /\ Goto(w, "open")
  /\ UNCHANGED <<file, written, tries>>

\* os.open with O_CREAT | O_EXCL, or the end of the loop.
Open(w) ==
  /\ pc[w] = "open"
  /\ IF tries[w] = Attempts THEN file' = file /\ Goto(w, "refused")
     ELSE IF file = NoFile THEN file' = w /\ Goto(w, "write")
     ELSE file' = file /\ Goto(w, "inspect")
  /\ UNCHANGED <<written, tries>>

\* handle.write(os.getpid()): acquired.
Write(w) ==
  /\ pc[w] = "write"
  /\ written' = written \cup {w}
  /\ Goto(w, "holding")
  /\ UNCHANGED <<file, tries>>

\* Mutant: any file that holds a pid counts as a running owner's.
OwnerRecorded == file # NoFile /\ file \in written

\* Mutant: the pid in the file is not looked up.
OwnerNeverRuns == FALSE

\* What acquire makes of the file: a file that is gone or has no pid yet reads
\* as pid 0, and pid 0 counts as dead.
OwnerRuns == file # NoFile /\ file \in written /\ file \in Alive

\* read_text and _pid_is_running.
Inspect(w) ==
  /\ pc[w] = "inspect"
  /\ IF OwnerRuns THEN Goto(w, "refused") ELSE Goto(w, "unlink")
  /\ UNCHANGED <<file, written, tries>>

\* path.unlink(): removes the name, whoever created the file by now.
Unlink(w) ==
  /\ pc[w] = "unlink"
  /\ file' = NoFile
  /\ tries' = [tries EXCEPT ![w] = @ + 1]
  /\ Goto(w, "open")
  /\ UNCHANGED written

\* release: the file is read, and removed if it holds the own pid.
ReleaseCheck(w) ==
  /\ pc[w] = "holding"
  /\ IF file = w THEN Goto(w, "release") ELSE Goto(w, "ended")
  /\ UNCHANGED <<file, written, tries>>

ReleaseUnlink(w) ==
  /\ pc[w] = "release"
  /\ file' = NoFile
  /\ Goto(w, "ended")
  /\ UNCHANGED <<written, tries>>

\* The process is killed and leaves its file behind.
Kill(w) ==
  /\ w \in Alive
  /\ Goto(w, "killed")
  /\ UNCHANGED <<file, written, tries>>

Acquire(w) == Open(w) \/ Inspect(w) \/ Unlink(w) \/ Write(w)
Next ==
  \E w \in Workers : Start(w) \/ Acquire(w) \/ ReleaseCheck(w) \/ ReleaseUnlink(w) \/ Kill(w)

Spec == Init /\ [][Next]_vars

\* A process that is not killed runs its code.
FairSpec == Spec /\ \A w \in Workers : WF_vars(Acquire(w)) /\ WF_vars(ReleaseUnlink(w))

-----------------------------------------------------------------------------
\* At most one worker process believes that it has the lock.
OneHolder == \A v, w \in Workers : pc[v] \in Holding /\ pc[w] \in Holding => v = w

\* A live holder's file is the one that bears the name: the next starter will
\* find it and be refused.
HolderIsVisible == \A w \in Workers : pc[w] \in Holding => file = w /\ w \in written

\* Whoever starts while no live worker holds the lock gets it, even over the
\* file of a killed one, unless it is killed itself.
StaleLockIsTakenOver ==
  /\ []<>(\A w \in Workers : pc[w] \notin Acquiring)
  /\ [][\A w \in Workers : pc[w] # "refused" /\ pc'[w] = "refused" =>
          \E v \in Workers : pc[v] \in Holding]_vars
=============================================================================
