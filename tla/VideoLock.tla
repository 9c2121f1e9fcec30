------------------------------ MODULE VideoLock ------------------------------
(***************************************************************************)
(* One video, several requests for it.  Updates are handled concurrently   *)
(* (concurrent_updates(8) in main.py), so two of them may want the same    *)
(* video; core/globals.py keeps a registry of one asyncio.Lock per video,  *)
(* which handle_message (handlers/commands.py) and handle_playlist         *)
(* (pipelines/playlist.py) hold while they process it.                     *)
(*                                                                         *)
(* A step is what a task does between two awaits.  The registry entry is   *)
(* removed when its lock is seen unlocked, and the next request then makes *)
(* a new lock: whether a waiter of the old one is about to run does not    *)
(* show in locked().                                                       *)
(***************************************************************************)
EXTENDS Naturals

CONSTANTS
  Requests,    \* requests for the video
  Impatient    \* those of handle_message, which wait for a limited time

ASSUME ImpatientAssumption == Impatient \subseteq Requests

VARIABLES
  pc,         \* where the task of each request is
  lock,       \* the asyncio.Lock it works with, 0 for none yet
  registry,   \* _video_processing_locks[video], 0 for no entry
  made,       \* number of asyncio.Locks made, which are numbered
  locked,     \* those that are locked
  woken,      \* waiters whose future has its result, but who have not run
  ticket,     \* the order in which requests began to wait, 0 if they did not
  arrived     \* the last ticket

vars == <<pc, lock, registry, made, locked, woken, ticket, arrived>>

Open       == {r \in Requests : pc[r] \notin {"new", "over"}}
Processing == {r \in Requests : pc[r] = "processing"}

\* An entry of the registry is a locked lock: an unlocked one is removed at once.
TypeOK ==
  /\ pc \in [Requests -> {"new", "waiting", "processing", "expired", "over"}]
  /\ lock \in [Requests -> Nat]
  /\ made \in Nat /\ arrived \in Nat
  /\ locked \in SUBSET (1..made)
  /\ registry \in locked \cup {0}
  /\ woken \in SUBSET Requests
  /\ ticket \in [Requests -> Nat]

Init ==
  /\ pc = [r \in Requests |-> "new"] /\ lock = [r \in Requests |-> 0]
  /\ registry = 0 /\ made = 0
  /\ locked = {} /\ woken = {}
  /\ ticket = [r \in Requests |-> 0] /\ arrived = 0

-----------------------------------------------------------------------------
(* asyncio.Lock.                                                           *)

Waiters(l) == {r \in Requests : pc[r] = "waiting" /\ lock[r] = l}

IsFirst(s, W) == s \in W /\ \A t \in W : ticket[s] <= ticket[t]

\* The first of the waiters W gets a result: it will run some time later, and
\* until then the lock is free.
Wake(W) == woken \cup {s \in W : IsFirst(s, W)}

\* acquire returns at once.
Free(l) == l \notin locked /\ Waiters(l) = {}

-----------------------------------------------------------------------------
(* The registry.                                                           *)

\* _get_video_lock makes a lock if the video has no entry; acquire takes a
\* free one without an await.
ArriveFirst(r) ==
  /\ pc[r] = "new" /\ (registry # 0 => Free(registry))
  /\ made' = (IF registry = 0 THEN made + 1 ELSE made)
  /\ registry' = (IF registry = 0 THEN made + 1 ELSE registry)
  /\ lock' = [lock EXCEPT ![r] = registry']
  /\ locked' = locked \cup {registry'}
  /\ pc' = [pc EXCEPT ![r] = "processing"]
  /\ UNCHANGED <<woken, ticket, arrived>>

\* The lock of the video's entry has to be waited for.
ArriveLater(r) ==
  /\ pc[r] = "new" /\ registry # 0 /\ ~Free(registry)
  /\ lock' = [lock EXCEPT ![r] = registry]
  /\ arrived' = arrived + 1 /\ ticket' = [ticket EXCEPT ![r] = arrived']
  /\ pc' = [pc EXCEPT ![r] = "waiting"]
  /\ UNCHANGED <<registry, made, locked, woken>>

\* The task of a woken waiter runs: acquire returns.
Resume(r) ==
  /\ pc[r] = "waiting" /\ r \in woken
  /\ woken' = woken \ {r}
  /\ locked' = locked \cup {lock[r]}
  /\ pc' = [pc EXCEPT ![r] = "processing"]
  /\ UNCHANGED <<lock, registry, made, ticket, arrived>>

\* Mutants: the entry goes although its lock is in use, or never.
PopAlways(r, stillLocked) == registry' = IF registry = lock[r] THEN 0 ELSE registry
PopNever(r, stillLocked) == registry' = registry

\* _release_video_lock: the entry goes if it is this lock and not locked.
PopEntry(r, stillLocked) ==
  registry' = IF registry = lock[r] /\ lock[r] \notin stillLocked THEN 0 ELSE registry

Release(r) ==
  /\ locked' = locked \ {lock[r]}
  /\ woken' = Wake(Waiters(lock[r]))

\* Mutant: the lock is not released when the processing raises.
FinishForgotten(r) ==
  /\ pc[r] = "processing"
  /\ PopEntry(r, locked)
  /\ pc' = [pc EXCEPT ![r] = "over"]
  /\ UNCHANGED <<lock, made, locked, woken, ticket, arrived>>

\* process_single_video returns or raises: release, then _release_video_lock,
\* without an await in between.
Finish(r) ==
  /\ pc[r] = "processing"
  /\ Release(r)
  /\ PopEntry(r, locked')
  /\ pc' = [pc EXCEPT ![r] = "over"]
  /\ UNCHANGED <<lock, made, ticket, arrived>>

\* VIDEO_LOCK_WAIT_TIMEOUT_SEC: the wait is cancelled, perhaps after the
\* waiter was woken; acquire then passes the wake-up on.
TimesOut(r) ==
  /\ pc[r] = "waiting" /\ r \in Impatient
  /\ woken' = (IF lock[r] \in locked THEN woken ELSE Wake(Waiters(lock[r]) \ {r})) \ {r}
  /\ pc' = [pc EXCEPT ![r] = "expired"]
  /\ UNCHANGED <<lock, registry, made, locked, ticket, arrived>>

\* Mutant: the finally block releases without looking at _lock_acquired.
LeaveReleases(r) ==
  /\ pc[r] = "expired"
  /\ Release(r)
  /\ PopEntry(r, locked')
  /\ pc' = [pc EXCEPT ![r] = "over"]
  /\ UNCHANGED <<lock, made, ticket, arrived>>

\* After the refund and the reply (awaits), the finally block.
Leave(r) ==
  /\ pc[r] = "expired"
  /\ PopEntry(r, locked)
  /\ pc' = [pc EXCEPT ![r] = "over"]
  /\ UNCHANGED <<lock, made, locked, woken, ticket, arrived>>

Step(r) == Resume(r) \/ Finish(r) \/ Leave(r)
Next ==
  \E r \in Requests : ArriveFirst(r) \/ ArriveLater(r) \/ Step(r) \/ TimesOut(r)

Spec == Init /\ [][Next]_vars

\* The event loop runs every task that can run, and a processing ends.
FairSpec == Spec /\ \A r \in Requests : WF_vars(Step(r))

-----------------------------------------------------------------------------
\* The video is processed by one request at a time.
OneProcessor == \A r, s \in Processing : r = s

\* Of the requests that process the video now, at most one found it free: an
\* overlap needs a waiter to whom a lock was handed whose entry is gone.
OverlapNeedsHandover ==
  \A r, s \in Processing : ticket[r] = 0 /\ ticket[s] = 0 => r = s

\* Two requests with the same lock never process together.
LockExcludes ==
  \A r, s \in Processing : lock[r] = lock[s] => r = s /\ lock[r] \in locked

\* When nobody wants the video, it has no entry.
RegistryEmptiesWhenIdle == Open = {} => registry = 0

\* Every request ends, also one that waits without a time limit for a lock that is
\* no longer in the registry: there always comes a moment when none is under way.
EveryRequestEnds == []<>(\A r \in Requests : pc[r] \in {"new", "over"})
=============================================================================
