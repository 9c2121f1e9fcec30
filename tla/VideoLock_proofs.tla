-------------------------- MODULE VideoLock_proofs --------------------------
(***************************************************************************)
(* The registry of video locks for any number of requests: the locks       *)
(* themselves exclude, and two requests process the video together only    *)
(* if one of them was handed a lock that had left the registry.            *)
(* Then the daily limit that the requests reserve first (Admission): what  *)
(* its row counts, and how far it can be exceeded.                         *)
(***************************************************************************)
EXTENDS Admission, FiniteSetTheorems, WellFoundedInduction, TLAPS

\* Tickets are given out in order, to whoever waits and to nobody twice.
Tickets ==
  /\ \A r \in Requests : ticket[r] <= arrived
  /\ \A r, s \in Requests : ticket[r] # 0 /\ ticket[r] = ticket[s] => r = s
  /\ \A r \in Requests : pc[r] = "waiting" => ticket[r] # 0

\* A processing request's lock is locked, a waiting one's exists.
Holds ==
  \A r \in Requests :
    /\ pc[r] = "processing" => lock[r] \in locked
    /\ pc[r] = "waiting" => lock[r] \in 1..made

\* A woken request is the first waiter of a lock that is still free.
WokenIsFirst ==
  \A r \in woken : lock[r] \notin locked /\ IsFirst(r, Waiters(lock[r]))

\* Who found the video free works under the entry of the registry.
FirstIsRegistered ==
  \A r \in Requests : pc[r] = "processing" /\ ticket[r] = 0 => lock[r] = registry

IInv ==
  /\ TypeOK /\ Tickets
  /\ Holds /\ LockExcludes /\ WokenIsFirst /\ FirstIsRegistered

\* Nobody has arrived.
LEMMA InitIInv == Init => IInv
  BY DEF Init, IInv, TypeOK, Tickets, Holds, LockExcludes, Processing, WokenIsFirst,
         FirstIsRegistered

\* Every step of a task keeps the invariant.
LEMMA Step_IInv == IInv /\ [Next]_vars => IInv'
<1> SUFFICES ASSUME IInv, [Next]_vars PROVE IInv'  OBVIOUS
<1> USE DEF IInv, TypeOK, Tickets, Holds, LockExcludes, Processing, WokenIsFirst, IsFirst,
            Waiters, FirstIsRegistered
<1>1. CASE UNCHANGED vars  BY <1>1 DEF vars
<1>2. ASSUME NEW r \in Requests, ArriveFirst(r) PROVE IInv'
  <2> USE <1>2 DEF ArriveFirst, Free
  <2>1. TypeOK'  OBVIOUS
  <2>2. Tickets'  OBVIOUS
  <2>3. Holds'  OBVIOUS
  <2>4. LockExcludes'
    <3>1. registry = 0  OBVIOUS
    <3>2. made + 1 \notin locked  OBVIOUS
    <3>3. \A s \in Requests : pc[s] = "processing" => lock[s] # made + 1  BY <3>2
    <3>4. lock'[r] = made + 1 /\ made + 1 \in locked'  BY <3>1
    <3>5. \A s \in Requests \ {r} : pc'[s] = pc[s] /\ lock'[s] = lock[s]  OBVIOUS
    <3> QED  BY <3>3, <3>4, <3>5
  <2>5. WokenIsFirst'  OBVIOUS
  <2>6. FirstIsRegistered'  OBVIOUS
  <2> QED  BY <2>1, <2>2, <2>3, <2>4, <2>5, <2>6
<1>3. ASSUME NEW r \in Requests, ArriveLater(r) PROVE IInv'
  <2> USE <1>3 DEF ArriveLater, Free
  <2>1. TypeOK'  OBVIOUS
  <2>2. Tickets'  OBVIOUS
  <2>3. Holds'  OBVIOUS
  <2>4. LockExcludes'  OBVIOUS
  <2>5. WokenIsFirst'  OBVIOUS
  <2>6. FirstIsRegistered'  OBVIOUS
  <2> QED  BY <2>1, <2>2, <2>3, <2>4, <2>5, <2>6
<1>4. ASSUME NEW r \in Requests, Resume(r) PROVE IInv'
  <2> USE <1>4 DEF Resume
  <2>1. TypeOK'  OBVIOUS
  <2>2. Tickets'  OBVIOUS
  <2>3. Holds'  OBVIOUS
  <2>4. LockExcludes'  OBVIOUS
  <2>5. WokenIsFirst'  OBVIOUS
  <2>6. FirstIsRegistered'  OBVIOUS
  <2> QED  BY <2>1, <2>2, <2>3, <2>4, <2>5, <2>6
<1>5. ASSUME NEW r \in Requests, Finish(r) PROVE IInv'
  <2> USE <1>5 DEF Finish, Release, PopEntry, Wake
  <2>1. TypeOK'  OBVIOUS
  <2>2. Tickets'  OBVIOUS
  <2>3. Holds'  OBVIOUS
  <2>4. LockExcludes'  OBVIOUS
  <2>5. WokenIsFirst'  OBVIOUS
  <2>6. FirstIsRegistered'  OBVIOUS
  <2> QED  BY <2>1, <2>2, <2>3, <2>4, <2>5, <2>6
<1>6. ASSUME NEW r \in Requests, Leave(r) PROVE IInv'
  <2> USE <1>6 DEF Leave, PopEntry
  <2>1. TypeOK'  OBVIOUS
  <2>2. Tickets'  OBVIOUS
  <2>3. Holds'  OBVIOUS
  <2>4. LockExcludes'  OBVIOUS
  <2>5. WokenIsFirst'  OBVIOUS
  <2>6. FirstIsRegistered'  OBVIOUS
  <2> QED  BY <2>1, <2>2, <2>3, <2>4, <2>5, <2>6
<1>7. ASSUME NEW r \in Requests, TimesOut(r) PROVE IInv'
  <2> USE <1>7 DEF TimesOut, Wake
  <2>1. TypeOK'  OBVIOUS
  <2>2. Tickets'  OBVIOUS
  <2>3. Holds'  OBVIOUS
  <2>4. LockExcludes'  OBVIOUS
  <2>5. WokenIsFirst'  OBVIOUS
  <2>6. FirstIsRegistered'  OBVIOUS
  <2> QED  BY <2>1, <2>2, <2>3, <2>4, <2>5, <2>6
<1> QED  BY <1>1, <1>2, <1>3, <1>4, <1>5, <1>6, <1>7 DEF Next, Step

\* Every variable keeps its type; an entry of the registry is a locked lock.
THEOREM VideoLockTypes == Spec => []TypeOK
<1>1. IInv => TypeOK  BY DEF IInv
<1> QED  BY InitIInv, Step_IInv, <1>1, PTL DEF Spec

\* Two requests with the same lock never process together: a wake-up goes to
\* one waiter, and is void once the lock is taken.
THEOREM LocksExclude == Spec => []LockExcludes
<1>1. IInv => LockExcludes  BY DEF IInv
<1> QED  BY InitIInv, Step_IInv, <1>1, PTL DEF Spec

\* Two requests that found the video free never process it together, so every
\* overlap is between a request and one that was handed an old lock.
THEOREM OverlapsAreHandovers == Spec => []OverlapNeedsHandover
<1>1. IInv => OverlapNeedsHandover
  BY DEF IInv, LockExcludes, FirstIsRegistered, OverlapNeedsHandover, Processing
<1> QED  BY InitIInv, Step_IInv, <1>1, PTL DEF Spec

\* A locked lock is held by a request that processes the video.
LockedIsHeld == \A l \in locked : \E r \in Processing : lock[r] = l

\* A lock is taken and released by the request that holds it.
LEMMA Step_Held == IInv /\ LockedIsHeld /\ [Next]_vars => LockedIsHeld'
<1> SUFFICES ASSUME IInv, LockedIsHeld, [Next]_vars PROVE LockedIsHeld'  OBVIOUS
<1> USE DEF IInv, TypeOK, LockedIsHeld, Processing
<1>1. CASE UNCHANGED vars  BY <1>1 DEF vars
<1>2. ASSUME NEW r \in Requests, ArriveFirst(r) PROVE LockedIsHeld'
  <2>1. lock'[r] = registry' /\ pc'[r] = "processing" /\ locked' = locked \cup {registry'}
    BY <1>2 DEF ArriveFirst
  <2>2. \A s \in Processing : s # r /\ s \in Processing' /\ lock'[s] = lock[s]
    BY <1>2 DEF ArriveFirst
  <2> QED  BY <2>1, <2>2
<1>3. ASSUME NEW r \in Requests, ArriveLater(r) PROVE LockedIsHeld'
  BY <1>3 DEF ArriveLater
<1>4. ASSUME NEW r \in Requests, Resume(r) PROVE LockedIsHeld'
  <2>1. lock' = lock /\ pc'[r] = "processing" /\ locked' = locked \cup {lock[r]}
    BY <1>4 DEF Resume
  <2>2. \A s \in Processing : s \in Processing'
    BY <1>4 DEF Resume
  <2> QED  BY <2>1, <2>2
<1>5. ASSUME NEW r \in Requests, Finish(r) PROVE LockedIsHeld'
  <2>1. lock' = lock /\ locked' = locked \ {lock[r]}
    BY <1>5 DEF Finish, Release
  <2>2. \A s \in Processing \ {r} : s \in Processing'
    BY <1>5 DEF Finish
  <2> QED  BY <2>1, <2>2
<1>6. ASSUME NEW r \in Requests, Leave(r) \/ TimesOut(r) PROVE LockedIsHeld'
  <2>1. lock' = lock /\ locked' = locked
    BY <1>6 DEF Leave, TimesOut
  <2>2. \A s \in Processing : s \in Processing'
    BY <1>6 DEF Leave, TimesOut
  <2> QED  BY <2>1, <2>2
<1> QED  BY <1>1, <1>2, <1>3, <1>4, <1>5, <1>6 DEF Next, Step

\* The registry does not leak: when every request for the video is over, it has
\* no entry for it.
THEOREM RegistryDoesNotLeak == Spec => []RegistryEmptiesWhenIdle
<1>1. Init => LockedIsHeld
  BY DEF Init, LockedIsHeld
<1>2. IInv /\ LockedIsHeld => RegistryEmptiesWhenIdle
  BY DEF IInv, TypeOK, LockedIsHeld, RegistryEmptiesWhenIdle, Open, Processing
<1> QED  BY InitIInv, Step_IInv, Step_Held, <1>1, <1>2, PTL DEF Spec

-----------------------------------------------------------------------------
(* No waiter is forgotten.  A wake-up may be cancelled together with its   *)
(* waiter, and a lock may have left the registry: still every waiter waits *)
(* for a request that holds its lock, or for one that is about to have it. *)

\* Among some requests one was the first.
LEMMA OneIsFirst ==
  ASSUME NEW f \in [Requests -> Nat], NEW W \in SUBSET Requests, W # {}
  PROVE  \E s \in W : \A t \in W : f[s] <= f[t]
<1> DEFINE S == {f[s] : s \in W}
<1>1. S \subseteq Nat /\ S # {}  OBVIOUS
<1>2. PICK R : R = {ss \in Nat \X Nat : ss[1] < ss[2]}  OBVIOUS
<1>3. IsWellFoundedOn(R, Nat)  BY <1>2, NatLessThanWellFounded DEF OpToRel
<1>4. PICK n \in S : \A m \in S : <<m, n>> \notin R  BY <1>1, <1>3, WFMin
<1>5. ASSUME NEW m \in S PROVE n <= m
  <2>1. m \in Nat /\ n \in Nat  BY <1>1
  <2>2. m < n => <<m, n>> \in Nat \X Nat /\ <<m, n>>[1] < <<m, n>>[2]  BY <2>1
  <2>3. m < n => <<m, n>> \in R  BY <1>2, <2>2, Zenon
  <2> QED  BY <1>4, <2>1, <2>3
<1>6. PICK s \in W : n = f[s]  OBVIOUS
<1> QED  BY <1>5, <1>6

\* An unlocked lock that is waited for has a waiter that will run.
WakeUpKept ==
  \A r \in Requests : pc[r] = "waiting" /\ lock[r] \notin locked =>
    \E s \in woken : pc[s] = "waiting" /\ lock[s] = lock[r]

NobodyForgotten ==
  \A r \in Requests : pc[r] = "waiting" =>
    \/ \E s \in Processing : lock[s] = lock[r]
    \/ \E s \in woken : pc[s] = "waiting" /\ lock[s] = lock[r] /\ ticket[s] <= ticket[r]

\* A lock goes to the waiter that asked first, and past no waiter.
ServedInOrder ==
  [][\A r \in Requests : r \in Processing' \ Processing =>
       \A s \in Waiters(lock'[r]) \ {r} : pc[r] = "waiting" /\ ticket[r] < ticket[s]]_vars

LEMMA Step_WakeUp == IInv /\ WakeUpKept /\ [Next]_vars => WakeUpKept'
<1> SUFFICES ASSUME IInv, WakeUpKept, [Next]_vars PROVE WakeUpKept'  OBVIOUS
<1> USE DEF IInv, TypeOK, WakeUpKept
<1>1. CASE UNCHANGED vars  BY <1>1 DEF vars
<1>2. ASSUME NEW r \in Requests, ArriveFirst(r) PROVE WakeUpKept'
  <2> USE <1>2 DEF ArriveFirst, Free, Waiters, Holds
  <2>1. \A s \in Requests : pc'[s] = "waiting" => s # r /\ pc[s] = "waiting" /\ lock'[s] = lock[s]
    OBVIOUS
  <2>2. \A s \in woken : s # r /\ pc[s] = "waiting" => pc'[s] = "waiting" /\ lock'[s] = lock[s]
    OBVIOUS
  <2> QED  BY <2>1, <2>2
<1>3. ASSUME NEW r \in Requests, ArriveLater(r) PROVE WakeUpKept'
  <2>1. lock'[r] \in locked /\ locked' = locked /\ woken' = woken  BY <1>3 DEF ArriveLater
  <2>2. \A s \in Requests \ {r} : pc'[s] = pc[s] /\ lock'[s] = lock[s]  BY <1>3 DEF ArriveLater
  <2>3. \A s \in woken : pc[s] = "waiting" => s # r  BY <1>3 DEF ArriveLater
  <2> QED  BY <2>1, <2>2, <2>3
<1>4. ASSUME NEW r \in Requests, Resume(r) PROVE WakeUpKept'
  <2> USE <1>4 DEF Resume
  <2>1. ASSUME NEW s \in Requests, pc'[s] = "waiting", lock'[s] \notin locked'
        PROVE  \E q \in woken' : pc'[q] = "waiting" /\ lock'[q] = lock'[s]
    <3>1. pc[s] = "waiting" /\ lock[s] \notin locked /\ lock[s] # lock[r]  BY <2>1
    <3>2. PICK q \in woken : pc[q] = "waiting" /\ lock[q] = lock[s]  BY <3>1
    <3> QED  BY <3>1, <3>2
  <2> QED  BY <2>1
<1>5. ASSUME NEW r \in Requests, Finish(r) PROVE WakeUpKept'
  <2> USE <1>5 DEF Finish, Release
  <2>1. ASSUME NEW s \in Requests, pc'[s] = "waiting", lock'[s] \notin locked'
        PROVE  \E q \in woken' : pc'[q] = "waiting" /\ lock'[q] = lock'[s]
    <3>1. pc[s] = "waiting" /\ lock' = lock /\ pc[r] = "processing"  BY <2>1
    <3>2. CASE lock[s] = lock[r]
      <4>1. Waiters(lock[r]) \in SUBSET Requests /\ s \in Waiters(lock[r])  BY <3>1, <3>2 DEF Waiters
      <4>2. PICK q \in Waiters(lock[r]) : \A t \in Waiters(lock[r]) : ticket[q] <= ticket[t]
        BY <4>1, OneIsFirst
      <4>3. q \in woken'  BY <4>2 DEF Wake, IsFirst
      <4>4. q \in Requests /\ pc[q] = "waiting" /\ lock[q] = lock[r]  BY <4>2 DEF Waiters
      <4> QED  BY <3>1, <3>2, <4>3, <4>4
    <3>3. CASE lock[s] # lock[r]
      <4>1. PICK q \in woken : pc[q] = "waiting" /\ lock[q] = lock[s]  BY <2>1, <3>1, <3>3
      <4> QED  BY <3>1, <4>1 DEF Wake
    <3> QED  BY <3>2, <3>3
  <2> QED  BY <2>1
<1>6. ASSUME NEW r \in Requests, Leave(r) PROVE WakeUpKept'
  BY <1>6 DEF Leave
<1>7. ASSUME NEW r \in Requests, TimesOut(r) PROVE WakeUpKept'
  <2> USE <1>7 DEF TimesOut
  <2>1. ASSUME NEW s \in Requests, pc'[s] = "waiting", lock'[s] \notin locked'
        PROVE  \E q \in woken' : pc'[q] = "waiting" /\ lock'[q] = lock'[s]
    <3>1. pc[s] = "waiting" /\ s # r /\ lock' = lock /\ locked' = locked  BY <2>1
    <3>2. CASE lock[s] = lock[r]
      <4> DEFINE W == Waiters(lock[r]) \ {r}
      <4>1. W \in SUBSET Requests /\ s \in W  BY <3>1, <3>2 DEF Waiters
      <4>2. PICK q \in W : \A t \in W : ticket[q] <= ticket[t]  BY <4>1, OneIsFirst
      <4>3. q \in Wake(W) \ {r}  BY <4>2 DEF Wake, IsFirst
      <4>4. woken' = Wake(W) \ {r}  BY <2>1, <3>1, <3>2
      <4>5. q \in Requests /\ q # r /\ pc[q] = "waiting" /\ lock[q] = lock[r]  BY <4>2 DEF Waiters
      <4> QED  BY <3>1, <3>2, <4>3, <4>4, <4>5
    <3>3. CASE lock[s] # lock[r]
      <4>1. PICK q \in woken : pc[q] = "waiting" /\ lock[q] = lock[s]  BY <2>1, <3>1
      <4>2. q # r /\ q \in woken'  BY <3>3, <4>1 DEF Wake
      <4> QED  BY <3>1, <4>1, <4>2
    <3> QED  BY <3>2, <3>3
  <2> QED  BY <2>1
<1> QED  BY <1>1, <1>2, <1>3, <1>4, <1>5, <1>6, <1>7 DEF Next, Step

\* Whoever waits for a lock waits for a request that processes the video with it, or for a woken
\* waiter that came no later, itself perhaps; also when a wait timed out while its
\* wake-up was on the way, and when the lock is no longer the video's.
THEOREM NoWaiterIsForgotten == Spec => []NobodyForgotten
<1>1. Init => WakeUpKept /\ LockedIsHeld  BY DEF Init, WakeUpKept, LockedIsHeld
<1>2. IInv /\ WakeUpKept /\ LockedIsHeld => NobodyForgotten
  <2> SUFFICES ASSUME IInv, WakeUpKept, LockedIsHeld, NEW r \in Requests, pc[r] = "waiting"
               PROVE  \/ \E s \in Processing : lock[s] = lock[r]
                      \/ \E s \in woken : pc[s] = "waiting" /\ lock[s] = lock[r] /\ ticket[s] <= ticket[r]
    BY DEF NobodyForgotten
  <2>1. CASE lock[r] \in locked  BY <2>1 DEF LockedIsHeld
  <2>2. CASE lock[r] \notin locked
    <3>1. PICK s \in woken : pc[s] = "waiting" /\ lock[s] = lock[r]  BY <2>2 DEF WakeUpKept
    <3>2. ticket[s] <= ticket[r]  BY <3>1 DEF IInv, WokenIsFirst, IsFirst, Waiters
    <3> QED  BY <3>1, <3>2
  <2> QED  BY <2>1, <2>2
<1> QED  BY InitIInv, Step_IInv, Step_WakeUp, Step_Held, <1>1, <1>2, PTL DEF Spec

\* With one lock the requests are served in the order in which they began to wait; none that
\* comes later takes the lock in front of a waiter, although it is free while the wake-up is on
\* the way.
THEOREM WaitersAreServedInOrder == Spec => ServedInOrder
<1>1. IInv /\ [Next]_vars =>
        [\A r \in Requests : r \in Processing' \ Processing =>
           \A s \in Waiters(lock'[r]) \ {r} : pc[r] = "waiting" /\ ticket[r] < ticket[s]]_vars
  <2> SUFFICES ASSUME IInv, Next, NEW r \in Requests, r \in Processing', r \notin Processing,
                      NEW s \in Requests, s \in Waiters(lock'[r]), s # r
               PROVE  pc[r] = "waiting" /\ ticket[r] < ticket[s]
    BY DEF Waiters
  <2> USE DEF IInv, TypeOK, Processing
  <2>1. pc[r] # "processing" /\ pc'[r] = "processing"  OBVIOUS
  <2>2. pc[s] = "waiting" /\ lock[s] = lock'[r]  BY DEF Waiters
  <2>3. ASSUME NEW q \in Requests, ArriveFirst(q) PROVE FALSE
    <3>1. q = r  BY <2>1, <2>3 DEF ArriveFirst
    <3>2. lock'[r] = registry'  BY <2>3, <3>1 DEF ArriveFirst
    <3>3. CASE registry = 0
      <4>1. registry' = made + 1 /\ lock[s] \in 1..made  BY <2>2, <2>3, <3>3 DEF ArriveFirst, Holds
      <4> QED  BY <2>2, <3>2, <4>1
    <3>4. CASE registry # 0
      <4>1. registry' = registry /\ Waiters(registry) = {}  BY <2>3, <3>4 DEF ArriveFirst, Free
      <4> QED  BY <2>2, <3>2, <4>1 DEF Waiters
    <3> QED  BY <3>3, <3>4
  <2>4. ASSUME NEW q \in Requests, Resume(q) PROVE pc[r] = "waiting" /\ ticket[r] < ticket[s]
    <3>1. q = r /\ pc[r] = "waiting" /\ r \in woken /\ lock' = lock  BY <2>1, <2>4 DEF Resume
    <3>2. ticket[r] <= ticket[s]  BY <2>2, <3>1 DEF WokenIsFirst, IsFirst, Waiters
    <3>3. ticket[r] # ticket[s]  BY <2>2, <3>1 DEF Tickets
    <3> QED  BY <3>1, <3>2, <3>3
  <2>5. ASSUME NEW q \in Requests, ArriveLater(q) \/ Finish(q) \/ Leave(q) \/ TimesOut(q) PROVE FALSE
    BY <2>1, <2>5 DEF ArriveLater, Finish, Leave, TimesOut
  <2> QED  BY <2>3, <2>4, <2>5 DEF Next, Step
<1> QED  BY InitIInv, Step_IInv, <1>1, PTL DEF Spec, ServedInOrder

-----------------------------------------------------------------------------
(* The daily limit.                                                        *)

\* The types of the row and of what is charged against it.
RowTypes ==
  /\ phase \in [Requests -> Phases]
  /\ day \in 1..Days
  /\ row \in [count : Nat, date : Nat]
  /\ charged \in [Requests -> Nat]
  /\ late \in [1..Days -> Nat] /\ errors \in Nat

\* Nothing is charged to a day to come, and only reservations that passed are.
ChargesArePast ==
  /\ row.date <= day
  /\ \A r \in Requests : charged[r] <= row.date
  /\ \A r \in Requests : charged[r] # 0 => phase[r] \in {"admitted", "refunded"}

\* No slot was given back on a later day, and the database never failed.
Clean == errors = 0 /\ \A d \in 1..Days : late[d] = 0

\* What LedgerAgrees says, and that every admitted request was charged.
CleanLedger ==
  Clean =>
    /\ \A r \in Requests : phase[r] \in {"admitted", "refunded"} => charged[r] # 0
    /\ row.date = 0 => row.count = 0
    /\ row.date # 0 => row.count = Cardinality(Used(row.date))

LedgerInv == RowTypes /\ ChargesArePast /\ CleanLedger

\* A set of requests has a size, which one more or one less changes by one.
LEMMA SetsOfRequests ==
  ASSUME NEW S \in SUBSET Requests, NEW r \in Requests
  PROVE  /\ Cardinality(S) \in Nat
         /\ Cardinality(S \cup {r}) = (IF r \in S THEN Cardinality(S) ELSE Cardinality(S) + 1)
         /\ Cardinality(S \ {r}) = (IF r \in S THEN Cardinality(S) - 1 ELSE Cardinality(S))
         /\ Cardinality({r}) = 1
         /\ r \in S => Cardinality(S) > 0
<1>1. IsFiniteSet(S)  BY AdmissionAssumption, FS_Subset
<1>2. Cardinality(S) \in Nat  BY <1>1, FS_CardinalityType
<1>3. Cardinality(S \ {r}) = (IF r \in S THEN Cardinality(S) - 1 ELSE Cardinality(S))
  BY <1>1, FS_RemoveElement
<1>4. Cardinality(S \cup {r}) = (IF r \in S THEN Cardinality(S) ELSE Cardinality(S) + 1)
  BY <1>1, FS_AddElement
<1>5. Cardinality({r}) = 1  BY FS_Singleton
<1>6. Cardinality(S \ {r}) \in Nat  BY <1>1, FS_RemoveElement, FS_CardinalityType
<1> QED  BY <1>2, <1>3, <1>4, <1>5, <1>6

\* Nothing is reserved.
LEMMA InitLedger == AdmissionInit => LedgerInv
  BY AdmissionAssumption DEF AdmissionInit, LedgerInv, RowTypes, Phases, ChargesArePast, CleanLedger, Clean

\* The reservation is charged to today, and today's slots are one more.
LEMMA Charge_Ledger ==
  ASSUME LedgerInv, NEW r \in Requests, phase[r] = "passed", Charge(r),
         phase' = [phase EXCEPT ![r] = "admitted"],
         UNCHANGED <<day, late, errors>>
  PROVE  LedgerInv'
<1> USE DEF LedgerInv, RowTypes, Phases, ChargesArePast
<1>1. day \in Nat \ {0}  BY AdmissionAssumption
<1>2. charged[r] = 0  OBVIOUS
<1>3. /\ row'.date = day /\ charged' = [charged EXCEPT ![r] = day]
      /\ row'.count = (IF row.date = day THEN row.count + 1 ELSE 1)
      /\ row' \in [count : Nat, date : Nat]
  BY <1>1 DEF Charge
<1>4. RowTypes'  BY <1>1, <1>3
<1>5. ChargesArePast'  BY <1>1, <1>3
<1>6. CleanLedger'
  <2> SUFFICES ASSUME Clean'
               PROVE /\ \A s \in Requests : phase'[s] \in {"admitted", "refunded"} => charged'[s] # 0
                     /\ row'.count = Cardinality(Used(day)')
    BY <1>1, <1>3 DEF CleanLedger, Used
  <2>1. Clean  BY DEF Clean
  <2>2. \A s \in Requests : phase'[s] \in {"admitted", "refunded"} => charged'[s] # 0
    BY <2>1, <1>1, <1>3 DEF CleanLedger
  <2>3. Used(day)' = Used(day) \cup {r}  BY <1>1, <1>3 DEF Used
  <2>4. Used(day) \in SUBSET Requests /\ r \notin Used(day)  BY <1>1, <1>2 DEF Used
  <2>5. CASE row.date = day
    <3>1. Cardinality(Used(day)') = Cardinality(Used(day)) + 1
      BY <2>3, <2>4, SetsOfRequests
    <3>2. row.count = Cardinality(Used(day))  BY <2>1, <2>5, <1>1 DEF CleanLedger
    <3> QED  BY <3>1, <3>2, <2>2, <2>5, <1>3
  <2>6. CASE row.date # day
    <3>1. Used(day) = {}  BY <2>6, <1>1 DEF Used
    <3>2. Used(day)' = {r}  BY <3>1, <2>3
    <3>3. Cardinality({r}) = 1  BY FS_Singleton
    <3> QED  BY <3>2, <3>3, <2>2, <2>6, <1>3
  <2> QED  BY <2>2, <2>5, <2>6
<1> QED  BY <1>4, <1>5, <1>6

\* Of a slot of today, the row gives one back; of another day's, it is late.
LEMMA Refund_Ledger ==
  ASSUME LedgerInv, NEW r \in Requests, Refund(r)
  PROVE  LedgerInv'
<1> USE DEF LedgerInv, RowTypes, Phases, ChargesArePast
<1>1. day \in Nat \ {0} /\ day' = day /\ charged' = charged
  BY AdmissionAssumption DEF Refund
<1>2. phase[r] = "admitted" /\ phase' = [phase EXCEPT ![r] = "refunded"]
  BY DEF Refund
<1>3. row' \in [count : Nat, date : Nat] /\ row'.date = row.date
  BY DEF Refund, GiveBack
<1>4. late' \in [1..Days -> Nat] /\ errors' \in Nat  BY DEF Refund
<1>5. RowTypes' /\ ChargesArePast'  BY <1>1, <1>2, <1>3, <1>4
<1>6. CleanLedger'
  <2> SUFFICES ASSUME Clean'
               PROVE /\ \A s \in Requests : phase'[s] \in {"admitted", "refunded"} => charged'[s] # 0
                     /\ row'.date = 0 => row'.count = 0
                     /\ row'.date # 0 => row'.count = Cardinality(Used(row.date)')
    BY <1>3 DEF CleanLedger, Used
  <2>1. /\ GiveBack /\ errors' = errors
        /\ late' = [late EXCEPT ![day] = IF charged[r] # day THEN @ + 1 ELSE @]
    BY DEF Refund, Clean
  <2>2. charged[r] = day
    BY <2>1, late'[day] = 0 DEF Clean
  <2>3. Clean
    BY <2>1, <2>2 DEF Clean
  <2>4. row.date = day  BY <1>1, <2>2
  <2>5. Used(day)' = Used(day) \ {r} /\ r \in Used(day)
    BY <1>1, <1>2, <2>2 DEF Used
  <2>6. Used(day) \in SUBSET Requests  BY DEF Used
  <2>7. row.count = Cardinality(Used(day)) /\ row.count > 0
    <3>1. Cardinality(Used(day)) > 0  BY <2>5, <2>6, SetsOfRequests
    <3>2. row.count = Cardinality(Used(day))  BY <2>3, <2>4, <1>1 DEF CleanLedger
    <3> QED  BY <3>1, <3>2
  <2>8. row'.count = row.count - 1  BY <2>1, <2>4, <2>7 DEF GiveBack
  <2>9. row'.count = Cardinality(Used(day)')
    BY ZenonT(60), <2>5, <2>6, <2>7, <2>8, SetsOfRequests
  <2> QED  BY <2>3, <2>4, <2>9, <1>1, <1>2, <1>3 DEF CleanLedger
<1> QED  BY <1>5, <1>6

\* The other steps reserve nothing and give nothing back.
LEMMA Step_Ledger == LedgerInv /\ [AdmissionNext]_admissionVars => LedgerInv'
<1> SUFFICES ASSUME LedgerInv, [AdmissionNext]_admissionVars PROVE LedgerInv'  OBVIOUS
<1> USE DEF LedgerInv, RowTypes, Phases, ChargesArePast
<1>0. ASSUME UNCHANGED rowVars PROVE LedgerInv'
  BY <1>0 DEF rowVars, CleanLedger, Clean, Used
<1>1. CASE UNCHANGED admissionVars  BY <1>1, <1>0 DEF admissionVars
<1>2. ASSUME NEW r \in Requests, TakeUserLock(r) \/ UseVideo(r) \/ Depart(r) PROVE LedgerInv'
  BY <1>2, <1>0 DEF TakeUserLock, UseVideo, Depart
<1>3. ASSUME NEW r \in Requests, Check(r) PROVE LedgerInv'
  <2>1. UNCHANGED <<day, row, charged, late>> /\ phase[r] = "asking"  BY <1>3 DEF Check
  <2>2. /\ errors' \in Nat /\ (errors' = 0 => errors = 0)
        /\ phase' \in [Requests -> Phases] /\ phase'[r] \in {"passed", "refused"}
        /\ \A s \in Requests \ {r} : phase'[s] = phase[s]
    BY <1>3 DEF Check
  <2>3. charged[r] = 0  BY <2>1
  <2>4. \A d \in Nat \ {0} : Used(d)' = Used(d)  BY <2>1, <2>2, <2>3 DEF Used
  <2>5. RowTypes' /\ ChargesArePast'  BY <2>1, <2>2, <2>3
  <2>6. CleanLedger'  BY <2>1, <2>2, <2>4 DEF CleanLedger, Clean
  <2> QED  BY <2>5, <2>6
<1>4. ASSUME NEW r \in Requests, Reserve(r) PROVE LedgerInv'
  <2>1. CASE Charge(r) /\ UNCHANGED errors
    BY <1>4, <2>1, Charge_Ledger DEF Reserve
  <2>2. CASE errors' = errors + 1 /\ UNCHANGED <<row, cooling, charged>>
    <3>1. UNCHANGED <<day, late>> /\ phase' = [phase EXCEPT ![r] = "admitted"]
      BY <1>4 DEF Reserve
    <3>2. RowTypes' /\ ChargesArePast'  BY <2>2, <3>1
    <3>3. CleanLedger'  BY <2>2 DEF CleanLedger, Clean
    <3> QED  BY <3>2, <3>3
  <2> QED  BY <1>4, <2>1, <2>2 DEF Reserve
<1>5. ASSUME NEW r \in Requests, Refund(r) PROVE LedgerInv'  BY <1>5, Refund_Ledger
<1>6. CASE DropUnlocked  BY <1>6, <1>0 DEF DropUnlocked
<1>7. CASE CoolDown  BY <1>7 DEF CoolDown, CleanLedger, Clean, Used
<1>8. CASE Midnight  BY <1>8, AdmissionAssumption DEF Midnight, CleanLedger, Clean, Used
<1> QED  BY <1>1, <1>2, <1>3, <1>4, <1>5, <1>6, <1>7, <1>8 DEF AdmissionNext, AdmissionStep

\* The row counts the slots in use, for every number of requests and days, in
\* whatever order they are reserved and given back, unless a slot was given
\* back on a later day or the database failed.
THEOREM RowCountsSlots == AdmissionSpec => []LedgerAgrees
<1>1. LedgerInv => LedgerAgrees
  <2> SUFFICES ASSUME LedgerInv, Clean
               PROVE  row.count = Cardinality(Used(row.date) \ {r \in Requests : row.date = 0})
    BY DEF LedgerAgrees, Clean
  <2>1. CASE row.date = 0
    <3>1. Used(row.date) \ {r \in Requests : row.date = 0} = {}  BY <2>1 DEF Used
    <3> QED  BY <2>1, <3>1, FS_EmptySet DEF LedgerInv, CleanLedger
  <2>2. CASE row.date # 0
    <3>1. Used(row.date) \ {r \in Requests : row.date = 0} = Used(row.date)  BY <2>2
    <3> QED  BY <2>2, <3>1 DEF LedgerInv, CleanLedger
  <2> QED  BY <2>1, <2>2
<1> QED  BY InitLedger, Step_Ledger, <1>1, PTL DEF AdmissionSpec

-----------------------------------------------------------------------------
(* How far the limit can be exceeded.  The user's lock is the lock of a    *)
(* video with one difference: its entry may leave the registry while it is *)
(* unlocked, and stays there after a release.                              *)

UserTypes ==
  /\ rpc \in [Requests -> {"new", "waiting", "processing", "over"}]
  /\ rlock \in [Requests -> Nat]
  /\ rmade \in Nat /\ rarrived \in Nat
  /\ rlocked \in SUBSET (1..rmade) /\ rregistry \in 0..rmade
  /\ rwoken \in SUBSET Requests
  /\ rticket \in [Requests -> Nat]
  /\ orphaned \in SUBSET Requests

UserTickets ==
  /\ \A r \in Requests : rticket[r] <= rarrived
  /\ \A r, s \in Requests : rticket[r] # 0 /\ rticket[r] = rticket[s] => r = s
  /\ \A r \in Requests : rpc[r] = "waiting" => rticket[r] # 0

UserHolds ==
  \A r \in Requests :
    /\ rpc[r] = "processing" => rlock[r] \in rlocked
    /\ rpc[r] = "waiting" => rlock[r] \in 1..rmade

UserExcludes ==
  \A r, s \in Requests :
    rpc[r] = "processing" /\ rpc[s] = "processing" /\ rlock[r] = rlock[s] => r = s

UserWoken ==
  \A r \in rwoken :
    /\ rpc[r] = "waiting" /\ rlock[r] \notin rlocked
    /\ \A s \in Requests : rpc[s] = "waiting" /\ rlock[s] = rlock[r] => rticket[r] <= rticket[s]

\* Who holds or awaits a user's lock that was not dropped has the registered one.
UserFirst ==
  \A r \in Requests :
    rpc[r] \in {"waiting", "processing"} /\ r \notin orphaned => rlock[r] = rregistry

\* A request is inside the lock exactly while it checks and reserves.
Inside ==
  \A r \in Requests :
    /\ phase[r] = "passed" => rpc[r] = "processing"
    /\ phase[r] \in {"admitted", "refused", "refunded"} => rpc[r] = "over"

UserInv ==
  /\ UserTypes /\ UserTickets /\ UserHolds /\ UserExcludes /\ UserWoken /\ UserFirst
  /\ Inside

\* Nobody holds or awaits the user's lock.
LEMMA InitUser == AdmissionInit => UserInv
  BY DEF AdmissionInit, UserLock!Init, UserInv, UserTypes, UserTickets, UserHolds, UserExcludes,
         UserWoken, UserFirst, Inside

\* Taking the lock.
LEMMA Take_User ==
  ASSUME UserInv, RowTypes, NEW r \in Requests, TakeUserLock(r)
  PROVE  UserInv'
<1> USE DEF UserInv, UserTypes, UserTickets, UserHolds, UserExcludes, UserWoken, UserFirst,
            Inside, UserLock!Free, UserLock!Waiters
<1>0. UNCHANGED <<phase, orphaned>>  BY DEF TakeUserLock, rowVars
<1>1. CASE UserLock!ArriveFirst(r)
  <2> USE <1>0, <1>1 DEF UserLock!ArriveFirst
  <2>1. UserTypes' /\ UserTickets'  OBVIOUS
  <2>2. UserHolds' /\ UserExcludes'
    <3>1. \A s \in Requests \ {r} : rpc'[s] = rpc[s] /\ rlock'[s] = rlock[s]  OBVIOUS
    <3>2. rlock'[r] = rregistry' /\ rregistry' \in rlocked' /\ rregistry' \notin rlocked  OBVIOUS
    <3>3. rlocked \subseteq rlocked' /\ rmade <= rmade'  OBVIOUS
    <3>4. \A s \in Requests : rpc[s] = "processing" => rlock[s] # rregistry'  BY <3>2
    <3> QED  BY <3>1, <3>2, <3>3, <3>4
  <2>3. UserWoken'  OBVIOUS
  <2>4. UserFirst' /\ Inside'  OBVIOUS
  <2> QED  BY <2>1, <2>2, <2>3, <2>4
<1>2. CASE UserLock!ArriveLater(r)
  <2> USE <1>0, <1>2 DEF UserLock!ArriveLater
  <2>1. UserTypes' /\ UserTickets'  OBVIOUS
  <2>2. UserHolds' /\ UserExcludes'  OBVIOUS
  <2>3. UserWoken'  OBVIOUS
  <2>4. UserFirst' /\ Inside'  OBVIOUS
  <2> QED  BY <2>1, <2>2, <2>3, <2>4
<1>3. CASE UserLock!Resume(r)
  <2> USE <1>0, <1>3 DEF UserLock!Resume
  <2>1. UserTypes' /\ UserTickets'  OBVIOUS
  <2>2. UserHolds' /\ UserExcludes'  OBVIOUS
  <2>3. UserWoken'  OBVIOUS
  <2>4. UserFirst' /\ Inside'  OBVIOUS
  <2> QED  BY <2>1, <2>2, <2>3, <2>4
<1> QED  BY <1>1, <1>2, <1>3 DEF TakeUserLock

\* Releasing the lock, which wakes the first waiter.
LEMMA Leave_User ==
  ASSUME UserInv, RowTypes, NEW r \in Requests, rpc[r] = "processing", LeaveUserLock(r),
         \A s \in Requests \ {r} : phase'[s] = phase[s],
         phase'[r] \in {"admitted", "refused"}
  PROVE  UserInv'
<1> USE DEF UserInv, UserTypes, UserTickets, UserHolds, UserExcludes, UserWoken, UserFirst,
            Inside, LeaveUserLock, UserLock!Release, UserLock!Wake, UserLock!Waiters,
            UserLock!IsFirst
<1>1. UserTypes' /\ UserTickets'  OBVIOUS
<1>2. UserHolds' /\ UserExcludes'  OBVIOUS
<1>3. UserWoken'  OBVIOUS
<1>4. UserFirst' /\ Inside'  OBVIOUS
<1> QED  BY <1>1, <1>2, <1>3, <1>4

\* An unlocked lock that leaves the registry orphans those that wait for it.
LEMMA Step_User == UserInv /\ LedgerInv /\ [AdmissionNext]_admissionVars => UserInv'
<1> SUFFICES ASSUME UserInv, LedgerInv, [AdmissionNext]_admissionVars PROVE UserInv'  OBVIOUS
<1>0. RowTypes  BY DEF LedgerInv
<1> USE DEF UserInv, UserTypes, UserTickets, UserHolds, UserExcludes, UserWoken, UserFirst, Inside
<1>1. ASSUME UNCHANGED rlockVars, UNCHANGED phase PROVE UserInv'
  BY <1>1 DEF rlockVars
<1>2. CASE UNCHANGED admissionVars  BY <1>1, <1>2 DEF admissionVars, rowVars
<1>3. ASSUME NEW r \in Requests, TakeUserLock(r) PROVE UserInv'
  BY <1>0, <1>3, Take_User
<1>4. ASSUME NEW r \in Requests, Check(r) PROVE UserInv'
  <2>1. CASE phase' = [phase EXCEPT ![r] = "passed"] /\ UNCHANGED rlockVars
    BY <1>0, <1>4, <2>1 DEF Check, rlockVars, RowTypes
  <2>2. CASE phase' = [phase EXCEPT ![r] = "refused"] /\ LeaveUserLock(r)
    <3>1. rpc[r] = "processing"  BY <1>4 DEF Check
    <3>2. phase'[r] \in {"admitted", "refused"} /\ \A s \in Requests \ {r} : phase'[s] = phase[s]
      BY <1>0, <2>2 DEF RowTypes
    <3> QED  BY <1>0, <2>2, <3>1, <3>2, Leave_User
  <2> QED  BY <1>4, <2>1, <2>2 DEF Check
<1>5. ASSUME NEW r \in Requests, Reserve(r) PROVE UserInv'
  <2>1. rpc[r] = "processing" /\ LeaveUserLock(r)  BY <1>5 DEF Reserve
  <2>2. phase'[r] \in {"admitted", "refused"} /\ \A s \in Requests \ {r} : phase'[s] = phase[s]
    BY <1>0, <1>5 DEF Reserve, RowTypes
  <2> QED  BY <1>0, <2>1, <2>2, Leave_User
<1>6. ASSUME NEW r \in Requests, Refund(r) PROVE UserInv'
  BY <1>0, <1>6 DEF Refund, rlockVars, RowTypes
<1>7. ASSUME NEW r \in Requests, UseVideo(r) \/ Depart(r) PROVE UserInv'
  BY <1>1, <1>7 DEF UseVideo, Depart, rowVars
<1>8. CASE DropUnlocked  BY <1>8 DEF DropUnlocked, rowVars, UserLock!Waiters
<1>9. CASE CoolDown \/ Midnight  BY <1>1, <1>9 DEF CoolDown, Midnight
<1> QED  BY <1>2, <1>3, <1>4, <1>5, <1>6, <1>7, <1>8, <1>9 DEF AdmissionNext, AdmissionStep

\* Slots of day d in use by requests under which no user's lock was dropped.
Unhanded(d) == Used(d) \ orphaned

\* What the row counts for today.
TodaysCount == IF row.date = day THEN row.count ELSE 0

\* The bound that LimitHolds states.
Allowed(d) == DailyLimit + late[d] + errors

\* A request with the registered lock that passed the check leaves room for itself.
RoomForPassed ==
  \A r \in Requests :
    phase[r] = "passed" /\ r \notin orphaned => Cardinality(Unhanded(day)) < Allowed(day)

\* The row misses a slot of today only by a late refund or an error.
RowMissesFew == Cardinality(Used(day)) <= TodaysCount + late[day] + errors

Within == \A d \in 1..Days : Cardinality(Unhanded(d)) <= Allowed(d)

LimitInv == Within /\ RoomForPassed /\ RowMissesFew

\* Sizes of sets of requests are ordered as the sets are.
LEMMA FewerRequests ==
  ASSUME NEW S \in SUBSET Requests, NEW T \in SUBSET S
  PROVE  Cardinality(S) \in Nat /\ Cardinality(T) \in Nat /\ Cardinality(T) <= Cardinality(S)
<1>1. IsFiniteSet(S)  BY AdmissionAssumption, FS_Subset
<1> QED  BY <1>1, FS_Subset, FS_CardinalityType

\* The sizes that the invariant is about are numbers.
LEMMA SizesOfSlots ==
  ASSUME LedgerInv, NEW d \in 1..Days
  PROVE  /\ Used(d) \in SUBSET Requests /\ Unhanded(d) \in SUBSET Used(d)
         /\ Cardinality(Used(d)) \in Nat /\ Cardinality(Unhanded(d)) \in Nat
         /\ Cardinality(Unhanded(d)) <= Cardinality(Used(d))
         /\ Allowed(d) \in Nat /\ TodaysCount \in Nat
<1>1. Used(d) \in SUBSET Requests /\ Unhanded(d) \in SUBSET Used(d)  BY DEF Used, Unhanded
<1>2. Allowed(d) \in Nat /\ TodaysCount \in Nat
  BY AdmissionAssumption DEF LedgerInv, RowTypes, Allowed, TodaysCount
<1> QED  BY <1>1, <1>2, FewerRequests

\* No slot is in use and nobody is inside the lock.
LEMMA InitLimit == AdmissionInit => LimitInv
<1> SUFFICES ASSUME AdmissionInit PROVE LimitInv  OBVIOUS
<1>1. \A d \in 1..Days : Used(d) = {} /\ Unhanded(d) = {}
  BY AdmissionAssumption DEF AdmissionInit, Used, Unhanded
<1>2. LedgerInv  BY InitLedger
<1>3. day \in 1..Days  BY <1>2 DEF LedgerInv, RowTypes
<1>4. Cardinality({}) = 0  BY FS_EmptySet
<1>5. Within  BY <1>1, <1>2, <1>4, SizesOfSlots DEF Within
<1>6. RoomForPassed  BY DEF AdmissionInit, RoomForPassed
<1>7. RowMissesFew
  <2>1. Cardinality(Used(day)) = 0  BY <1>1, <1>3, <1>4
  <2>2. TodaysCount \in Nat /\ late[day] \in Nat /\ errors \in Nat
    BY <1>2, <1>3, SizesOfSlots DEF LedgerInv, RowTypes
  <2> QED  BY <2>1, <2>2 DEF RowMissesFew
<1> QED  BY <1>5, <1>6, <1>7 DEF LimitInv

\* A step that charges nothing: slots in use are no more than before, the bounds
\* no less, and who is inside the lock is no new one.
LEMMA Quiet_Limit ==
  ASSUME LimitInv, LedgerInv, LedgerInv', day' = day, row' = row,
         \A d \in 1..Days : Used(d)' \subseteq Used(d) /\ Unhanded(d)' \subseteq Unhanded(d),
         \A d \in 1..Days : late'[d] >= late[d],
         errors' >= errors,
         \A r \in Requests : phase'[r] = "passed" /\ r \notin orphaned'
                               => phase[r] = "passed" /\ r \notin orphaned
  PROVE  LimitInv'
<1>1. day \in 1..Days  BY DEF LedgerInv, RowTypes
<1>2. \A d \in 1..Days :
        /\ Cardinality(Used(d)') <= Cardinality(Used(d))
        /\ Cardinality(Unhanded(d)') <= Cardinality(Unhanded(d))
        /\ Cardinality(Used(d)') \in Nat /\ Cardinality(Unhanded(d)') \in Nat
  BY SizesOfSlots, FewerRequests
<1>3. \A d \in 1..Days : Allowed(d)' \in Nat /\ Allowed(d)' >= Allowed(d)
  BY SMTT(30), AdmissionAssumption DEF LedgerInv, RowTypes, Allowed
<1>4. Within'
  <2> SUFFICES ASSUME NEW d \in 1..Days PROVE Cardinality(Unhanded(d)') <= Allowed(d)'
    BY DEF Within
  <2> QED  BY <1>2, <1>3, SizesOfSlots DEF LimitInv, Within
<1>5. RoomForPassed'
  <2> SUFFICES ASSUME NEW r \in Requests, phase'[r] = "passed", r \notin orphaned'
               PROVE  Cardinality(Unhanded(day)') < Allowed(day)'
    BY DEF RoomForPassed, Unhanded, Used, Allowed
  <2>1. Cardinality(Unhanded(day)) < Allowed(day)  BY DEF LimitInv, RoomForPassed
  <2> QED  BY <1>1, <1>2, <1>3, <2>1, SizesOfSlots
<1>6. RowMissesFew'
  <2>1. TodaysCount' = TodaysCount  BY DEF TodaysCount
  <2>2. Cardinality(Used(day)) <= TodaysCount + late[day] + errors  BY DEF LimitInv, RowMissesFew
  <2>3. late'[day] \in Nat /\ late[day] \in Nat /\ errors' \in Nat /\ errors \in Nat
    BY <1>1 DEF LedgerInv, RowTypes
  <2>4. Cardinality(Used(day)') <= TodaysCount' + late'[day] + errors'
    BY <1>1, <1>2, <2>1, <2>2, <2>3, SizesOfSlots
  <2> QED  BY <2>4 DEF RowMissesFew, Used
<1> QED  BY <1>4, <1>5, <1>6 DEF LimitInv

\* The check looks at a row that misses few slots, and the request with
\* the registered lock is alone inside.
LEMMA Check_Limit ==
  ASSUME LimitInv, UserInv, LedgerInv, LedgerInv', NEW r \in Requests, Check(r)
  PROVE  LimitInv'
<1>1. /\ day \in 1..Days /\ late \in [1..Days -> Nat] /\ errors \in Nat /\ errors' \in Nat
      /\ phase \in [Requests -> Phases] /\ row \in [count : Nat, date : Nat]
  BY DEF LedgerInv, RowTypes
<1>2. UNCHANGED <<day, row, charged, late, orphaned>> /\ phase[r] = "asking" /\ rpc[r] = "processing"
  BY DEF Check, rlockVars, LeaveUserLock
<1>3. charged[r] = 0  BY <1>2 DEF LedgerInv, ChargesArePast
<1>4. \A s \in Requests \ {r} : phase'[s] = phase[s]  BY <1>1 DEF Check
<1>5. \A d \in 1..Days : Used(d)' \subseteq Used(d) /\ Unhanded(d)' \subseteq Unhanded(d)
  BY <1>2, <1>3, <1>4 DEF Used, Unhanded
<1>6. errors' >= errors /\ \A d \in 1..Days : late'[d] >= late[d]
  BY <1>1, <1>2 DEF Check
<1>7. CASE phase'[r] # "passed" \/ r \in orphaned
  <2>1. \A s \in Requests : phase'[s] = "passed" /\ s \notin orphaned'
                              => phase[s] = "passed" /\ s \notin orphaned
    BY <1>2, <1>4, <1>7
  <2> QED  BY <1>2, <1>5, <1>6, <2>1, Quiet_Limit
<1>8. CASE phase'[r] = "passed" /\ r \notin orphaned
  <2>1. Cardinality(Unhanded(day)) < DailyLimit + late[day] + errors'
    <3>0. DailyLimit \in Nat  BY AdmissionAssumption
    <3>1. CASE WithinLimit
      <4>1. TodaysCount < DailyLimit
        BY <3>1, <1>1, AdmissionAssumption DEF WithinLimit, TodaysCount
      <4>2. Cardinality(Used(day)) <= TodaysCount + late[day] + errors
        BY DEF LimitInv, RowMissesFew
      <4> QED  BY <3>0, <4>1, <4>2, <1>1, <1>6, SizesOfSlots
    <3>2. CASE errors' = errors + 1
      <4>1. Cardinality(Unhanded(day)) <= DailyLimit + late[day] + errors
        BY <1>1 DEF LimitInv, Within, Allowed
      <4> QED  BY <3>0, <3>2, <4>1, <1>1, SizesOfSlots
    <3> QED  BY <3>1, <3>2, <1>1, <1>8 DEF Check
  <2>2. \A d \in 1..Days : Cardinality(Unhanded(d)') <= Cardinality(Unhanded(d))
                           /\ Cardinality(Unhanded(d)') \in Nat
                           /\ Cardinality(Used(d)') <= Cardinality(Used(d))
                           /\ Cardinality(Used(d)') \in Nat
    BY <1>5, SizesOfSlots, FewerRequests
  <2>3. Within'
    <3> SUFFICES ASSUME NEW d \in 1..Days
                 PROVE  Cardinality(Unhanded(d)') <= DailyLimit + late[d] + errors'
      BY <1>2 DEF Within, Allowed
    <3>1. Cardinality(Unhanded(d)) <= DailyLimit + late[d] + errors
      BY DEF LimitInv, Within, Allowed
    <3>2. /\ Cardinality(Unhanded(d)') <= Cardinality(Unhanded(d))
          /\ Cardinality(Unhanded(d)') \in Nat /\ Cardinality(Unhanded(d)) \in Nat
      BY <2>2, SizesOfSlots
    <3>3. DailyLimit \in Nat /\ late[d] \in Nat  BY <1>1, AdmissionAssumption
    <3> QED  BY <1>1, <1>6, <3>1, <3>2, <3>3
  <2>4. RoomForPassed'
    <3>0. /\ Cardinality(Unhanded(day)') <= Cardinality(Unhanded(day))
          /\ Cardinality(Unhanded(day)') \in Nat /\ Cardinality(Unhanded(day)) \in Nat
      BY <1>1, <1>2, <2>2, SizesOfSlots
    <3>1. Cardinality(Unhanded(day)') < DailyLimit + late[day] + errors'
      BY <1>1, <2>1, <3>0, AdmissionAssumption
    <3> QED  BY <1>2, <3>1 DEF RoomForPassed, Allowed, Unhanded, Used
  <2>5. RowMissesFew'
    <3>1. Cardinality(Used(day)) <= TodaysCount + late[day] + errors
      BY DEF LimitInv, RowMissesFew
    <3>2. /\ Cardinality(Used(day)') <= Cardinality(Used(day)) /\ TodaysCount \in Nat
          /\ Cardinality(Used(day)') \in Nat /\ Cardinality(Used(day)) \in Nat
      BY <1>1, <1>2, <2>2, SizesOfSlots
    <3>3. Cardinality(Used(day)') <= TodaysCount + late[day] + errors'
      BY <1>1, <1>6, <3>1, <3>2
    <3> QED  BY <1>2, <3>3 DEF RowMissesFew, TodaysCount, Used
  <2> QED  BY <2>3, <2>4, <2>5 DEF LimitInv
<1> QED  BY <1>7, <1>8

\* A reservation uses the room that its check found: whoever else is inside a
\* lock has one that was dropped.
LEMMA Reserve_Limit ==
  ASSUME LimitInv, UserInv, LedgerInv, LedgerInv', NEW r \in Requests, Reserve(r)
  PROVE  LimitInv'
<1>1. /\ day \in 1..Days /\ late \in [1..Days -> Nat] /\ errors \in Nat /\ errors' \in Nat
      /\ phase \in [Requests -> Phases] /\ row \in [count : Nat, date : Nat]
      /\ charged \in [Requests -> Nat]
  BY DEF LedgerInv, RowTypes
<1>2. /\ UNCHANGED <<day, late, orphaned>> /\ phase[r] = "passed" /\ rpc[r] = "processing"
      /\ phase' = [phase EXCEPT ![r] = "admitted"]
  BY DEF Reserve, LeaveUserLock, UserInv, Inside
<1>3. charged[r] = 0  BY <1>2 DEF LedgerInv, ChargesArePast
<1>4. \A s \in Requests : phase'[s] = "passed" => s # r /\ phase[s] = "passed"
  BY <1>1, <1>2
<1>5. CASE errors' = errors + 1 /\ UNCHANGED <<row, cooling, charged>>
  <2>1. \A d \in 1..Days : Used(d)' \subseteq Used(d) /\ Unhanded(d)' \subseteq Unhanded(d)
    BY <1>1, <1>2, <1>3, <1>5 DEF Used, Unhanded
  <2>2. errors' >= errors /\ \A d \in 1..Days : late'[d] >= late[d]
    BY <1>1, <1>2, <1>5
  <2> QED  BY <1>2, <1>4, <1>5, <2>1, <2>2, Quiet_Limit
<1>6. CASE Charge(r) /\ UNCHANGED errors
  <2>1. charged' = [charged EXCEPT ![r] = day]  BY <1>6 DEF Charge
  <2>2. \A d \in 1..Days \ {day} : Used(d)' = Used(d) /\ Unhanded(d)' = Unhanded(d)
    BY <1>1, <1>2, <1>3, <2>1 DEF Used, Unhanded
  <2>3. /\ Used(day)' = Used(day) \cup {r} /\ r \notin Used(day)
        /\ Unhanded(day)' = (IF r \notin orphaned THEN Unhanded(day) \cup {r} ELSE Unhanded(day))
        /\ r \notin Unhanded(day)
    BY <1>1, <1>2, <1>3, <2>1 DEF Used, Unhanded
  <2>4. Cardinality(Used(day)') = Cardinality(Used(day)) + 1
    BY <1>1, <2>3, SizesOfSlots, SetsOfRequests
  <2>5. r \notin orphaned => Cardinality(Unhanded(day)') = Cardinality(Unhanded(day)) + 1
    <3>1. Unhanded(day) \in SUBSET Requests  BY DEF Unhanded, Used
    <3> QED  BY <2>3, <3>1, SetsOfRequests
  <2>6. r \in orphaned => Cardinality(Unhanded(day)') = Cardinality(Unhanded(day))
    BY <2>3
  <2>7. r \notin orphaned => Cardinality(Unhanded(day)) < Allowed(day)
    BY <1>2 DEF LimitInv, RoomForPassed
  <2>8. \A d \in 1..Days : Allowed(d)' = Allowed(d)  BY <1>2, <1>6 DEF Allowed
  <2>9. Within'
    <3> SUFFICES ASSUME NEW d \in 1..Days PROVE Cardinality(Unhanded(d)') <= Allowed(d)
      BY <2>8 DEF Within
    <3>1. Cardinality(Unhanded(d)) <= Allowed(d)  BY DEF LimitInv, Within
    <3>2. CASE d # day  BY <2>2, <3>1, <3>2
    <3>3. CASE d = day
      <4>1. Cardinality(Unhanded(day)) \in Nat /\ Allowed(day) \in Nat  BY <1>1, SizesOfSlots
      <4>2. Cardinality(Unhanded(day)') <= Allowed(day)
        BY <2>5, <2>6, <2>7, <3>1, <3>3, <4>1
      <4> QED  BY <1>2, <3>3, <4>2
    <3> QED  BY <3>2, <3>3
  <2>10. RoomForPassed'
    <3> SUFFICES ASSUME NEW s \in Requests, phase'[s] = "passed", s \notin orphaned
                 PROVE  Cardinality(Unhanded(day)') < Allowed(day)
      BY <1>1, <1>2, <2>8 DEF RoomForPassed, Unhanded, Used, Allowed
    <3>1. s # r /\ phase[s] = "passed" /\ rpc[s] = "processing"
      BY <1>4 DEF UserInv, Inside
    <3>2. r \in orphaned
      BY <1>2, <3>1 DEF UserInv, UserFirst, UserExcludes
    <3>3. Cardinality(Unhanded(day)) < Allowed(day)
      BY <3>1 DEF LimitInv, RoomForPassed
    <3> QED  BY <2>6, <3>2, <3>3
  <2>11. RowMissesFew'
    <3>1. Cardinality(Used(day)) <= TodaysCount + late[day] + errors
      BY DEF LimitInv, RowMissesFew
    <3>2. TodaysCount' = TodaysCount + 1
      BY <1>1, <1>2, <1>6 DEF TodaysCount, Charge
    <3>3. Cardinality(Used(day)') <= TodaysCount' + late[day] + errors
      BY SMTT(30), <1>1, <2>4, <3>1, <3>2, SizesOfSlots
    <3> QED  BY <1>2, <1>6, <3>3 DEF RowMissesFew, Used
  <2> QED  BY <2>9, <2>10, <2>11 DEF LimitInv
<1> QED  BY <1>5, <1>6 DEF Reserve

\* A slot given back is one less in use, and on another day counts as late.
LEMMA Refund_Limit ==
  ASSUME LimitInv, LedgerInv, LedgerInv', NEW r \in Requests, Refund(r)
  PROVE  LimitInv'
<1>1. /\ day \in 1..Days /\ late \in [1..Days -> Nat] /\ errors \in Nat
      /\ phase \in [Requests -> Phases] /\ row \in [count : Nat, date : Nat]
  BY DEF LedgerInv, RowTypes
<1>2. /\ UNCHANGED <<day, charged, orphaned>>
      /\ phase[r] = "admitted" /\ phase' = [phase EXCEPT ![r] = "refunded"]
  BY DEF Refund, rlockVars
<1>3. \A s \in Requests : phase'[s] = "passed" => phase[s] = "passed"
  BY <1>1, <1>2
<1>4. \A d \in 1..Days : Used(d)' \subseteq Used(d) /\ Unhanded(d)' \subseteq Unhanded(d)
  BY <1>1, <1>2 DEF Used, Unhanded
<1>5. CASE errors' = errors + 1 /\ UNCHANGED <<row, late>>
  <2>1. errors' >= errors /\ \A d \in 1..Days : late'[d] >= late[d]  BY <1>1, <1>5
  <2> QED  BY <1>2, <1>3, <1>4, <1>5, <2>1, Quiet_Limit
<1>6. CASE /\ GiveBack /\ errors' = errors
           /\ late' = [late EXCEPT ![day] = IF charged[r] # day THEN @ + 1 ELSE @]
  <2>1. \A d \in 1..Days : late'[d] \in Nat /\ late'[d] >= late[d]  BY <1>1, <1>6
  <2>2. \A d \in 1..Days :
          /\ Cardinality(Unhanded(d)') <= Cardinality(Unhanded(d))
          /\ Cardinality(Unhanded(d)') \in Nat
    BY <1>4, SizesOfSlots, FewerRequests
  <2>3. \A d \in 1..Days : Allowed(d)' \in Nat /\ Allowed(d)' >= Allowed(d)
    BY SMTT(30), <1>1, <1>6, <2>1, AdmissionAssumption DEF Allowed
  <2>4. Within'
    <3> SUFFICES ASSUME NEW d \in 1..Days PROVE Cardinality(Unhanded(d)') <= Allowed(d)'
      BY DEF Within
    <3>1. Cardinality(Unhanded(d)) <= Allowed(d)  BY DEF LimitInv, Within
    <3> QED  BY <2>2, <2>3, <3>1, SizesOfSlots
  <2>5. RoomForPassed'
    <3> SUFFICES ASSUME NEW s \in Requests, phase'[s] = "passed", s \notin orphaned
                 PROVE  Cardinality(Unhanded(day)') < Allowed(day)'
      BY <1>2 DEF RoomForPassed, Unhanded, Used, Allowed
    <3>1. Cardinality(Unhanded(day)) < Allowed(day)
      BY <1>3 DEF LimitInv, RoomForPassed
    <3>2. /\ Cardinality(Unhanded(day)') <= Cardinality(Unhanded(day))
          /\ Cardinality(Unhanded(day)') \in Nat /\ Cardinality(Unhanded(day)) \in Nat
          /\ Allowed(day)' \in Nat /\ Allowed(day)' >= Allowed(day) /\ Allowed(day) \in Nat
      BY <1>1, <1>2, <2>2, <2>3, SizesOfSlots
    <3> QED  BY <3>1, <3>2
  <2>6. RowMissesFew'
    <3>1. Cardinality(Used(day)) <= TodaysCount + late[day] + errors
      BY DEF LimitInv, RowMissesFew
    <3>2. /\ Cardinality(Used(day)) \in Nat /\ TodaysCount \in Nat /\ late[day] \in Nat
          /\ Used(day) \in SUBSET Requests
      BY <1>1, SizesOfSlots
    <3>3. TodaysCount' \in Nat /\ TodaysCount' >= TodaysCount - 1
      BY <1>1, <1>2, <1>6 DEF TodaysCount, GiveBack
    <3>4. CASE charged[r] = day
      <4>1. Used(day)' = Used(day) \ {r} /\ r \in Used(day)
        BY <1>1, <1>2, <3>4 DEF Used
      <4>2. Cardinality(Used(day)') = Cardinality(Used(day)) - 1
        <5>1. Cardinality(Used(day) \ {r}) = Cardinality(Used(day)) - 1
          BY <3>2, <4>1, SetsOfRequests
        <5> QED  BY <4>1, <5>1
      <4>3. late'[day] = late[day]  BY <1>1, <1>6, <3>4
      <4> QED  BY <1>1, <1>2, <1>6, <3>1, <3>2, <3>3, <4>2, <4>3 DEF RowMissesFew
    <3>5. CASE charged[r] # day
      <4>1. Used(day)' = Used(day)  BY <1>1, <1>2, <3>5 DEF Used
      <4>2. late'[day] = late[day] + 1  BY <1>1, <1>6, <3>5
      <4> QED  BY <1>1, <1>2, <1>6, <3>1, <3>2, <3>3, <4>1, <4>2 DEF RowMissesFew
    <3> QED  BY <3>4, <3>5
  <2> QED  BY <2>4, <2>5, <2>6 DEF LimitInv
<1> QED  BY <1>5, <1>6 DEF Refund

\* A new day begins without slots.
LEMMA Midnight_Limit ==
  ASSUME LimitInv, LedgerInv, LedgerInv', Midnight
  PROVE  LimitInv'
<1>1. /\ day \in 1..Days /\ late \in [1..Days -> Nat] /\ errors \in Nat
      /\ row \in [count : Nat, date : Nat] /\ day' \in 1..Days /\ DailyLimit \in Nat \ {0}
  BY AdmissionAssumption DEF LedgerInv, RowTypes
<1>2. day' = day + 1 /\ UNCHANGED <<phase, row, charged, late, errors, orphaned>>
  BY DEF Midnight, rlockVars
<1>3. \A d \in 1..Days : Used(d)' = Used(d) /\ Unhanded(d)' = Unhanded(d) /\ Allowed(d)' = Allowed(d)
  BY <1>2 DEF Used, Unhanded, Allowed
<1>4. Used(day') = {} /\ Unhanded(day') = {}
  BY <1>1, <1>2 DEF LedgerInv, RowTypes, ChargesArePast, Used, Unhanded
<1>5. Used(day)' = {} /\ Unhanded(day)' = {} /\ Cardinality({}) = 0
  BY <1>1, <1>3, <1>4, FS_EmptySet
<1>6. late'[day'] \in Nat /\ errors' \in Nat  BY <1>1, <1>2
<1>7. Within'  BY <1>3 DEF LimitInv, Within
<1>8. RoomForPassed'
  <2>1. Cardinality(Unhanded(day)') = 0  BY <1>5
  <2>2. Allowed(day)' > 0  BY <1>1, <1>6 DEF Allowed
  <2> QED  BY <2>1, <2>2 DEF RoomForPassed
<1>9. RowMissesFew'
  <2>1. TodaysCount' \in Nat  BY <1>1, <1>2 DEF TodaysCount
  <2> QED  BY <1>5, <1>6, <2>1 DEF RowMissesFew
<1> QED  BY <1>7, <1>8, <1>9 DEF LimitInv

\* The other steps charge nothing.
LEMMA Step_Limit ==
  LimitInv /\ UserInv /\ LedgerInv /\ [AdmissionNext]_admissionVars => LimitInv'
<1> SUFFICES ASSUME LimitInv, UserInv, LedgerInv, [AdmissionNext]_admissionVars PROVE LimitInv'
  OBVIOUS
<1>0. LedgerInv'  BY Step_Ledger
<1>1. ASSUME UNCHANGED <<phase, day, row, charged, late, errors, orphaned>> PROVE LimitInv'
  <2>1. \A d \in 1..Days : Used(d)' = Used(d) /\ Unhanded(d)' = Unhanded(d)
    BY <1>1 DEF Used, Unhanded
  <2>2. errors' >= errors /\ \A d \in 1..Days : late'[d] >= late[d]
    BY <1>1 DEF LedgerInv, RowTypes
  <2> QED  BY <1>0, <1>1, <2>1, <2>2, Quiet_Limit
<1>2. CASE UNCHANGED admissionVars
  BY <1>1, <1>2 DEF admissionVars, rowVars, rlockVars
<1>3. ASSUME NEW r \in Requests, TakeUserLock(r) PROVE LimitInv'
  BY <1>1, <1>3 DEF TakeUserLock, rowVars
<1>4. ASSUME NEW r \in Requests, Check(r) PROVE LimitInv'  BY <1>0, <1>4, Check_Limit
<1>5. ASSUME NEW r \in Requests, Reserve(r) PROVE LimitInv'  BY <1>0, <1>5, Reserve_Limit
<1>6. ASSUME NEW r \in Requests, Refund(r) PROVE LimitInv'  BY <1>0, <1>6, Refund_Limit
<1>7. ASSUME NEW r \in Requests, UseVideo(r) \/ Depart(r) PROVE LimitInv'
  BY <1>1, <1>7 DEF UseVideo, Depart, rowVars, rlockVars
<1>8. CASE DropUnlocked
  <2>1. UNCHANGED <<phase, day, row, charged, late, errors>> /\ orphaned \subseteq orphaned'
    BY <1>8 DEF DropUnlocked, rowVars
  <2>2. \A d \in 1..Days : Used(d)' \subseteq Used(d) /\ Unhanded(d)' \subseteq Unhanded(d)
    BY <2>1 DEF Used, Unhanded
  <2>3. errors' >= errors /\ \A d \in 1..Days : late'[d] >= late[d]
    BY <2>1 DEF LedgerInv, RowTypes
  <2> QED  BY <1>0, <2>1, <2>2, <2>3, Quiet_Limit
<1>10. CASE CoolDown
  BY <1>1, <1>10 DEF CoolDown, rowVars, rlockVars
<1>9. CASE Midnight  BY <1>0, <1>9, Midnight_Limit
<1> QED  BY <1>2, <1>3, <1>4, <1>5, <1>6, <1>7, <1>8, <1>9, <1>10 DEF AdmissionNext, AdmissionStep

\* For every limit and every number of requests and days, the slots that a day
\* has in use exceed the limit only by those of requests that waited for a user's
\* lock while it was dropped, by late refunds and by errors of the database.
THEOREM LimitIsKept == AdmissionSpec => []LimitHolds
<1>1. LimitInv => LimitHolds  BY DEF LimitInv, Within, Unhanded, Allowed, LimitHolds
<1> QED  BY InitLedger, InitUser, InitLimit, Step_Ledger, Step_User, Step_Limit, <1>1,
            PTL DEF AdmissionSpec

\* Requests that reserve first use the video's lock as VideoLock says, so the
\* theorems about the lock hold of them, too.
THEOREM AdmissionUsesTheLock == AdmissionSpec => Spec
<1>1. AdmissionInit => Init  BY DEF AdmissionInit
<1>2. [AdmissionNext]_admissionVars => [Next]_vars
  <2> SUFFICES ASSUME AdmissionNext PROVE [Next]_vars
    BY DEF admissionVars, vars
  <2>1. ASSUME NEW r \in Requests, AdmissionStep(r) \/ UseVideo(r) PROVE [Next]_vars
    BY <2>1 DEF AdmissionStep, TakeUserLock, Check, Reserve, Refund, Depart, UseVideo, Next, Step
  <2>2. CASE DropUnlocked \/ CoolDown \/ Midnight
    BY <2>2 DEF DropUnlocked, CoolDown, Midnight
  <2> QED  BY <2>1, <2>2 DEF AdmissionNext
<1> QED  BY <1>1, <1>2, PTL DEF AdmissionSpec, Spec

-----------------------------------------------------------------------------
(* The user's lock forgets no waiter either, although its entry may leave  *)
(* the registry between the wake-up and the waiter's turn.                 *)

UserWakeUp ==
  \A r \in Requests : rpc[r] = "waiting" /\ rlock[r] \notin rlocked =>
    \E s \in rwoken : rpc[s] = "waiting" /\ rlock[s] = rlock[r]

UserHeld == \A l \in rlocked : \E r \in Requests : rpc[r] = "processing" /\ rlock[r] = l

UserForgetsNobody ==
  \A r \in Requests : rpc[r] = "waiting" =>
    \/ \E s \in Requests : phase[s] \in {"asking", "passed"} /\ rpc[s] = "processing" /\ rlock[s] = rlock[r]
    \/ \E s \in rwoken : rpc[s] = "waiting" /\ rlock[s] = rlock[r] /\ rticket[s] <= rticket[r]

LEMMA Take_WakeUp ==
  ASSUME UserInv, UserWakeUp, UserHeld, NEW r \in Requests, TakeUserLock(r)
  PROVE  UserWakeUp' /\ UserHeld'
<1> USE DEF UserInv, UserTypes, UserWakeUp, UserHeld
<1>1. CASE UserLock!ArriveFirst(r)
  <2> USE <1>1 DEF UserLock!ArriveFirst, UserLock!Free, UserLock!Waiters, UserHolds
  <2>1. \A s \in Requests : rpc'[s] = "waiting" => s # r /\ rpc[s] = "waiting" /\ rlock'[s] = rlock[s]
    OBVIOUS
  <2>2. \A s \in rwoken : s # r /\ rpc[s] = "waiting" => rpc'[s] = "waiting" /\ rlock'[s] = rlock[s]
    OBVIOUS
  <2>3. UserWakeUp'  BY <2>1, <2>2
  <2>4. \A s \in Requests : rpc[s] = "processing" =>
          s # r /\ rpc'[s] = "processing" /\ rlock'[s] = rlock[s]
    OBVIOUS
  <2>5. rpc'[r] = "processing" /\ rlock'[r] = rregistry' /\ rlocked' = rlocked \cup {rregistry'}
    OBVIOUS
  <2>6. UserHeld'  BY <2>4, <2>5
  <2> QED  BY <2>3, <2>6
<1>2. CASE UserLock!ArriveLater(r)
  <2>1. /\ rpc[r] = "new" /\ rlock'[r] = rregistry /\ rlocked' = rlocked /\ rwoken' = rwoken
        /\ rpc'[r] = "waiting"
    BY <1>2 DEF UserLock!ArriveLater
  <2>2. \A s \in Requests \ {r} : rpc'[s] = rpc[s] /\ rlock'[s] = rlock[s]
    BY <1>2 DEF UserLock!ArriveLater
  <2>3. rregistry \notin rlocked => \E s \in rwoken : rpc[s] = "waiting" /\ rlock[s] = rregistry
    <3>1. rregistry \notin rlocked => \E q \in Requests : rpc[q] = "waiting" /\ rlock[q] = rregistry
      BY <1>2 DEF UserLock!ArriveLater, UserLock!Free, UserLock!Waiters
    <3> QED  BY <3>1
  <2>4. \A s \in rwoken : rpc[s] = "waiting" => s # r  BY <2>1
  <2>5. UserWakeUp'  BY <2>1, <2>2, <2>3, <2>4
  <2>6. ASSUME NEW l \in rlocked PROVE \E s \in Requests : rpc'[s] = "processing" /\ rlock'[s] = l
    <3>1. PICK s \in Requests : rpc[s] = "processing" /\ rlock[s] = l  BY <2>6
    <3> QED  BY <2>1, <2>2, <3>1
  <2>7. UserHeld'  BY <2>1, <2>6
  <2> QED  BY <2>5, <2>7
<1>3. CASE UserLock!Resume(r)
  <2> USE <1>3 DEF UserLock!Resume
  <2>1. ASSUME NEW s \in Requests, rpc'[s] = "waiting", rlock'[s] \notin rlocked'
        PROVE  \E q \in rwoken' : rpc'[q] = "waiting" /\ rlock'[q] = rlock'[s]
    <3>1. rpc[s] = "waiting" /\ rlock[s] \notin rlocked /\ rlock[s] # rlock[r]  BY <2>1
    <3>2. PICK q \in rwoken : rpc[q] = "waiting" /\ rlock[q] = rlock[s]  BY <3>1
    <3> QED  BY <3>1, <3>2
  <2>2. /\ rlock' = rlock /\ rpc'[r] = "processing" /\ rlocked' = rlocked \cup {rlock[r]}
        /\ \A s \in Requests : rpc[s] = "processing" => rpc'[s] = "processing"
    OBVIOUS
  <2>3. UserHeld'  BY <2>2
  <2> QED  BY <2>1, <2>3
<1> QED  BY <1>1, <1>2, <1>3 DEF TakeUserLock

LEMMA Leave_WakeUp ==
  ASSUME UserInv, UserWakeUp, UserHeld, NEW r \in Requests, rpc[r] = "processing", LeaveUserLock(r)
  PROVE  UserWakeUp' /\ UserHeld'
<1> USE DEF UserInv, UserTypes, UserWakeUp, UserHeld
<1> USE DEF LeaveUserLock, UserLock!Release
<1> DEFINE W == UserLock!Waiters(rlock[r])
<1>1. ASSUME NEW s \in Requests, rpc'[s] = "waiting", rlock'[s] \notin rlocked'
      PROVE  \E q \in rwoken' : rpc'[q] = "waiting" /\ rlock'[q] = rlock'[s]
  <2>1. rpc[s] = "waiting" /\ rlock' = rlock  BY <1>1
  <2>2. CASE rlock[s] = rlock[r]
    <3>1. W \in SUBSET Requests /\ s \in W  BY <2>1, <2>2 DEF UserLock!Waiters
    <3>2. PICK q \in W : \A t \in W : rticket[q] <= rticket[t]  BY <3>1, OneIsFirst
    <3>3. q \in rwoken'  BY <3>2 DEF UserLock!Wake, UserLock!IsFirst
    <3>4. q \in Requests /\ rpc[q] = "waiting" /\ rlock[q] = rlock[r]  BY <3>2 DEF UserLock!Waiters
    <3> QED  BY <2>1, <2>2, <3>3, <3>4
  <2>3. CASE rlock[s] # rlock[r]
    <3>1. PICK q \in rwoken : rpc[q] = "waiting" /\ rlock[q] = rlock[s]  BY <1>1, <2>1, <2>3
    <3> QED  BY <2>1, <3>1 DEF UserLock!Wake
  <2> QED  BY <2>2, <2>3
<1>2. /\ rlock' = rlock /\ rlocked' = rlocked \ {rlock[r]}
      /\ \A s \in Requests \ {r} : rpc'[s] = rpc[s]
  OBVIOUS
<1>3. UserHeld'  BY <1>2
<1> QED  BY <1>1, <1>3

LEMMA Step_UserWakeUp ==
  UserInv /\ LedgerInv /\ UserWakeUp /\ UserHeld /\ [AdmissionNext]_admissionVars => UserWakeUp' /\ UserHeld'
<1> SUFFICES ASSUME UserInv, LedgerInv, UserWakeUp, UserHeld, [AdmissionNext]_admissionVars
             PROVE  UserWakeUp' /\ UserHeld'
  OBVIOUS
<1>1. ASSUME UNCHANGED <<rpc, rlock, rlocked, rwoken>> PROVE UserWakeUp' /\ UserHeld'
  BY <1>1 DEF UserWakeUp, UserHeld
<1>2. CASE UNCHANGED admissionVars  BY <1>1, <1>2 DEF admissionVars, rlockVars
<1>3. ASSUME NEW r \in Requests, TakeUserLock(r) PROVE UserWakeUp' /\ UserHeld'
  BY <1>3, Take_WakeUp
<1>4. ASSUME NEW r \in Requests, Check(r) \/ Reserve(r) PROVE UserWakeUp' /\ UserHeld'
  <2>1. (UNCHANGED rlockVars) \/ (rpc[r] = "processing" /\ LeaveUserLock(r))
    BY <1>4 DEF Check, Reserve, UserInv, Inside
  <2> QED  BY <1>1, <2>1, Leave_WakeUp DEF rlockVars
<1>5. ASSUME NEW r \in Requests, Refund(r) \/ UseVideo(r) \/ Depart(r) PROVE UserWakeUp' /\ UserHeld'
  BY <1>1, <1>5 DEF Refund, UseVideo, Depart, rlockVars
<1>6. CASE DropUnlocked  BY <1>1, <1>6 DEF DropUnlocked
<1>7. CASE CoolDown \/ Midnight  BY <1>1, <1>7 DEF CoolDown, Midnight, rlockVars
<1> QED  BY <1>2, <1>3, <1>4, <1>5, <1>6, <1>7 DEF AdmissionNext, AdmissionStep

\* Whoever waits for its user's lock waits for a request that is about to check or to reserve,
\* or for a woken waiter that came no later, also when the lock was dropped from the registry.
THEOREM NoUserIsForgotten == AdmissionSpec => []UserForgetsNobody
<1>1. AdmissionInit => UserWakeUp /\ UserHeld
  BY DEF AdmissionInit, UserLock!Init, UserWakeUp, UserHeld
<1>2. UserInv /\ LedgerInv /\ UserWakeUp /\ UserHeld => UserForgetsNobody
  <2> SUFFICES ASSUME UserInv, LedgerInv, UserWakeUp, UserHeld, NEW r \in Requests, rpc[r] = "waiting"
               PROVE  \/ \E s \in Requests : /\ phase[s] \in {"asking", "passed"} /\ rpc[s] = "processing"
                                             /\ rlock[s] = rlock[r]
                      \/ \E s \in rwoken : rpc[s] = "waiting" /\ rlock[s] = rlock[r] /\ rticket[s] <= rticket[r]
    BY DEF UserForgetsNobody
  <2>1. CASE rlock[r] \in rlocked
    <3>1. PICK s \in Requests : rpc[s] = "processing" /\ rlock[s] = rlock[r]  BY <2>1 DEF UserHeld
    <3>2. phase[s] \in {"asking", "passed"}  BY <3>1 DEF UserInv, Inside, LedgerInv, RowTypes, Phases
    <3> QED  BY <3>1, <3>2
  <2>2. CASE rlock[r] \notin rlocked
    <3>1. PICK s \in rwoken : rpc[s] = "waiting" /\ rlock[s] = rlock[r]  BY <2>2 DEF UserWakeUp
    <3>2. rticket[s] <= rticket[r]  BY <3>1 DEF UserInv, UserWoken
    <3> QED  BY <3>1, <3>2
  <2> QED  BY <2>1, <2>2
<1> QED  BY InitLedger, InitUser, Step_Ledger, Step_User, Step_UserWakeUp, <1>1, <1>2,
            PTL DEF AdmissionSpec

-----------------------------------------------------------------------------
(* The types of the whole of Admission.  Two of its bounds say something   *)
(* of the code: the row never counts more than the reservations that were  *)
(* made, and the video's lock is used by admitted requests only.           *)

Charged == {r \in Requests : charged[r] # 0}

CountBacked == row.count <= Cardinality(Charged)

SlotBeforeVideo ==
  \A r \in Requests : pc[r] # "new" => phase[r] \in {"admitted", "refunded"}

Bounds == cooling \in BOOLEAN /\ errors \in 0..MaxErrors

BoundsInv == CountBacked /\ SlotBeforeVideo /\ Bounds

\* Nobody has reserved.
LEMMA InitBounds == AdmissionInit => BoundsInv
<1> SUFFICES ASSUME AdmissionInit PROVE BoundsInv  OBVIOUS
<1>1. row.count = 0 /\ Charged = {}  BY DEF AdmissionInit, Charged
<1>2. CountBacked  BY <1>1, FS_EmptySet DEF CountBacked
<1>3. SlotBeforeVideo  BY DEF AdmissionInit, Init, SlotBeforeVideo
<1>4. Bounds
  <2>1. cooling \in BOOLEAN  BY Zenon DEF AdmissionInit
  <2>2. errors \in 0..MaxErrors  BY AdmissionAssumption DEF AdmissionInit
  <2> QED  BY <2>1, <2>2, Zenon DEF Bounds
<1> QED  BY <1>2, <1>3, <1>4 DEF BoundsInv

\* A step that reserves nothing.
LEMMA Uncharged_Bounds ==
  ASSUME BoundsInv, LedgerInv, LedgerInv', UNCHANGED charged, row'.count <= row.count,
         SlotBeforeVideo', Bounds'
  PROVE  BoundsInv'
<1>1. Charged' = Charged /\ Cardinality(Charged) \in Nat
  BY FewerRequests DEF Charged
<1>2. row.count \in Nat /\ row'.count \in Nat  BY DEF LedgerInv, RowTypes
<1> QED  BY <1>1, <1>2 DEF BoundsInv, CountBacked

\* A reservation makes the count and the charged requests one more, or begins
\* the count of a new day with one.
LEMMA Charge_Bounds ==
  ASSUME BoundsInv, LedgerInv, LedgerInv', NEW r \in Requests, phase[r] = "passed", Charge(r)
  PROVE  CountBacked'
<1>1. /\ charged \in [Requests -> Nat] /\ row.count \in Nat /\ charged[r] = 0
      /\ day \in Nat \ {0}
  <2>1. charged \in [Requests -> Nat] /\ row.count \in Nat /\ day \in 1..Days
    BY DEF LedgerInv, RowTypes
  <2>2. charged[r] = 0  BY DEF LedgerInv, ChargesArePast
  <2> QED  BY <2>1, <2>2, AdmissionAssumption
<1>2. charged' = [charged EXCEPT ![r] = day]  BY DEF Charge
<1>3. Charged' = Charged \cup {r} /\ r \notin Charged  BY <1>1, <1>2 DEF Charged
<1>4. Cardinality(Charged') = Cardinality(Charged) + 1 /\ Cardinality(Charged) \in Nat
  BY <1>3, SetsOfRequests DEF Charged
<1>5. row'.count = (IF row.date = day THEN row.count + 1 ELSE 1)  BY DEF Charge
<1>6. row.count <= Cardinality(Charged)  BY DEF BoundsInv, CountBacked
<1> QED  BY <1>1, <1>4, <1>5, <1>6 DEF CountBacked

\* The video's lock is reached through UseVideo, and an admitted request is only
\* ever refunded.
LEMMA Step_Bounds ==
  BoundsInv /\ LedgerInv /\ UserInv /\ TypeOK /\ [AdmissionNext]_admissionVars => BoundsInv'
<1> SUFFICES ASSUME BoundsInv, LedgerInv, UserInv, TypeOK, [AdmissionNext]_admissionVars
             PROVE  BoundsInv'
  OBVIOUS
<1>0. LedgerInv'  BY Step_Ledger
<1>1. /\ row \in [count : Nat, date : Nat] /\ phase \in [Requests -> Phases]
      /\ cooling \in BOOLEAN /\ errors \in 0..MaxErrors /\ MaxErrors \in Nat
      /\ \A r \in Requests : pc[r] # "new" => phase[r] \in {"admitted", "refunded"}
  BY AdmissionAssumption DEF LedgerInv, RowTypes, BoundsInv, Bounds, SlotBeforeVideo
<1>2. ASSUME UNCHANGED <<phase, row, charged, cooling, errors>>,
             \A r \in Requests : pc'[r] # pc[r] => phase[r] \in {"admitted", "refunded"}
      PROVE  BoundsInv'
  <2>1. SlotBeforeVideo'  BY <1>1, <1>2 DEF SlotBeforeVideo
  <2>2. Bounds'  BY <1>1, <1>2 DEF Bounds
  <2> QED  BY <1>0, <1>1, <1>2, <2>1, <2>2, Uncharged_Bounds
<1>3. CASE UNCHANGED admissionVars  BY <1>2, <1>3 DEF admissionVars, rowVars, vars
<1>4. ASSUME NEW r \in Requests, TakeUserLock(r) PROVE BoundsInv'
  BY <1>2, <1>4 DEF TakeUserLock, rowVars, vars
<1>5. ASSUME NEW r \in Requests, Check(r) PROVE BoundsInv'
  <2>1. /\ UNCHANGED <<pc, row, charged, cooling>> /\ phase[r] = "asking"
        /\ \A s \in Requests \ {r} : phase'[s] = phase[s]
    BY <1>1, <1>5 DEF Check, vars
  <2>2. Bounds'  BY <1>1, <1>5, <2>1 DEF Check, Bounds
  <2>3. SlotBeforeVideo'  BY <1>1, <2>1 DEF SlotBeforeVideo
  <2> QED  BY <1>0, <1>1, <2>1, <2>2, <2>3, Uncharged_Bounds
<1>6. ASSUME NEW r \in Requests, Reserve(r) PROVE BoundsInv'
  <2>1. /\ UNCHANGED pc /\ phase[r] = "passed"
        /\ phase' = [phase EXCEPT ![r] = "admitted"]
    BY <1>6 DEF Reserve, vars
  <2>2. SlotBeforeVideo'  BY <1>1, <2>1 DEF SlotBeforeVideo
  <2>3. Bounds'
    <3>1. cooling' = TRUE \/ cooling' = cooling  BY <1>6, Zenon DEF Reserve, Charge
    <3>2. cooling' \in BOOLEAN  BY <1>1, <3>1, Zenon
    <3>3. errors' \in 0..MaxErrors  BY <1>1, <1>6 DEF Reserve
    <3> QED  BY <3>2, <3>3, Zenon DEF Bounds
  <2>4. CASE Charge(r)
    BY <1>0, <2>1, <2>2, <2>3, <2>4, Charge_Bounds DEF BoundsInv
  <2>5. CASE UNCHANGED <<row, cooling, charged>>
    BY <1>0, <1>1, <2>2, <2>3, <2>5, Uncharged_Bounds
  <2> QED  BY <1>6, <2>4, <2>5 DEF Reserve
<1>7. ASSUME NEW r \in Requests, UseVideo(r) PROVE BoundsInv'
  <2>1. /\ phase[r] = "admitted" /\ UNCHANGED rowVars
        /\ \A s \in Requests \ {r} : pc'[s] = pc[s]
    BY <1>7 DEF UseVideo, TypeOK, ArriveFirst, ArriveLater, Resume, Finish, TimesOut
  <2> QED  BY <1>2, <2>1 DEF rowVars
<1>8. ASSUME NEW r \in Requests, Refund(r) PROVE BoundsInv'
  <2>1. /\ UNCHANGED <<pc, charged, cooling>>
        /\ phase' = [phase EXCEPT ![r] = "refunded"]
    BY <1>8 DEF Refund, vars
  <2>2. SlotBeforeVideo'  BY <1>1, <2>1 DEF SlotBeforeVideo
  <2>3. Bounds'  BY <1>1, <1>8 DEF Refund, Bounds
  <2>4. row'.count <= row.count  BY <1>1, <1>8 DEF Refund, GiveBack
  <2> QED  BY <1>0, <2>1, <2>2, <2>3, <2>4, Uncharged_Bounds
<1>9. ASSUME NEW r \in Requests, Depart(r) PROVE BoundsInv'
  <2>1. /\ phase[r] = "refunded" /\ UNCHANGED rowVars
        /\ \A s \in Requests \ {r} : pc'[s] = pc[s]
    BY <1>9 DEF Depart, TypeOK, Leave
  <2> QED  BY <1>2, <2>1 DEF rowVars
<1>10. CASE DropUnlocked  BY <1>2, <1>10 DEF DropUnlocked, rowVars, vars
<1>11. CASE CoolDown \/ Midnight
  <2>1. UNCHANGED <<pc, phase, row, charged>>  BY <1>11 DEF CoolDown, Midnight, vars
  <2>2. SlotBeforeVideo'  BY <1>1, <2>1 DEF SlotBeforeVideo
  <2>3. Bounds'  BY <1>1, <1>11 DEF CoolDown, Midnight, Bounds
  <2> QED  BY <1>0, <1>1, <2>1, <2>2, <2>3, Uncharged_Bounds
<1> QED  BY <1>3, <1>4, <1>5, <1>6, <1>7, <1>8, <1>9, <1>10, <1>11
         DEF AdmissionNext, AdmissionStep

\* Types of the video lock, the user's lock, the row and the requests.
THEOREM AdmissionTypes == AdmissionSpec => []AdmissionTypeOK
<1>1. TypeOK /\ LedgerInv /\ UserInv /\ BoundsInv => AdmissionTypeOK
  <2> SUFFICES ASSUME TypeOK, LedgerInv, UserInv, BoundsInv PROVE AdmissionTypeOK  OBVIOUS
  <2>1. /\ rpc \in [Requests -> {"new", "waiting", "processing", "over"}]
        /\ rlocked \in SUBSET (1..rmade) /\ rregistry \in 0..rmade
        /\ orphaned \in SUBSET Requests
        /\ \A r \in Requests : phase[r] = "passed" => rpc[r] = "processing"
    BY DEF UserInv, UserTypes, Inside
  <2>2. /\ \A r \in Requests : pc[r] # "new" => phase[r] \in {"admitted", "refunded"}
        /\ cooling \in BOOLEAN /\ errors \in 0..MaxErrors
    BY DEF BoundsInv, SlotBeforeVideo, Bounds
  <2>3. phase \in [Requests -> Phases] /\ day \in 1..Days /\ late \in [1..Days -> Nat]
    BY DEF LedgerInv, RowTypes
  <2>4. row \in [count : 0..Cardinality(Requests), date : 0..day]
    <3>1. Cardinality(Charged) <= Cardinality(Requests)
          /\ Cardinality(Charged) \in Nat /\ Cardinality(Requests) \in Nat
      BY FewerRequests DEF Charged
    <3>2. row.count <= Cardinality(Charged)  BY DEF BoundsInv, CountBacked
    <3>3. row \in [count : Nat, date : Nat] /\ row.date <= day
      BY DEF LedgerInv, RowTypes, ChargesArePast
    <3> QED  BY <2>3, <3>1, <3>2, <3>3
  <2>5. charged \in [Requests -> 0..Days]
    BY <2>3, AdmissionAssumption DEF LedgerInv, RowTypes, ChargesArePast
  <2> QED  BY <2>1, <2>2, <2>3, <2>4, <2>5 DEF AdmissionTypeOK
<1> QED  BY InitLedger, InitUser, InitBounds, Step_Ledger, Step_User, Step_Bounds,
            AdmissionUsesTheLock, VideoLockTypes, <1>1, PTL DEF AdmissionSpec
=============================================================================
