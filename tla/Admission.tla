------------------------------ MODULE Admission ------------------------------
(***************************************************************************)
(* How one user's requests for one video are admitted: each reserves a     *)
(* slot of the daily limit (areserve_rate_limit of core/database.py, over  *)
(* the table rate_limit of core/utils.py) and then takes the video lock of *)
(* VideoLock.  A request that waits too long for the video gets its slot   *)
(* back.                                                                   *)
(*                                                                         *)
(* A step is what a task does between two awaits: check and update are two *)
(* calls in an executor, serialised by a per-user asyncio.Lock.  When more *)
(* than 500 users have a lock, any reservation first drops the locks that  *)
(* are not locked.  The refund does not take the user's lock.              *)
(***************************************************************************)
EXTENDS VideoLock, Integers, FiniteSets

CONSTANTS
  DailyLimit,   \* DAILY_LIMIT
  Days,         \* bound: days that the behaviour spans
  MaxErrors,    \* bound: errors of the database
  Crowded       \* do more than 500 users have a lock

ASSUME AdmissionAssumption ==
  /\ IsFiniteSet(Requests)
  /\ DailyLimit \in Nat \ {0} /\ Days \in Nat \ {0}
  /\ MaxErrors \in Nat /\ Crowded \in BOOLEAN

VARIABLES
  rpc, rlock, rregistry, rmade, rlocked, rwoken, rticket, rarrived,
              \* the per-user lock: the variables of VideoLock once more
  orphaned,   \* history: requests whose user's lock left the registry under them
  phase,      \* how far the reservation of each request is
  day,        \* _today_str()
  row,        \* the user's row: daily_count and daily_date
  cooling,    \* less than COOLDOWN_SECONDS since last_request
  charged,    \* the day on which each request was charged, 0 if it was not
  late,       \* per day, the refunds of slots of an earlier day
  errors      \* errors of the database so far

rlockVars == <<rpc, rlock, rregistry, rmade, rlocked, rwoken, rticket, rarrived, orphaned>>
rowVars   == <<phase, day, row, cooling, charged, late, errors>>
admissionVars == <<vars, rlockVars, rowVars>>

\* The user's lock is an asyncio.Lock found through a registry, too.
UserLock == INSTANCE VideoLock WITH
  Impatient <- {}, pc <- rpc, lock <- rlock, registry <- rregistry, made <- rmade,
  locked <- rlocked, woken <- rwoken, ticket <- rticket, arrived <- rarrived

Phases == {"asking", "passed", "admitted", "refused", "refunded"}

AdmissionTypeOK ==
  /\ TypeOK
  /\ rpc \in [Requests -> {"new", "waiting", "processing", "over"}]
  /\ rlocked \in SUBSET (1..rmade) /\ rregistry \in 0..rmade
  /\ orphaned \in SUBSET Requests
  /\ phase \in [Requests -> Phases]
  /\ \A r \in Requests : pc[r] # "new" => phase[r] \in {"admitted", "refunded"}
  /\ \A r \in Requests : phase[r] = "passed" => rpc[r] = "processing"
  /\ day \in 1..Days
  /\ row \in [count : 0..Cardinality(Requests), date : 0..day]
  /\ cooling \in BOOLEAN
  /\ charged \in [Requests -> 0..Days]
  /\ late \in [1..Days -> Nat]
  /\ errors \in 0..MaxErrors

AdmissionInit ==
  /\ Init /\ UserLock!Init
  /\ orphaned = {} /\ phase = [r \in Requests |-> "asking"]
  /\ day = 1 /\ row = [count |-> 0, date |-> 0] /\ cooling = FALSE
  /\ charged = [r \in Requests |-> 0]
  /\ late = [d \in 1..Days |-> 0] /\ errors = 0

-----------------------------------------------------------------------------
(* areserve_rate_limit.                                                    *)

\* _get_rate_limit_lock in a crowd: an unlocked lock leaves the registry, even
\* one whose woken waiter has yet to run: whoever waits for it then goes on
\* with a lock no newcomer will find.  The reservation may be any user's.
DropUnlocked ==
  /\ Crowded /\ rregistry # 0 /\ rregistry \notin rlocked
  /\ rregistry' = 0
  /\ orphaned' = orphaned \cup UserLock!Waiters(rregistry)
  /\ UNCHANGED <<vars, rpc, rlock, rmade, rlocked, rwoken, rticket, rarrived, rowVars>>

\* A request asks for its user's lock, or gets it after a wait.
TakeUserLock(r) ==
  /\ UserLock!ArriveFirst(r) \/ UserLock!ArriveLater(r) \/ UserLock!Resume(r)
  /\ UNCHANGED <<vars, orphaned, rowVars>>

LeaveUserLock(r) ==
  /\ UserLock!Release(r)
  /\ rpc' = [rpc EXCEPT ![r] = "over"]
  /\ UNCHANGED <<rlock, rregistry, rmade, rticket, rarrived, orphaned>>

\* Mutant: the limit itself is still allowed.
WithinLimitOrAt == row.date # day \/ row.count <= DailyLimit

WithinLimit == row.date # day \/ row.count < DailyLimit

\* acheck_rate_limit; an error of the database lets the request pass.
Check(r) ==
  /\ rpc[r] = "processing" /\ phase[r] = "asking"
  /\ \/ /\ ~cooling /\ WithinLimit
        /\ phase' = [phase EXCEPT ![r] = "passed"]
        /\ UNCHANGED <<rlockVars, errors>>
     \/ /\ errors < MaxErrors /\ errors' = errors + 1
        /\ phase' = [phase EXCEPT ![r] = "passed"]
        /\ UNCHANGED rlockVars
     \/ /\ cooling \/ ~WithinLimit
        /\ phase' = [phase EXCEPT ![r] = "refused"]
        /\ LeaveUserLock(r)
        /\ UNCHANGED errors
  /\ UNCHANGED <<vars, day, row, cooling, charged, late>>

\* Mutant: the count goes on although the day is another one.
ChargeNoRollover(r) ==
  /\ row' = [count |-> row.count + 1, date |-> day]
  /\ cooling' = TRUE
  /\ charged' = [charged EXCEPT ![r] = day]

\* The UPSERT of update_rate_limit.
Charge(r) ==
  /\ row' = [count |-> IF row.date = day THEN row.count + 1 ELSE 1, date |-> day]
  /\ cooling' = TRUE
  /\ charged' = [charged EXCEPT ![r] = day]

\* aupdate_rate_limit, whose error is only logged, and the end of the lock.
Reserve(r) ==
  /\ phase[r] = "passed"
  /\ phase' = [phase EXCEPT ![r] = "admitted"]
  /\ \/ Charge(r) /\ UNCHANGED errors
     \/ errors < MaxErrors /\ errors' = errors + 1 /\ UNCHANGED <<row, cooling, charged>>
  /\ LeaveUserLock(r)
  /\ UNCHANGED <<vars, day, late>>

-----------------------------------------------------------------------------
(* handle_message and handle_playlist.                                     *)

\* A step of VideoLock by a request that has its slot.
UseVideo(r) ==
  /\ phase[r] = "admitted"
  /\ ArriveFirst(r) \/ ArriveLater(r) \/ Resume(r) \/ Finish(r) \/ TimesOut(r)
  /\ UNCHANGED <<rlockVars, rowVars>>

\* Mutant: the MAX(..., 0) is left out.
GiveBackNoFloor == row' = [row EXCEPT !.count = IF row.date = day THEN @ - 1 ELSE @]

\* The UPDATE of refund_rate_limit: only a row of today, and not below zero.
GiveBack ==
  row' = [row EXCEPT !.count = IF row.date = day /\ @ > 0 THEN @ - 1 ELSE @]

\* After a timeout of the video lock: arefund_rate_limit.
Refund(r) ==
  /\ pc[r] = "expired" /\ phase[r] = "admitted"
  /\ phase' = [phase EXCEPT ![r] = "refunded"]
  /\ \/ /\ GiveBack
        /\ late' = [late EXCEPT ![day] = IF charged[r] # day THEN @ + 1 ELSE @]
        /\ UNCHANGED errors
     \/ errors < MaxErrors /\ errors' = errors + 1 /\ UNCHANGED <<row, late>>
  /\ UNCHANGED <<vars, rlockVars, day, cooling, charged>>

\* The finally block, after the refund.
Depart(r) == phase[r] = "refunded" /\ Leave(r) /\ UNCHANGED <<rlockVars, rowVars>>

-----------------------------------------------------------------------------
(* Time.                                                                   *)

CoolDown ==
  /\ cooling /\ cooling' = FALSE
  /\ UNCHANGED <<vars, rlockVars, phase, day, row, charged, late, errors>>

Midnight ==
  /\ day < Days /\ day' = day + 1
  /\ UNCHANGED <<vars, rlockVars, phase, row, cooling, charged, late, errors>>

AdmissionStep(r) ==
  TakeUserLock(r) \/ Check(r) \/ Reserve(r) \/ Refund(r) \/ Depart(r)

AdmissionNext ==
  \/ \E r \in Requests : AdmissionStep(r) \/ UseVideo(r)
  \/ DropUnlocked \/ CoolDown \/ Midnight

AdmissionSpec == AdmissionInit /\ [][AdmissionNext]_admissionVars

\* The event loop runs every task that can run, and a processing ends.
AdmissionFairSpec ==
  /\ AdmissionSpec
  /\ \A r \in Requests :
       /\ WF_admissionVars(AdmissionStep(r))
       /\ WF_admissionVars(UseVideo(r) /\ Step(r))

-----------------------------------------------------------------------------
\* Slots of day d that are in use: reserved and not given back.
Used(d) == {r \in Requests : charged[r] = d /\ phase[r] # "refunded"}

\* The daily limit holds for all requests, whether they waited for the user's
\* lock or found it free, but for those that waited while the lock was dropped
\* from the registry; so it holds for every request when no lock is dropped under
\* a waiter.  Beyond it go only slots of an earlier day that were given back
\* today, and requests let pass by an error of the database.
LimitHolds ==
  \A d \in 1..Days :
    Cardinality(Used(d) \ orphaned) <= DailyLimit + late[d] + errors


\* daily_count counts the slots in use, whatever the order of reservations,
\* refunds and days, unless a slot was given back on a later day or the
\* database failed.
LedgerAgrees ==
  (errors = 0 /\ \A d \in 1..Days : late[d] = 0)
    => row.count = Cardinality(Used(row.date) \ {r \in Requests : row.date = 0})
=============================================================================
