----------------------- MODULE GeminiCapacity_proofs -----------------------
(***************************************************************************)
(* The retry budget, the capacity gate and the progress of the requests,   *)
(* for every number of tasks, keys, slots and attempts.                    *)
(***************************************************************************)
EXTENDS GeminiCapacity, FiniteSetTheorems, WellFoundedInduction, TLAPS

Phases == {"new", "asking", "queued", "cooling", "calling", "backoff"} \cup Ended
Uploading == {"upload", "poll"}
Inferring == {"infer", "legacy"}
Flying == {"asking", "queued", "cooling", "calling"}

-----------------------------------------------------------------------------
(* The books of a task.                                                    *)

\* The local variables of a task; only those that the budget depends on have a type.
IsTask(s) ==
  s \in [part : Parts, i : {s.i}, start : {s.start}, same : {s.same},
         used : [Domains -> 0..Budget], sleep : {s.sleep}, spent : {s.spent},
         hits : [Domains -> Nat]]

\* An attempt of domain d was claimed and is not over: it may yet be a hit.
Pending(s, l, d) ==
  \/ d = "files" /\ s.part = "upload" /\ l \in Flying
  \/ d = "files" /\ s.part = "poll" /\ l \in Flying \cup {"backoff"}
  \/ d = "inference" /\ s.part \in Inferring /\ l \in Flying

\* An additional request ends the task that makes it: it is the only hit that
\* was not claimed.
Unclaimed(s, l, d) == d = "inference" /\ s.part \in Additional /\ l \in Ended

\* A task at stage l with the variables s: each hit was claimed before, and an
\* upload or a pause leaves an attempt of inference.
Suits(t, s, l) ==
  /\ IsTask(s) /\ l \in Phases
  /\ t \in Routed => s.part = "infer"
  /\ \A d \in Domains :
       /\ s.hits[d] <= s.used[d] + 1
       /\ ~Unclaimed(s, l, d) => s.hits[d] <= s.used[d]
       /\ Pending(s, l, d) => s.hits[d] < s.used[d]
  /\ s.part \in Uploading /\ l \notin Ended => s.used["inference"] < Budget
  /\ l = "backoff" => s.part \notin Additional /\ s.used["inference"] < Budget

BudgetInv ==
  /\ task = [t \in Tasks |-> task[t]] /\ stage = [t \in Tasks |-> stage[t]]
  /\ \A t \in Tasks : Suits(t, task[t], stage[t])

\* The semaphore's queue holds the tasks that wait for it, each once.
QueueInv ==
  /\ queue \in Seq(Tasks)
  /\ \A i \in 1..Len(queue) : stage[queue[i]] = "queued"
  /\ \A i, j \in 1..Len(queue) : queue[i] = queue[j] => i = j

LEMMA BudgetSuffices == BudgetInv => NoRetryStorm
<1>. SUFFICES ASSUME BudgetInv, NEW t \in Tasks, NEW d \in Domains
              PROVE  task[t].hits[d] <= Budget + (IF t \in Analyses /\ d = "inference" THEN 1 ELSE 0)
  BY DEF NoRetryStorm
<1>1. /\ task[t].used[d] \in 0..Budget /\ task[t].hits[d] \in Nat
      /\ task[t].hits[d] <= task[t].used[d] + 1
      /\ ~Unclaimed(task[t], stage[t], d) => task[t].hits[d] <= task[t].used[d]
  BY DEF BudgetInv, Suits, IsTask
<1>2. Unclaimed(task[t], stage[t], d) => t \in Analyses /\ d = "inference"
  BY DEF BudgetInv, Suits, Unclaimed, Additional, Tasks
<1>. QED BY <1>1, <1>2, GeminiAssumption

\* A step that leaves the task t in order and the others alone.
InOrder(t) ==
  /\ task' = [task EXCEPT ![t] = task'[t]] /\ stage' = [stage EXCEPT ![t] = stage'[t]]
  /\ Suits(t, task'[t], stage'[t])

LEMMA OrderKept == ASSUME BudgetInv, NEW t \in Tasks, InOrder(t) PROVE BudgetInv'
  BY DEF BudgetInv, InOrder

LEMMA PutFits ==
  ASSUME BudgetInv, NEW t \in Tasks, NEW s, NEW l, Put(t, s, l), Suits(t, s, l)
  PROVE  InOrder(t)
<1>1. task'[t] = s /\ stage'[t] = l
  BY DEF BudgetInv, Put
<1>. QED BY <1>1 DEF InOrder, Put

\* Nothing is in flight.
Settled(s) == IsTask(s) /\ \A d \in Domains : s.hits[d] <= s.used[d]

LEMMA ClaimFits ==
  ASSUME NEW s, Settled(s), NEW d \in Domains, s.used[d] < Budget
  PROVE  /\ IsTask(Claim(s, d)) /\ Claim(s, d).part = s.part
         /\ Claim(s, d).used = [s.used EXCEPT ![d] = @ + 1] /\ Claim(s, d).hits = s.hits
<1>1. [s.used EXCEPT ![d] = @ + 1] \in [Domains -> 0..Budget]
  BY GeminiAssumption DEF Settled, IsTask
<1>2. Claim(s, d) = [s EXCEPT !.used = [s.used EXCEPT ![d] = @ + 1]]
  BY DEF Claim
<1>. QED BY <1>1, <1>2 DEF Settled, IsTask

LEMMA AttemptFits ==
  ASSUME BudgetInv, NEW t \in Routed, NEW s, Settled(s), s.part = "infer",
         s.used["inference"] < Budget, Attempt(t, s)
  PROVE  InOrder(t)
<1>0. t \in Tasks /\ "inference" \in Domains
  BY DEF Tasks, Domains
<1>1. CASE Put(t, s, "rejected")
  <2>1. Suits(t, s, "rejected")
    BY GeminiAssumption DEF Settled, IsTask, Suits, Phases, Ended, Pending, Unclaimed, Uploading, Inferring, Flying, Additional
  <2>. QED BY <1>0, <1>1, <2>1, PutFits
<1>2. CASE Put(t, Claim(s, "inference"), "asking")
  <2>. DEFINE c == Claim(s, "inference")
  <2>1. /\ IsTask(c) /\ c.part = "infer"
        /\ c.used = [s.used EXCEPT !["inference"] = @ + 1] /\ c.hits = s.hits
    BY <1>0, ClaimFits
  <2>. HIDE DEF c
  <2>2. Suits(t, c, "asking")
    BY <2>1, GeminiAssumption DEF Settled, IsTask, Suits, Phases, Ended, Pending, Unclaimed, Uploading, Inferring, Flying, Additional, Domains
  <2>. QED BY <1>0, <1>2, <2>2, PutFits DEF c
<1>. QED BY <1>1, <1>2 DEF Attempt

\* The other fields do not matter.
SameBooks(s, v) == IsTask(v) /\ v.part = s.part /\ v.used = s.used /\ v.hits = s.hits

LEMMA KeyMoves ==
  ASSUME NEW s, IsTask(s), NEW x, NEW y
  PROVE  SameBooks(s, [s EXCEPT !.i = x, !.same = y])
  BY DEF IsTask, SameBooks

LEMMA PartMoves ==
  ASSUME NEW s, IsTask(s), NEW p \in Parts
  PROVE  LET v == [s EXCEPT !.part = p] IN
         IsTask(v) /\ v.part = p /\ v.used = s.used /\ v.hits = s.hits
  BY DEF IsTask

LEMMA EndFits ==
  ASSUME NEW t \in Tasks, NEW s, Settled(s), t \in Routed => s.part = "infer", NEW l \in Ended
  PROVE  Suits(t, s, l)
  BY GeminiAssumption DEF Settled, IsTask, Suits, Phases, Ended, Pending, Unclaimed, Uploading, Inferring, Flying, Additional

LEMMA RouteToFits ==
  ASSUME BudgetInv, NEW t \in Routed, NEW s, Settled(s), s.part = "infer", RouteTo(t, s)
  PROVE  InOrder(t)
<1>0. t \in Tasks /\ "inference" \in Domains /\ "failed" \in Ended
  BY DEF Tasks, Domains, Ended
<1>1. CASE Put(t, s, "failed")
  BY <1>0, <1>1, EndFits, PutFits
<1>2. CASE s.used["inference"] # Budget /\ Attempt(t, [s EXCEPT !.i = First(Left(s))])
  <2>. DEFINE v == [s EXCEPT !.i = First(Left(s))]
  <2>1. Settled(v) /\ v.part = "infer" /\ v.used = s.used
    BY DEF Settled, IsTask
  <2>2. v.used["inference"] < Budget
    BY <1>0, <1>2, <2>1, GeminiAssumption DEF Settled, IsTask
  <2>. QED BY <1>2, <2>1, <2>2, AttemptFits
<1>. QED BY <1>1, <1>2 DEF RouteTo

LEMMA UploadToFits ==
  ASSUME BudgetInv, NEW t \in Analyses, NEW s, Settled(s), UploadTo(t, s)
  PROVE  InOrder(t)
<1>0. t \in Tasks /\ t \notin Routed /\ "files" \in Domains /\ "inference" \in Domains /\ "failed" \in Ended
  BY GeminiAssumption DEF Tasks, Domains, Ended
<1>1. CASE Put(t, s, "failed")
  BY <1>0, <1>1, EndFits, PutFits
<1>2. CASE /\ \A d \in Domains : s.used[d] # Budget
           /\ Put(t, Claim([s EXCEPT !.i = First(Left(s)), !.same = 0, !.part = "upload"], "files"),
                  "asking")
  <2>. DEFINE v == [s EXCEPT !.i = First(Left(s)), !.same = 0, !.part = "upload"]
              c == Claim(v, "files")
  <2>1. Settled(v) /\ v.part = "upload" /\ v.used = s.used
    <3>. DEFINE k == [s EXCEPT !.i = First(Left(s)), !.same = 0]
    <3>1. IsTask(s)
      BY DEF Settled
    <3>2. SameBooks(s, k)
      BY <3>1, KeyMoves
    <3>3. v = [k EXCEPT !.part = "upload"]
      BY <3>1 DEF IsTask
    <3>. HIDE DEF k, v
    <3>4. IsTask(v) /\ v.part = "upload" /\ v.used = k.used /\ v.hits = k.hits
      BY <3>2, <3>3, PartMoves DEF SameBooks, Parts
    <3>. QED BY <3>2, <3>4 DEF Settled, SameBooks
  <2>2. v.used["inference"] < Budget /\ v.used["files"] < Budget
    BY <1>0, <1>2, <2>1, GeminiAssumption DEF Settled, IsTask
  <2>. HIDE DEF v
  <2>3. /\ IsTask(c) /\ c.part = "upload"
        /\ c.used = [v.used EXCEPT !["files"] = @ + 1] /\ c.hits = v.hits
    BY <1>0, <2>1, <2>2, ClaimFits
  <2>. HIDE DEF c
  <2>4. Suits(t, c, "asking")
    BY <1>0, <2>1, <2>2, <2>3, GeminiAssumption DEF Settled, IsTask, Suits, Phases, Ended, Pending,
       Unclaimed, Uploading, Inferring, Flying, Additional, Domains
  <2>. QED BY <1>0, <1>2, <2>4, PutFits DEF c, v
<1>. QED BY <1>1, <1>2 DEF UploadTo

LEMMA NextClientFits ==
  ASSUME BudgetInv, NEW t \in Tasks, NEW s, Settled(s), t \in Routed => s.part = "infer",
         NextClient(t, s)
  PROVE  InOrder(t)
<1>. DEFINE n == [s EXCEPT !.i = @ + 1, !.same = 0]
<1>1. IsTask(s)
  BY DEF Settled
<1>2. SameBooks(s, n)
  BY <1>1, KeyMoves
<1>3. Settled(n) /\ n.part = s.part
  BY <1>2 DEF Settled, SameBooks
<1>4. IF t \in Routed THEN RouteTo(t, n) ELSE UploadTo(t, n)
  BY DEF NextClient
<1>. HIDE DEF n
<1>. QED BY <1>3, <1>4, RouteToFits, UploadToFits DEF Tasks

\* A task that waits for a pause of any length.
LEMMA BackoffFits ==
  ASSUME NEW t \in Tasks, NEW s, Settled(s), t \in Routed => s.part = "infer",
         s.part \in {"upload"} \cup Inferring, s.used["inference"] < Budget
  PROVE  Suits(t, s, "backoff")
  BY DEF Settled, IsTask, Suits, Phases, Ended, Pending, Unclaimed, Uploading, Inferring, Flying, Additional

-----------------------------------------------------------------------------
(* After a failure, which was a hit or was taken for one.                  *)

Failed(t, s) ==
  /\ IsTask(s) /\ (t \in Routed => s.part = "infer")
  /\ s.part \in Uploading => s.used["inference"] < Budget
  /\ \A d \in Domains :
       s.hits[d] <= s.used[d] + (IF d = "inference" /\ s.part \in Additional THEN 1 ELSE 0)

LEMMA FailedSettles ==
  ASSUME NEW t, NEW s, Failed(t, s), s.part \notin Additional
  PROVE  Settled(s)
  BY DEF Failed, Settled, IsTask

LEMMA HitFails ==
  ASSUME NEW t, NEW s, Suits(t, s, "calling")
  PROVE  Failed(t, Hit(s)) /\ Hit(s).part = s.part /\ Hit(s).used = s.used
<1>. DEFINE d == DomainOf(s.part)
<1>1. d \in Domains /\ IsTask(s)
  BY DEF Suits, DomainOf, Domains
<1>2. Hit(s) = [s EXCEPT !.hits = [s.hits EXCEPT ![d] = @ + 1]]
  BY <1>1 DEF Hit
<1>3. [s.hits EXCEPT ![d] = @ + 1] \in [Domains -> Nat]
  BY <1>1 DEF IsTask
<1>. DEFINE v == Hit(s)
<1>4. IsTask(v) /\ v.part = s.part /\ v.used = s.used /\ v.hits = [s.hits EXCEPT ![d] = @ + 1]
  BY <1>1, <1>2, <1>3 DEF IsTask
<1>. HIDE DEF v
<1>5. ASSUME NEW e \in Domains
      PROVE  v.hits[e] <= v.used[e] + (IF e = "inference" /\ v.part \in Additional THEN 1 ELSE 0)
  <2>1. s.hits[e] \in Nat /\ s.used[e] \in Nat
    BY <1>1 DEF IsTask
  <2>2. CASE e = d
    <3>1. v.hits[e] = s.hits[e] + 1
      BY <1>1, <1>4, <2>2 DEF IsTask
    <3>. QED BY <1>1, <1>4, <2>1, <2>2, <3>1 DEF Suits, Pending, Unclaimed, Ended, DomainOf, IsTask, Parts,
            Additional, Uploading, Inferring, Flying
  <2>3. CASE e # d
    <3>1. v.hits[e] = s.hits[e]
      BY <1>1, <1>4, <2>3 DEF IsTask
    <3>. QED BY <1>4, <2>1, <3>1 DEF Suits, Unclaimed, Ended
  <2>. QED BY <2>2, <2>3
<1>. QED BY <1>4, <1>5 DEF Failed, Suits, Ended, v

LEMMA FlightFails ==
  ASSUME NEW t, NEW s, NEW l \in Flying, Suits(t, s, l)
  PROVE  Failed(t, s)
  BY DEF Suits, Failed, Unclaimed, Flying, Ended, Uploading, IsTask

LEMMA EndExtraFits ==
  ASSUME BudgetInv, NEW t \in Tasks, NEW s, Failed(t, s), s.part \in Additional, EndExtra(t, s)
  PROVE  InOrder(t)
<1>1. ASSUME NEW l \in Ended PROVE Suits(t, s, l)
  BY <1>1 DEF Failed, Suits, IsTask, Phases, Ended, Pending, Unclaimed, Uploading, Inferring, Flying, Additional
<1>. QED BY <1>1, PutFits DEF EndExtra, Ended

LEMMA FailedEnds ==
  ASSUME BudgetInv, NEW t \in Tasks, NEW s, Failed(t, s), s.part \notin Additional, Put(t, s, "failed")
  PROVE  InOrder(t)
  BY FailedSettles, EndFits, PutFits DEF Failed, Ended

\* After a pause that the budget allows, with this key or the next.
LEMMA PauseFits ==
  ASSUME BudgetInv, NEW t \in Tasks, NEW s, Failed(t, s), s.part \notin Additional,
         s.used["inference"] < Budget, NEW v, Settled(v), v.used = s.used,
         v.part = s.part \/ (v.part = "upload" /\ t \notin Routed), v.part # "poll", Put(t, v, "backoff")
  PROVE  InOrder(t)
<1>1. v.part \in {"upload"} \cup Inferring /\ (t \in Routed => v.part = "infer")
  BY DEF Failed, Settled, IsTask, Parts, Additional, Inferring
<1>. QED BY <1>1, BackoffFits, PutFits

LEMMA SameKeyFits ==
  ASSUME BudgetInv, NEW t \in Tasks, NEW s, Failed(t, s), s.part \in Inferring,
         s.used["inference"] # Budget, NEW x, Put(t, [s EXCEPT !.sleep = x, !.same = 1], "backoff")
  PROVE  InOrder(t)
<1>. DEFINE v == [s EXCEPT !.sleep = x, !.same = 1]
<1>1. SameBooks(s, v)
  BY DEF SameBooks, Failed, IsTask
<1>. HIDE DEF v
<1>2. Settled(s) /\ s.part \notin Additional /\ s.part # "poll"
  BY FailedSettles DEF Inferring, Additional
<1>3. s.used["inference"] < Budget
  BY GeminiAssumption DEF Failed, IsTask, Domains
<1>. QED BY <1>1, <1>2, <1>3, PauseFits DEF SameBooks, Settled, v

LEMMA OverloadedFits ==
  ASSUME BudgetInv, NEW t \in Tasks, NEW s, Failed(t, s), Overloaded(t, s)
  PROVE  InOrder(t)
<1>1. CASE s.part \in Additional
  <2>1. EndExtra(t, s)
    BY <1>1 DEF Overloaded, Additional
  <2>. QED BY <1>1, <2>1, EndExtraFits
<1>2. CASE s.part \in Uploading
  <2>. DEFINE x == s.used[DomainOf(s.part)]
              v == [s EXCEPT !.sleep = x, !.i = @ + 1, !.part = "upload"]
  <2>1. s.part \notin Additional /\ s.used["inference"] < Budget /\ Settled(s) /\ t \notin Routed
    BY <1>2, FailedSettles DEF Uploading, Additional, Failed
  <2>2. CASE Put(t, s, "failed")
    BY <2>1, <2>2, FailedEnds
  <2>3. CASE Put(t, v, "backoff")
    <3>1. IsTask(v) /\ v.part = "upload" /\ v.used = s.used /\ v.hits = s.hits
      <4>. DEFINE y == s.i + 1
      <4>1. v = [s EXCEPT !.sleep = x, !.i = y, !.part = "upload"]
        BY <2>1 DEF Settled, IsTask
      <4>. HIDE DEF x, y
      <4>2. "upload" \in Parts
        BY DEF Parts
      <4>. QED BY <2>1, <4>1, <4>2 DEF Settled, IsTask
    <3>. HIDE DEF v
    <3>. QED BY <2>1, <2>3, <3>1, PauseFits DEF Settled
  <2>4. Put(t, s, "failed") \/ Put(t, v, "backoff")
    BY <1>2, <2>1 DEF Overloaded, Uploading
  <2>. QED BY <2>2, <2>3, <2>4
<1>3. CASE s.part \in Inferring
  <2>1. s.part \notin Additional /\ s.part \notin Uploading /\ Settled(s)
    BY <1>3, FailedSettles DEF Uploading, Additional, Inferring
  <2>2. \/ Put(t, s, "failed")
        \/ s.used["inference"] # Budget
           /\ Put(t, [s EXCEPT !.sleep = s.used["inference"], !.same = 1], "backoff")
        \/ NextClient(t, s)
    BY <2>1 DEF Overloaded, DomainOf, Uploading
  <2>3. CASE Put(t, s, "failed")
    BY <2>1, <2>3, FailedEnds
  <2>4. CASE s.used["inference"] # Budget
             /\ Put(t, [s EXCEPT !.sleep = s.used["inference"], !.same = 1], "backoff")
    BY <1>3, <2>4, SameKeyFits
  <2>5. CASE NextClient(t, s)
    BY <2>1, <2>5, NextClientFits DEF Failed
  <2>. QED BY <2>2, <2>3, <2>4, <2>5
<1>. QED BY <1>1, <1>2, <1>3 DEF Failed, IsTask, Parts, Additional, Uploading, Inferring

\* The refund of a claim that no request was made for.
LEMMA RefuseFits ==
  ASSUME BudgetInv, NEW t \in Tasks, stage[t] \in Flying, Refuse(t)
  PROVE  InOrder(t)
<1>1. Suits(t, task[t], stage[t])
  BY DEF BudgetInv
<1>2. CASE t \in Routed
  <2>. DEFINE s == task[t]  u == [s.used EXCEPT !["inference"] = @ - 1]  v == Refunded(s)
  <2>1. IsTask(s) /\ s.part = "infer" /\ "inference" \in Domains
    BY <1>1, <1>2 DEF Suits, Domains
  <2>2. s.hits["inference"] < s.used["inference"]
    BY <1>1, <2>1 DEF Suits, Pending, Inferring
  <2>3. u \in [Domains -> 0..Budget]
    BY <2>1, <2>2, GeminiAssumption DEF IsTask
  <2>4. v = [s EXCEPT !.used = u]
    BY DEF Refunded
  <2>. HIDE DEF u, s, v
  <2>5. IsTask(v) /\ v.part = "infer" /\ v.used = u /\ v.hits = s.hits
    BY <2>1, <2>3, <2>4 DEF IsTask
  <2>6. Settled(v)
    BY <1>1, <2>1, <2>2, <2>5 DEF Settled, Suits, Unclaimed, Additional, IsTask, u, s
  <2>7. Put(t, v, "rejected")
    BY <1>2 DEF Refuse, v, s
  <2>. QED BY <2>5, <2>6, <2>7, EndFits, PutFits DEF Ended
<1>3. CASE t \notin Routed
  BY <1>1, <1>3, FlightFails, OverloadedFits DEF Refuse
<1>. QED BY <1>2, <1>3

-----------------------------------------------------------------------------
(* The budget is kept.                                                     *)

LEMMA Init_Budget == GeminiInit => BudgetInv
<1>. SUFFICES ASSUME GeminiInit PROVE BudgetInv
  OBVIOUS
<1>. DEFINE zero == [d \in Domains |-> 0]
<1>1. zero \in [Domains -> 0..Budget] /\ zero \in [Domains -> Nat] /\ \A d \in Domains : zero[d] = 0
  BY GeminiAssumption
<1>. HIDE DEF zero
<1>2. task = [t \in Tasks |->
       [part |-> IF t \in Routed THEN "infer" ELSE "upload", i |-> 0, start |-> 0, same |-> 0,
        used |-> zero, sleep |-> 0, spent |-> {}, hits |-> zero]]
  BY DEF GeminiInit, zero
<1>3. ASSUME NEW t \in Tasks PROVE Suits(t, task[t], "new")
  <2>1. IsTask(task[t]) /\ task[t].used = zero /\ task[t].hits = zero
        /\ task[t].part = IF t \in Routed THEN "infer" ELSE "upload"
    BY <1>1, <1>2 DEF IsTask, Parts
  <2>. QED BY <1>1, <2>1, GeminiAssumption DEF Suits, Phases, Ended, Pending, Unclaimed, Uploading,
         Inferring, Flying, Additional, Domains
<1>4. stage = [t \in Tasks |-> "new"]
  BY DEF GeminiInit
<1>. QED BY <1>2, <1>3, <1>4 DEF BudgetInv

LEMMA HeadWaits ==
  ASSUME QueueInv, queue # <<>>
  PROVE  stage[Head(queue)] = "queued"
<1>1. 1 \in 1..Len(queue) /\ Head(queue) = queue[1]
  BY DEF QueueInv
<1>. QED BY <1>1 DEF QueueInv

LEMMA StepFits ==
  ASSUME BudgetInv, QueueInv, NEW t \in Tasks, GeminiStep(t)
  PROVE  InOrder(t)
<1>. DEFINE s == task[t]
<1>0. /\ Suits(t, s, stage[t]) /\ IsTask(s) /\ s.part \in Parts
      /\ (t \in Routed => s.part = "infer") /\ (t \notin Routed => t \in Analyses)
      /\ stage[t] \notin Ended => Settled(s)
  BY DEF BudgetInv, Suits, IsTask, Settled, Unclaimed, Tasks
<1>p. ASSUME NEW v, NEW l, Put(t, v, l), Suits(t, v, l) PROVE InOrder(t)
  BY <1>p, PutFits
<1>m. ASSUME NEW l, stage' = [stage EXCEPT ![t] = l], UNCHANGED task, Suits(t, s, l)
      PROVE  InOrder(t)
  <2>1. task' = [task EXCEPT ![t] = s]
    BY <1>m DEF BudgetInv
  <2>. HIDE DEF s
  <2>. QED BY <1>m, <1>p, <2>1 DEF Put
<1>. HIDE DEF s
<1>1. CASE StartRequest(t)
  <2>1. stage[t] = "new" /\ Settled(s)
    BY <1>0, <1>1 DEF StartRequest, Ended
  <2>2. CASE Put(t, s, "rejected")
    BY <1>0, <1>p, <2>1, <2>2, EndFits DEF Ended
  <2>3. CASE t \in Routed /\ RouteTo(t, [s EXCEPT !.start = nextKey])
    <3>. DEFINE v == [s EXCEPT !.start = nextKey]
    <3>1. SameBooks(s, v)
      BY <1>0 DEF SameBooks, IsTask
    <3>. HIDE DEF v
    <3>2. Settled(v) /\ v.part = "infer"
      BY <1>0, <2>1, <2>3, <3>1 DEF SameBooks, Settled
    <3>. QED BY <2>3, <3>2, RouteToFits DEF v
  <2>4. CASE t \notin Routed /\ UploadTo(t, s)
    BY <1>0, <2>1, <2>4, UploadToFits
  <2>. QED BY <1>1, <2>2, <2>3, <2>4 DEF StartRequest, s
<1>2. CASE Ask(t)
  <2>1. CASE Refuse(t)
    BY <1>2, <2>1, RefuseFits DEF Ask, Flying
  <2>2. CASE stage' = [stage EXCEPT ![t] = "queued"] /\ UNCHANGED task
    <3>1. Suits(t, s, "queued")
      BY <1>0, <1>2 DEF Ask, Suits, Phases, Ended, Pending, Unclaimed, Flying
    <3>. QED BY <1>m, <2>2, <3>1
  <2>. QED BY <1>2, <2>1, <2>2 DEF Ask
<1>3. CASE Enter(t) \/ Cooled(t)
  <2>1. stage[t] \in {"queued", "cooling"}
    BY <1>3, HeadWaits DEF Enter, Cooled
  <2>2. CASE Refuse(t)
    BY <2>1, <2>2, RefuseFits DEF Flying
  <2>3. CASE stage' = [stage EXCEPT ![t] = "calling"] /\ UNCHANGED task
    <3>1. Suits(t, s, "calling")
      BY <1>0, <2>1 DEF Suits, Phases, Ended, Pending, Unclaimed, Flying
    <3>. QED BY <1>m, <2>3, <3>1
  <2>4. ASSUME NEW x, Put(t, [s EXCEPT !.sleep = x], "cooling")
        PROVE  InOrder(t)
    <3>. DEFINE v == [s EXCEPT !.sleep = x]
    <3>1. SameBooks(s, v)
      BY <1>0 DEF SameBooks, IsTask
    <3>. HIDE DEF v
    <3>2. Suits(t, v, "cooling")
      BY <1>0, <2>1, <3>1 DEF SameBooks, Suits, Phases, Ended, Pending, Unclaimed, Flying
    <3>. QED BY <1>p, <2>4, <3>2 DEF v
  <2>. QED BY <1>3, <2>2, <2>3, <2>4 DEF Enter, Cooled, s
<1>4. CASE Answered(t)
  <2>1. stage[t] = "calling" /\ Settled(s) /\ t \in Routed
    BY <1>0, <1>4 DEF Answered, Ended
  <2>2. CASE Put(t, s, "done")
    BY <1>0, <1>p, <2>1, <2>2, EndFits DEF Ended
  <2>3. CASE NextClient(t, s)
    BY <1>0, <2>1, <2>3, NextClientFits
  <2>. QED BY <1>4, <2>2, <2>3 DEF Answered, s
<1>5. CASE Success(t)
  <2>1. stage[t] = "calling" /\ t \notin Routed /\ Settled(s)
    BY <1>0, <1>5, GeminiAssumption DEF Success, Ended
  <2>2. ASSUME NEW p \in Parts, NEW l \in {"asking", "backoff"}, Put(t, [s EXCEPT !.part = p], l),
               \/ p = "poll" /\ s.part = "upload" /\ l = "backoff"
               \/ p \in Additional /\ s.part \in Inferring \cup Additional /\ l = "asking"
        PROVE  InOrder(t)
    <3>. DEFINE v == [s EXCEPT !.part = p]
    <3>1. IsTask(v) /\ v.part = p /\ v.used = s.used /\ v.hits = s.hits
      BY <1>0 DEF IsTask
    <3>. HIDE DEF v
    <3>2. Suits(t, v, l)
      BY <1>0, <2>1, <2>2, <3>1 DEF Suits, Phases, Ended, Pending, Unclaimed, Flying, Settled, Uploading,
         Inferring, Additional
    <3>. QED BY <1>p, <2>2, <3>2 DEF v
  <2>3. CASE s.part \in Uploading /\ Put(t, Claim([s EXCEPT !.part = "infer"], "inference"), "asking")
    <3>. DEFINE v == [s EXCEPT !.part = "infer"]  c == Claim(v, "inference")
    <3>1. IsTask(v) /\ v.part = "infer" /\ v.used = s.used /\ v.hits = s.hits
      BY <1>0 DEF IsTask, Parts
    <3>. HIDE DEF v
    <3>2. Settled(v) /\ v.used["inference"] < Budget /\ "inference" \in Domains
      BY <1>0, <2>1, <2>3, <3>1 DEF Suits, Settled, Ended, Domains
    <3>3. /\ IsTask(c) /\ c.part = "infer"
          /\ c.used = [v.used EXCEPT !["inference"] = @ + 1] /\ c.hits = v.hits
      BY <3>1, <3>2, ClaimFits
    <3>. HIDE DEF c
    <3>4. Suits(t, c, "asking")
      BY <2>1, <3>1, <3>2, <3>3 DEF Settled, IsTask, Suits, Phases, Ended, Pending, Unclaimed, Uploading,
         Inferring, Flying, Additional, Domains
    <3>. QED BY <1>p, <2>3, <3>4 DEF c, v
  <2>4. ASSUME NEW l \in Ended, Put(t, s, l) PROVE InOrder(t)
    BY <1>0, <1>p, <2>1, <2>4, EndFits
  <2>. QED BY <1>5, <2>2, <2>3, <2>4 DEF Success, s, Parts, Uploading, Inferring, Additional, Ended
<1>6. CASE Quota(t)
  <2>1. stage[t] = "calling"
    BY <1>6 DEF Quota
  <2>2. Failed(t, Hit(s)) /\ Hit(s).part = s.part
    BY <1>0, <2>1, HitFails
  <2>. DEFINE h == Hit(s)
  <2>. HIDE DEF h
  <2>3. PICK x : IF h.part \in Additional THEN EndExtra(t, h) ELSE NextClient(t, [h EXCEPT !.spent = x])
    BY <1>6 DEF Quota, s, h
  <2>4. CASE h.part \in Additional
    BY <2>2, <2>3, <2>4, EndExtraFits DEF h
  <2>5. CASE h.part \notin Additional
    <3>. DEFINE v == [h EXCEPT !.spent = x]
    <3>1. Settled(h)
      BY <2>2, <2>5, FailedSettles DEF h
    <3>2. SameBooks(h, v)
      BY <3>1 DEF SameBooks, Settled, IsTask
    <3>. HIDE DEF v
    <3>3. Settled(v) /\ v.part = h.part
      BY <3>1, <3>2 DEF SameBooks, Settled
    <3>. QED BY <1>0, <2>2, <2>3, <2>5, <3>3, NextClientFits DEF h, v
  <2>. QED BY <2>4, <2>5
<1>7. CASE Overload(t)
  <2>1. stage[t] = "calling" /\ Overloaded(t, Hit(s))
    BY <1>7 DEF Overload, s
  <2>. QED BY <1>0, <2>1, HitFails, OverloadedFits
<1>8. CASE Timeout(t)
  <2>. DEFINE h == Hit(s)
  <2>. HIDE DEF h
  <2>1. stage[t] = "calling"
    BY <1>8 DEF Timeout
  <2>2. Failed(t, h) /\ h.part = s.part /\ IsTask(h)
    BY <1>0, <2>1, HitFails DEF h, Failed
  <2>3. CASE h.part \in Additional
    <3>1. EndExtra(t, h)
      BY <1>8, <2>3 DEF Timeout, h, s, Additional
    <3>. QED BY <2>2, <2>3, <3>1, EndExtraFits
  <2>4. CASE h.part \notin Additional
    <3>1. Settled(h)
      BY <2>2, <2>4, FailedSettles
    <3>2. \/ NextClient(t, h)
          \/ Put(t, h, "failed")
          \/ /\ h.part \in Inferring /\ h.used["inference"] # Budget
             /\ Put(t, [h EXCEPT !.sleep = h.used["inference"], !.same = 1], "backoff")
      BY <1>8, <2>2, <2>4, <1>0 DEF Timeout, h, s, Parts, Additional, Inferring
    <3>3. CASE NextClient(t, h)
      BY <1>0, <2>2, <3>1, <3>3, NextClientFits
    <3>4. CASE Put(t, h, "failed")
      BY <2>2, <2>4, <3>4, FailedEnds
    <3>5. CASE /\ h.part \in Inferring /\ h.used["inference"] # Budget
               /\ Put(t, [h EXCEPT !.sleep = h.used["inference"], !.same = 1], "backoff")
      BY <2>2, <3>5, SameKeyFits
    <3>. QED BY <3>2, <3>3, <3>4, <3>5
  <2>. QED BY <2>3, <2>4
<1>9. CASE OtherError(t)
  <2>1. stage[t] = "calling" /\ Settled(s)
    BY <1>0, <1>9 DEF OtherError, Ended
  <2>2. CASE t \in Analyses /\ s.part = "infer" /\ Put(t, [s EXCEPT !.part = "legacy"], "asking")
    <3>. DEFINE v == [s EXCEPT !.part = "legacy"]
    <3>1. IsTask(v) /\ v.part = "legacy" /\ v.used = s.used /\ v.hits = s.hits
      BY <1>0 DEF IsTask, Parts
    <3>. HIDE DEF v
    <3>2. Suits(t, v, "asking")
      BY <1>0, <2>1, <2>2, <3>1, GeminiAssumption DEF Suits, Phases, Ended, Pending, Unclaimed, Flying,
         Settled, Uploading, Inferring, Additional
    <3>. QED BY <1>p, <2>2, <3>2 DEF v
  <2>3. ASSUME NEW l \in Ended, Put(t, s, l) PROVE InOrder(t)
    BY <1>0, <1>p, <2>1, <2>3, EndFits
  <2>. QED BY <1>9, <2>2, <2>3 DEF OtherError, EndExtra, Ended, s
<1>a. CASE Retry(t)
  <2>1. /\ stage[t] = "backoff" /\ Settled(s) /\ s.used["inference"] < Budget
        /\ s.part \notin Additional
    BY <1>0, <1>a DEF Retry, Ended, Suits
  <2>2. CASE t \in Routed /\ Attempt(t, s)
    BY <1>0, <2>1, <2>2, AttemptFits
  <2>3. CASE t \in Analyses /\ UploadTo(t, s)
    BY <2>1, <2>3, UploadToFits
  <2>4. CASE s.part = "poll" /\ Put(t, s, "asking")
    <3>1. Suits(t, s, "asking")
      BY <1>0, <2>1, <2>4 DEF Suits, Phases, Ended, Pending, Unclaimed, Flying, Settled, Uploading,
         Inferring, Additional
    <3>. QED BY <1>p, <2>4, <3>1
  <2>5. CASE t \notin Routed /\ Put(t, Claim([s EXCEPT !.part = "infer"], "inference"), "asking")
    <3>. DEFINE v == [s EXCEPT !.part = "infer"]  c == Claim(v, "inference")
    <3>1. IsTask(v) /\ v.part = "infer" /\ v.used = s.used /\ v.hits = s.hits
      BY <1>0 DEF IsTask, Parts
    <3>. HIDE DEF v
    <3>2. Settled(v) /\ v.used["inference"] < Budget /\ "inference" \in Domains
      BY <2>1, <3>1 DEF Settled, Domains
    <3>3. /\ IsTask(c) /\ c.part = "infer"
          /\ c.used = [v.used EXCEPT !["inference"] = @ + 1] /\ c.hits = v.hits
      BY <3>1, <3>2, ClaimFits
    <3>. HIDE DEF c
    <3>4. Suits(t, c, "asking")
      BY <2>5, <3>1, <3>2, <3>3 DEF Settled, IsTask, Suits, Phases, Ended, Pending, Unclaimed, Uploading,
         Inferring, Flying, Additional, Domains
    <3>. QED BY <1>p, <2>5, <3>4 DEF c, v
  <2>6. \/ t \in Routed /\ Attempt(t, s)
        \/ t \in Analyses /\ UploadTo(t, s)
        \/ s.part = "poll" /\ Put(t, s, "asking")
        \/ t \notin Routed /\ Put(t, Claim([s EXCEPT !.part = "infer"], "inference"), "asking")
    BY <1>a DEF Retry, s
  <2>. QED BY <2>2, <2>3, <2>4, <2>5, <2>6
<1>. QED BY <1>1, <1>2, <1>3, <1>4, <1>5, <1>6, <1>7, <1>8, <1>9, <1>a DEF GeminiStep

\* The queue is left alone unless a task joins it or its head leaves.
LEMMA QueueMoves ==
  ASSUME NEW t \in Tasks, GeminiStep(t)
  PROVE  \/ queue' = queue /\ stage[t] # "queued"
         \/ queue' = Append(queue, t) /\ stage[t] = "asking" /\ stage' = [stage EXCEPT ![t] = "queued"]
         \/ queue # <<>> /\ t = Head(queue) /\ queue' = Tail(queue)
  BY DEF GeminiStep, StartRequest, Ask, Enter, Cooled, Answered, Success, Quota, Overload, Timeout,
     OtherError, Retry

LEMMA StepKeepsQueue ==
  ASSUME BudgetInv, QueueInv, NEW t \in Tasks, GeminiStep(t)
  PROVE  QueueInv'
<1>1. \A u \in Tasks \ {t} : stage'[u] = stage[u]
  BY StepFits DEF BudgetInv, InOrder
<1>0. queue \in Seq(Tasks) /\ \A i \in 1..Len(queue) : queue[i] \in Tasks
  BY DEF QueueInv
<1>2. CASE queue' = queue /\ stage[t] # "queued"
  BY <1>0, <1>1, <1>2 DEF QueueInv
<1>3. CASE queue' = Append(queue, t) /\ stage[t] = "asking" /\ stage' = [stage EXCEPT ![t] = "queued"]
  <2>1. stage'[t] = "queued"
    BY <1>3 DEF BudgetInv
  <2>2. \A i \in 1..Len(queue) : queue[i] # t
    BY <1>3 DEF QueueInv
  <2>3. /\ queue' \in Seq(Tasks) /\ Len(queue') = Len(queue) + 1 /\ queue'[Len(queue) + 1] = t
        /\ \A i \in 1..Len(queue) : queue'[i] = queue[i]
    BY <1>0, <1>3
  <2>. QED BY <1>0, <1>1, <2>1, <2>2, <2>3 DEF QueueInv
<1>4. CASE queue # <<>> /\ t = Head(queue) /\ queue' = Tail(queue)
  <2>1. t = queue[1] /\ Len(queue) >= 1
    BY <1>0, <1>4
  <2>2. /\ queue' \in Seq(Tasks) /\ Len(queue') = Len(queue) - 1
        /\ \A i \in 1..Len(queue') : queue'[i] = queue[i + 1] /\ i + 1 \in 1..Len(queue)
    BY <1>0, <1>4
  <2>. QED BY <1>0, <1>1, <2>1, <2>2 DEF QueueInv
<1>. QED BY <1>2, <1>3, <1>4, QueueMoves

LEMMA TickKeeps ==
  ASSUME BudgetInv, QueueInv, Tick
  PROVE  BudgetInv' /\ QueueInv'
<1>1. task' = [t \in Tasks |-> [task[t] EXCEPT !.sleep = Minus1(@)]] /\ UNCHANGED <<queue, stage>>
  BY DEF Tick
<1>2. ASSUME NEW t \in Tasks PROVE Suits(t, task'[t], stage[t])
  <2>. DEFINE s == task[t]  x == Minus1(s.sleep)  v == [s EXCEPT !.sleep = x]
  <2>1. Suits(t, s, stage[t]) /\ task'[t] = v
    BY <1>1 DEF BudgetInv
  <2>. HIDE DEF s, x
  <2>2. SameBooks(s, v)
    BY <2>1 DEF SameBooks, Suits, IsTask
  <2>. HIDE DEF v
  <2>. QED BY <2>1, <2>2 DEF SameBooks, Suits, Pending, Unclaimed
<1>. QED BY <1>1, <1>2 DEF BudgetInv, QueueInv

\* NoRetryStorm: however often circuits, refunds and changes of the key intervene, no
\* request is answered with more transient failures than it has attempts.
THEOREM RetriesAreBounded == GeminiSpec => []NoRetryStorm
<1>. DEFINE Inv == BudgetInv /\ QueueInv
<1>1. GeminiInit => Inv
  <2>1. GeminiInit => QueueInv
    BY DEF GeminiInit, QueueInv
  <2>. QED BY <2>1, Init_Budget
<1>2. Inv /\ [GeminiNext]_geminiVars => Inv'
  <2>. SUFFICES ASSUME Inv, [GeminiNext]_geminiVars PROVE Inv'
    OBVIOUS
  <2>1. CASE Tick
    BY <2>1, TickKeeps
  <2>2. ASSUME NEW t \in Tasks, GeminiStep(t) PROVE Inv'
    BY <2>2, StepFits, OrderKept, StepKeepsQueue
  <2>3. CASE UNCHANGED geminiVars
    BY <2>3 DEF geminiVars, BudgetInv, QueueInv
  <2>. QED BY <2>1, <2>2, <2>3 DEF GeminiNext
<1>3. Inv => NoRetryStorm
  BY BudgetSuffices
<1>. QED BY <1>1, <1>2, <1>3, PTL DEF GeminiSpec

-----------------------------------------------------------------------------
(* The gate before a call.                                                 *)

\* With one slot there is one task behind the gate; what it waits for outlasts
\* the cooldown, and nobody can prolong that while its circuits are closed.
SlotInv ==
  /\ cooldown \in [Domains -> 0..Hold] /\ circuit \in [Domains -> 0..Hold] /\ slots \in Nat
  /\ slots = 1 =>
       /\ \A t, u \in Tasks :
            stage[t] \in {"cooling", "calling"} /\ stage[u] \in {"cooling", "calling"} => t = u
       /\ \A t \in Tasks : stage[t] = "cooling" =>
            /\ task[t].sleep \in Nat
            /\ \A b \in Blocking(Domain(t)) : circuit[b] = 0 /\ cooldown[b] <= task[t].sleep

LEMMA DomainsAre ==
  ASSUME NEW t \in Tasks
  PROVE  /\ Domain(t) \in Domains /\ "inference" \in Domains /\ "files" \in Domains
         /\ \A d \in Domains : Blocking(d) \subseteq Domains /\ d \in Blocking(d) /\ "inference" \in Blocking(d)
  BY DEF Domain, DomainOf, Domains, Blocking

LEMMA LongestIsBound ==
  ASSUME SlotInv, NEW d \in Domains
  PROVE  /\ LongestCooldown(d) \in 0..Hold
         /\ \A b \in Blocking(d) : cooldown[b] <= LongestCooldown(d)
<1>. DEFINE P(n) == /\ \E b \in Blocking(d) : cooldown[b] = n
                    /\ \A b \in Blocking(d) : cooldown[b] <= n
<1>1. cooldown["inference"] \in 0..Hold /\ cooldown["files"] \in 0..Hold
  BY DEF SlotInv, Domains
<1>2. \E n \in 0..Hold : P(n)
  <2>1. CASE d = "inference"
    <3>1. P(cooldown["inference"])
      BY <1>1, <2>1 DEF Blocking
    <3>. QED BY <1>1, <3>1
  <2>2. CASE d = "files" /\ cooldown["inference"] <= cooldown["files"]
    <3>1. P(cooldown["files"])
      BY <1>1, <2>2 DEF Blocking, Domains
    <3>. QED BY <1>1, <3>1
  <2>3. CASE d = "files" /\ ~(cooldown["inference"] <= cooldown["files"])
    <3>1. P(cooldown["inference"])
      BY <1>1, <2>3 DEF Blocking, Domains
    <3>. QED BY <1>1, <3>1
  <2>. QED BY <2>1, <2>2, <2>3 DEF Domains
<1>3. LongestCooldown(d) \in 0..Hold /\ P(LongestCooldown(d))
  <2>1. LongestCooldown(d) = CHOOSE n \in 0..Hold : P(n)
    BY DEF LongestCooldown
  <2>. HIDE DEF P
  <2>. QED BY <1>2, <2>1
<1>. QED BY <1>3

\* A step takes its task away from the gate, unless it is one of the gate's.
Elsewhere == {"asking", "backoff"} \cup Ended
Leaves(t) == \E l \in Elsewhere : stage' = [stage EXCEPT ![t] = l]

LEMMA AnyNextLeaves ==
  ASSUME NEW t, NEW s,
         Attempt(t, s) \/ RouteTo(t, s) \/ UploadTo(t, s) \/ NextClient(t, s) \/ EndExtra(t, s)
  PROVE  Leaves(t)
  BY DEF Attempt, RouteTo, UploadTo, NextClient, EndExtra, Put, Leaves, Elsewhere, Ended

LEMMA OverloadLeaves ==
  ASSUME NEW t, NEW s, Overloaded(t, s), IsTask(s)
  PROVE  Leaves(t)
<1>1. EndExtra(t, s) \/ NextClient(t, s) \/ \E v : Put(t, v, "failed") \/ Put(t, v, "backoff")
  BY DEF Overloaded
<1>. QED BY <1>1, AnyNextLeaves DEF Put, Leaves, Elsewhere, Ended

\* The capacity state changes only by an overload of one of its domains.
Overloads(d) == \E n \in 0..Budget : NoteOverload(n, d)

LEMMA OverloadedMoves ==
  ASSUME NEW t, NEW s, IsTask(s), Overloaded(t, s)
  PROVE  Overloads(DomainOf(s.part))
<1>1. 1 \in 0..Budget /\ DomainOf(s.part) \in Domains
  BY GeminiAssumption DEF DomainOf, Domains
<1>2. s.used[DomainOf(s.part)] \in 0..Budget
  BY <1>1 DEF IsTask
<1>3. NoteOverload(1, DomainOf(s.part)) \/ NoteOverload(s.used[DomainOf(s.part)], DomainOf(s.part))
  BY DEF Overloaded
<1>. QED BY <1>1, <1>2, <1>3 DEF Overloads

LEMMA RefuseMoves ==
  ASSUME BudgetInv, NEW t \in Tasks, Refuse(t)
  PROVE  Leaves(t) /\ (UNCHANGED capacity \/ Overloads(Domain(t)))
<1>1. IsTask(task[t])
  BY DEF BudgetInv, Suits
<1>2. CASE t \in Routed
  BY <1>2 DEF Refuse, Put, Leaves, Elsewhere, Ended
<1>3. CASE t \notin Routed
  BY <1>1, <1>3, OverloadLeaves, OverloadedMoves DEF Refuse, Domain
<1>. QED BY <1>2, <1>3

\* What a step of a task does to the gate.
Refused(t)  == CircuitOpen(Domain(t)) /\ Leaves(t) /\ (UNCHANGED capacity \/ Overloads(Domain(t)))
Failing(t)  == stage[t] = "calling" /\ Leaves(t) /\ Overloads(Domain(t))
Waits(t)    == stage' = [stage EXCEPT ![t] = "queued"] /\ queue' = Append(queue, t) /\ UNCHANGED capacity
Entering(t) ==
  /\ Free /\ ~CircuitOpen(Domain(t)) /\ UNCHANGED capacity
  /\ \/ Put(t, [task[t] EXCEPT !.sleep = LongestCooldown(Domain(t))], "cooling")
     \/ ~Cooling(Domain(t)) /\ stage' = [stage EXCEPT ![t] = "calling"] /\ UNCHANGED task
Awakes(t) ==
  /\ stage[t] = "cooling" /\ task[t].sleep = 0 /\ ~CircuitOpen(Domain(t))
  /\ stage' = [stage EXCEPT ![t] = "calling"] /\ UNCHANGED <<capacity, task>>

LEMMA GateMoves ==
  ASSUME BudgetInv, QueueInv, NEW t \in Tasks, GeminiStep(t)
  PROVE  /\ UNCHANGED slots
         /\ \/ Leaves(t) /\ UNCHANGED capacity
            \/ Refused(t) \/ Failing(t) \/ Waits(t) \/ Entering(t) \/ Awakes(t)
<1>0. Suits(t, task[t], stage[t]) /\ IsTask(task[t])
  BY DEF BudgetInv, Suits
<1>1. UNCHANGED slots
  BY DEF GeminiStep, StartRequest, Ask, Enter, Cooled, Answered, Success, Quota, Overload, Timeout,
     OtherError, Retry
<1>2. CASE StartRequest(t) \/ Answered(t) \/ Quota(t) \/ Timeout(t) \/ Retry(t)
  <2>1. UNCHANGED capacity
    BY <1>2 DEF StartRequest, Answered, Quota, Timeout, Retry
  <2>2. \/ \E v : Put(t, v, "rejected") \/ Put(t, v, "done") \/ Put(t, v, "failed")
                 \/ Put(t, v, "backoff") \/ Put(t, v, "asking")
        \/ \E v : Attempt(t, v) \/ RouteTo(t, v) \/ UploadTo(t, v) \/ NextClient(t, v) \/ EndExtra(t, v)
    BY <1>2 DEF StartRequest, Answered, Quota, Timeout, Retry
  <2>3. ASSUME NEW v, \/ Put(t, v, "rejected") \/ Put(t, v, "done") \/ Put(t, v, "failed")
                      \/ Put(t, v, "backoff") \/ Put(t, v, "asking")
        PROVE  Leaves(t)
    BY <2>3 DEF Put, Leaves, Elsewhere, Ended
  <2>4. ASSUME NEW v, Attempt(t, v) \/ RouteTo(t, v) \/ UploadTo(t, v) \/ NextClient(t, v) \/ EndExtra(t, v)
        PROVE  Leaves(t)
    BY <2>4, AnyNextLeaves
  <2>. QED BY <1>1, <2>1, <2>2, <2>3, <2>4
<1>3. CASE Success(t) \/ OtherError(t)
  BY <1>3 DEF Success, OtherError, EndExtra, Put, Leaves, Elsewhere, Ended
<1>4. CASE Overload(t)
  <2>1. stage[t] = "calling" /\ Overloaded(t, Hit(task[t]))
    BY <1>4 DEF Overload
  <2>2. IsTask(Hit(task[t])) /\ Hit(task[t]).part = task[t].part
    BY <1>0, <2>1, HitFails DEF Failed
  <2>. QED BY <2>1, <2>2, <1>1, OverloadLeaves, OverloadedMoves DEF Failing, Domain
<1>5. CASE Ask(t)
  BY <1>1, <1>5, RefuseMoves DEF Ask, Refused, Waits
<1>6. CASE Enter(t)
  BY <1>1, <1>6, RefuseMoves DEF Enter, Refused, Entering
<1>7. CASE Cooled(t)
  BY <1>1, <1>7, RefuseMoves DEF Cooled, Refused, Awakes
<1>. QED BY <1>1, <1>2, <1>3, <1>4, <1>5, <1>6, <1>7 DEF GeminiStep

LEMMA CapacityTyped ==
  ASSUME SlotInv, NEW d \in Domains, Overloads(d)
  PROVE  /\ cooldown' \in [Domains -> 0..Hold] /\ circuit' \in [Domains -> 0..Hold]
         /\ \A e \in Domains \ {d} : cooldown'[e] = cooldown[e] /\ circuit'[e] = circuit[e]
<1>1. PICK n \in 0..Budget : NoteOverload(n, d)
  BY DEF Overloads
<1>2. Later(cooldown[d], IF n >= Budget THEN Hold ELSE n) \in 0..Hold
  BY GeminiAssumption DEF Later, Hold, SlotInv
<1>3. (IF n >= Budget THEN Hold ELSE circuit[d]) \in 0..Hold
  BY GeminiAssumption DEF Hold, SlotInv
<1>. QED BY <1>1, <1>2, <1>3 DEF NoteOverload, SlotInv

\* Whom the gate lets in is alone.
LEMMA FreeIsEmpty ==
  ASSUME Free, slots = 1, NEW t \in Tasks
  PROVE  stage[t] \notin {"cooling", "calling"}
<1>. DEFINE S == {u \in Tasks : stage[u] \in {"cooling", "calling"}}
<1>1. IsFiniteSet(S)
  BY GeminiAssumption, FS_Union, FS_Subset DEF Tasks
<1>2. Cardinality(S) \in Nat /\ Cardinality(S) < 1
  BY <1>1, FS_CardinalityType DEF Free
<1>3. S = {}
  BY <1>1, <1>2, FS_EmptySet
<1>. QED BY <1>3

LEMMA StepKeepsGate ==
  ASSUME BudgetInv, QueueInv, SlotInv, NEW t \in Tasks, GeminiStep(t)
  PROVE  SlotInv'
<1>0. /\ \A u \in Tasks \ {t} : stage'[u] = stage[u] /\ task'[u] = task[u] /\ Domain(u)' = Domain(u)
      /\ UNCHANGED slots /\ stage' = [u \in Tasks |-> stage'[u]]
  BY StepFits, GateMoves, OrderKept DEF BudgetInv, InOrder, Domain
<1>t. stage = [u \in Tasks |-> stage[u]] /\ task = [u \in Tasks |-> task[u]]
  BY DEF BudgetInv
<1>d. /\ \A u \in Tasks : Domain(u) \in Domains
      /\ \A d \in Domains : Blocking(d) \subseteq Domains /\ d \in Blocking(d)
  BY DomainsAre
<1>1. CASE Leaves(t) /\ UNCHANGED capacity
  <2>1. stage'[t] \notin {"cooling", "calling"}
    BY <1>1, <1>t DEF Leaves, Elsewhere, Ended
  <2>. QED BY <1>0, <1>1, <2>1 DEF SlotInv, capacity
<1>2. CASE Refused(t) /\ Overloads(Domain(t))
  <2>1. stage'[t] \notin {"cooling", "calling"}
    BY <1>2, <1>t DEF Refused, Leaves, Elsewhere, Ended
  <2>2. /\ cooldown' \in [Domains -> 0..Hold] /\ circuit' \in [Domains -> 0..Hold]
        /\ \A e \in Domains \ {Domain(t)} : cooldown'[e] = cooldown[e] /\ circuit'[e] = circuit[e]
    BY <1>2, <1>d, CapacityTyped
  <2>3. ASSUME slots = 1, NEW u \in Tasks \ {t}, stage[u] = "cooling"
        PROVE  Domain(t) \notin Blocking(Domain(u))
    <3>1. \A b \in Blocking(Domain(u)) : circuit[b] = 0
      BY <2>3 DEF SlotInv
    <3>2. PICK b \in Blocking(Domain(t)) : circuit[b] > 0
      BY <1>2 DEF Refused, CircuitOpen
    <3>. QED BY <1>d, <3>1, <3>2 DEF Blocking, Domains
  <2>. QED BY <1>0, <1>d, <2>1, <2>2, <2>3 DEF SlotInv
<1>3. CASE Failing(t)
  <2>1. stage'[t] \notin {"cooling", "calling"}
    BY <1>3, <1>t DEF Failing, Leaves, Elsewhere, Ended
  <2>2. cooldown' \in [Domains -> 0..Hold] /\ circuit' \in [Domains -> 0..Hold]
    BY <1>3, <1>d, CapacityTyped DEF Failing
  <2>3. slots = 1 => \A u \in Tasks \ {t} : stage[u] \notin {"cooling", "calling"}
    BY <1>3 DEF Failing, SlotInv
  <2>. QED BY <1>0, <2>1, <2>2, <2>3 DEF SlotInv
<1>4. CASE Waits(t)
  <2>1. stage'[t] = "queued"
    BY <1>4, <1>t DEF Waits
  <2>. QED BY <1>0, <1>4, <2>1 DEF SlotInv, Waits, capacity
<1>5. CASE Entering(t)
  <2>1. slots = 1 => \A u \in Tasks : stage[u] \notin {"cooling", "calling"}
    BY <1>5, FreeIsEmpty DEF Entering
  <2>2. stage'[t] = "cooling" =>
          /\ task'[t].sleep \in Nat /\ Domain(t)' = Domain(t)
          /\ \A b \in Blocking(Domain(t)) : circuit[b] = 0 /\ cooldown[b] <= task'[t].sleep
    <3>. SUFFICES ASSUME stage'[t] = "cooling" PROVE /\ task'[t].sleep \in Nat /\ Domain(t)' = Domain(t)
          /\ \A b \in Blocking(Domain(t)) : circuit[b] = 0 /\ cooldown[b] <= task'[t].sleep
      OBVIOUS
    <3>. DEFINE x == LongestCooldown(Domain(t))  s == task[t]
    <3>1. task'[t] = [s EXCEPT !.sleep = x] /\ IsTask(s)
      BY <1>5, <1>t DEF Entering, Put, BudgetInv, Suits
    <3>2. x \in Nat /\ \A b \in Blocking(Domain(t)) : cooldown[b] <= x
      BY <1>d, LongestIsBound
    <3>3. \A b \in Blocking(Domain(t)) : circuit[b] = 0
      BY <1>5, <1>d DEF Entering, CircuitOpen, SlotInv
    <3>. HIDE DEF x
    <3>4. task'[t].sleep = x /\ task'[t].part = s.part
      BY <3>1 DEF IsTask
    <3>. QED BY <3>2, <3>3, <3>4 DEF Domain
  <2>. QED BY <1>0, <1>5, <2>1, <2>2 DEF SlotInv, Entering, capacity
<1>6. CASE Awakes(t)
  <2>1. stage'[t] = "calling" /\ stage[t] = "cooling"
    BY <1>6, <1>t DEF Awakes
  <2>. QED BY <1>0, <1>6, <2>1 DEF SlotInv, Awakes, capacity
<1>. QED BY <1>1, <1>2, <1>3, <1>4, <1>5, <1>6, GateMoves DEF Refused

LEMMA TickKeepsGate ==
  ASSUME BudgetInv, SlotInv, Tick
  PROVE  SlotInv'
<1>1. /\ cooldown' = [d \in Domains |-> Minus1(cooldown[d])]
      /\ circuit' = [d \in Domains |-> Minus1(circuit[d])]
      /\ task' = [t \in Tasks |-> [task[t] EXCEPT !.sleep = Minus1(@)]] /\ UNCHANGED <<slots, stage>>
  BY DEF Tick
<1>2. \A n \in 0..Hold : Minus1(n) \in 0..Hold
  BY GeminiAssumption DEF Minus1, Hold
<1>3. ASSUME NEW t \in Tasks
      PROVE  task'[t].sleep = Minus1(task[t].sleep) /\ Domain(t)' = Domain(t)
  <2>. DEFINE s == task[t]  x == Minus1(s.sleep)
  <2>1. IsTask(s) /\ task'[t] = [s EXCEPT !.sleep = x]
    BY <1>1 DEF BudgetInv, Suits
  <2>. HIDE DEF x
  <2>2. task'[t].sleep = x /\ task'[t].part = s.part
    BY <2>1 DEF IsTask
  <2>. QED BY <2>2 DEF Domain, x
<1>4. cooldown' \in [Domains -> 0..Hold] /\ circuit' \in [Domains -> 0..Hold]
  BY <1>1, <1>2 DEF SlotInv
<1>5. ASSUME slots = 1, NEW t \in Tasks, stage[t] = "cooling"
      PROVE  /\ task'[t].sleep \in Nat
             /\ \A b \in Blocking(Domain(t)') : circuit'[b] = 0 /\ cooldown'[b] <= task'[t].sleep
  <2>1. /\ task[t].sleep \in Nat /\ Blocking(Domain(t)) \subseteq Domains
        /\ \A b \in Blocking(Domain(t)) : circuit[b] = 0 /\ cooldown[b] <= task[t].sleep
    BY <1>5, DomainsAre DEF SlotInv
  <2>2. \A b \in Blocking(Domain(t)) : cooldown[b] \in Nat
    BY <2>1 DEF SlotInv
  <2>. QED BY <1>1, <1>3, <2>1, <2>2 DEF Minus1
<1>. QED BY <1>1, <1>4, <1>5 DEF SlotInv

\* CallsRespectCapacity: a call goes out only past closed circuits and, with one slot,
\* only after the cooldown, also the one that was published while it waited.
THEOREM GateIsRespected == GeminiSpec => CallsRespectCapacity
<1>. DEFINE Inv == BudgetInv /\ QueueInv /\ SlotInv
            Gate == \A t \in Tasks : stage[t] # "calling" /\ stage'[t] = "calling" =>
                      ~CircuitOpen(Domain(t)) /\ (slots = 1 => ~Cooling(Domain(t)))
<1>1. GeminiInit => Inv
  <2>1. GeminiInit => QueueInv /\ SlotInv
    BY GeminiAssumption DEF GeminiInit, QueueInv, SlotInv, Hold
  <2>. QED BY <2>1, Init_Budget
<1>2. Inv /\ [GeminiNext]_geminiVars => Inv' /\ [Gate]_geminiVars
  <2>. SUFFICES ASSUME Inv, [GeminiNext]_geminiVars PROVE Inv' /\ [Gate]_geminiVars
    OBVIOUS
  <2>1. CASE Tick
    <3>1. UNCHANGED stage
      BY <2>1 DEF Tick
    <3>. QED BY <2>1, <3>1, TickKeeps, TickKeepsGate
  <2>2. ASSUME NEW t \in Tasks, GeminiStep(t) PROVE Inv' /\ Gate
    <3>1. Inv'
      BY <2>2, StepFits, OrderKept, StepKeepsQueue, StepKeepsGate
    <3>2. ASSUME NEW u \in Tasks, stage[u] # "calling", stage'[u] = "calling"
          PROVE  ~CircuitOpen(Domain(u)) /\ (slots = 1 => ~Cooling(Domain(u)))
      <4>1. u = t /\ stage = [x \in Tasks |-> stage[x]]
        BY <2>2, <3>2, StepFits DEF InOrder, BudgetInv
      <4>2. Entering(t) \/ Awakes(t)
        BY <2>2, <3>2, <4>1, GateMoves DEF Refused, Failing, Waits, Leaves, Elsewhere, Ended
      <4>3. CASE Entering(t)
        <5>1. ~Cooling(Domain(t))
          BY <3>2, <4>1, <4>3 DEF Entering, Put
        <5>. QED BY <4>1, <4>3, <5>1 DEF Entering
      <4>4. CASE Awakes(t)
        <5>1. slots = 1 => ~Cooling(Domain(t))
          BY <4>4, DomainsAre DEF Awakes, SlotInv, Cooling
        <5>. QED BY <4>1, <4>4, <5>1 DEF Awakes
      <4>. QED BY <4>2, <4>3, <4>4
    <3>. QED BY <3>1, <3>2
  <2>3. CASE UNCHANGED geminiVars
    <3>1. QueueInv' /\ BudgetInv'
      BY <2>3 DEF geminiVars, BudgetInv, QueueInv
    <3>2. SlotInv'
      BY <2>3 DEF geminiVars, SlotInv, Domain
    <3>. QED BY <2>3, <3>1, <3>2
  <2>. QED BY <2>1, <2>2, <2>3 DEF GeminiNext
<1>. QED BY <1>1, <1>2, PTL DEF GeminiSpec, CallsRespectCapacity

-----------------------------------------------------------------------------
(* Types.  What is not in the books: the key a task has, which is one of   *)
(* the configured keys wherever it makes an attempt.                       *)

Local(s) ==
  /\ s = [part |-> s.part, i |-> s.i, start |-> s.start, same |-> s.same, used |-> s.used,
          sleep |-> s.sleep, spent |-> s.spent, hits |-> s.hits]
  /\ s.i \in 0..Keys /\ s.start \in 0..(Keys - 1) /\ s.same \in 0..2
  /\ s.sleep \in 0..Hold /\ s.spent \in SUBSET Domains

HasKey(s, l) == l \in Flying \/ (l = "backoff" /\ s.part # "upload") => s.i < Keys

KeysInv ==
  /\ \A t \in Tasks : Local(task[t]) /\ HasKey(task[t], stage[t])
  /\ nextKey \in 0..(Keys - 1)

\* The queue holds every task that waits for the semaphore.
AllQueued == \A t \in Tasks : stage[t] = "queued" => \E i \in 1..Len(queue) : queue[i] = t

Inside == {t \in Tasks : stage[t] \in {"cooling", "calling"}}

SlotsKept == slots \in 1..MaxSlots /\ Cardinality(Inside) <= slots

LEMMA LeastNumber ==
  ASSUME NEW S \in SUBSET Nat, S # {}
  PROVE  \E n \in S : \A m \in S : n <= m
<1>1. PICK R : R = {ss \in Nat \X Nat : ss[1] < ss[2]}
  OBVIOUS
<1>2. IsWellFoundedOn(R, Nat)
  BY <1>1, NatLessThanWellFounded DEF OpToRel
<1>3. PICK n \in S : \A m \in S : <<m, n>> \notin R
  BY <1>2, WFMin
<1>4. ASSUME NEW m \in S, m < n PROVE FALSE
  <2>1. <<m, n>> \in Nat \X Nat /\ <<m, n>>[1] < <<m, n>>[2]
    BY <1>4
  <2>2. <<m, n>> \in R
    BY <1>1, <2>1, Zenon
  <2>. QED BY <1>3, <2>2
<1>5. n \in Nat /\ S \subseteq Nat
  OBVIOUS
<1>. QED BY <1>4, <1>5

\* The next key is one of those that are left.
LEMMA FirstIsAKey ==
  ASSUME NEW s, Local(s), Left(s) # {}
  PROVE  First(Left(s)) \in 0..(Keys - 1)
<1>1. Left(s) \in SUBSET (0..(Keys - 1)) /\ Left(s) \in SUBSET Nat
  BY GeminiAssumption DEF Local, Left
<1>2. \E j \in Left(s) : \A k \in Left(s) : j <= k
  BY <1>1, LeastNumber
<1>. QED BY <1>1, <1>2 DEF First

LEMMA ClaimMoves ==
  ASSUME NEW s, Local(s), NEW d
  PROVE  /\ Local(Claim(s, d)) /\ Claim(s, d).i = s.i /\ Claim(s, d).part = s.part
         /\ Local(Refunded(s)) /\ Local(Hit(s)) /\ Hit(s).i = s.i /\ Hit(s).part = s.part
<1>. DEFINE u == [s.used EXCEPT ![d] = @ + 1]  r == [s.used EXCEPT !["inference"] = @ - 1]
            h == [s.hits EXCEPT ![DomainOf(s.part)] = @ + 1]
<1>1. /\ Claim(s, d) = [s EXCEPT !.used = u] /\ Refunded(s) = [s EXCEPT !.used = r]
      /\ Hit(s) = [s EXCEPT !.hits = h]
  BY DEF Claim, Refunded, Hit, Local
<1>. HIDE DEF u, r, h
<1>2. Local(Claim(s, d)) /\ Claim(s, d).i = s.i /\ Claim(s, d).part = s.part
  BY <1>1 DEF Local
<1>3. Local(Refunded(s))
  BY <1>1 DEF Local
<1>4. Local(Hit(s)) /\ Hit(s).i = s.i /\ Hit(s).part = s.part
  BY <1>1 DEF Local
<1>. QED BY <1>2, <1>3, <1>4

LEMMA StartIsAKey ==
  ASSUME NEW a \in Nat
  PROVE  a % Keys \in 0..(Keys - 1)
  BY GeminiAssumption

\* What a step gives to its task.
Seated(t) == Local(task'[t]) /\ HasKey(task'[t], stage'[t]) /\ nextKey' \in 0..(Keys - 1)

LEMMA PutSeats ==
  ASSUME BudgetInv, NEW t \in Tasks, NEW s, NEW l, Put(t, s, l), Local(s), HasKey(s, l),
         nextKey' \in 0..(Keys - 1)
  PROVE  Seated(t)
<1>1. task'[t] = s /\ stage'[t] = l
  BY DEF BudgetInv, Put
<1>. QED BY <1>1 DEF Seated

LEMMA EndSeats ==
  ASSUME BudgetInv, NEW t \in Tasks, NEW s, NEW l \in Ended, Put(t, s, l), Local(s),
         nextKey' \in 0..(Keys - 1)
  PROVE  Seated(t)
<1>1. HasKey(s, l)
  BY DEF HasKey, Flying, Ended
<1>. QED BY <1>1, PutSeats

\* A task that has a key, on its way to a call.
LEMMA AskSeats ==
  ASSUME BudgetInv, NEW t \in Tasks, NEW s, NEW l, Put(t, s, l), Local(s), s.i < Keys,
         nextKey' \in 0..(Keys - 1)
  PROVE  Seated(t)
  BY PutSeats DEF HasKey

LEMMA AttemptSeats ==
  ASSUME BudgetInv, NEW t \in Tasks, NEW s, Local(s), s.i < Keys, Attempt(t, s),
         nextKey' \in 0..(Keys - 1)
  PROVE  Seated(t)
<1>1. CASE Put(t, s, "rejected")
  BY <1>1, AskSeats
<1>2. CASE Put(t, Claim(s, "inference"), "asking")
  <2>1. Local(Claim(s, "inference")) /\ Claim(s, "inference").i < Keys
    BY ClaimMoves
  <2>. QED BY <1>2, <2>1, AskSeats
<1>. QED BY <1>1, <1>2 DEF Attempt

LEMMA RouteToSeats ==
  ASSUME BudgetInv, KeysInv, NEW t \in Tasks, NEW s, Local(s), RouteTo(t, s)
  PROVE  Seated(t)
<1>1. CASE Put(t, s, "failed") /\ UNCHANGED nextKey
  BY <1>1, EndSeats DEF Ended, KeysInv
<1>2. CASE Put(t, s, "failed") /\ nextKey' = s.start
  BY <1>2, EndSeats DEF Ended, Local
<1>3. CASE /\ Left(s) # {} /\ nextKey' = (s.start + First(Left(s)) + 1) % Keys
           /\ Attempt(t, [s EXCEPT !.i = First(Left(s))])
  <2>. DEFINE x == First(Left(s))
  <2>1. x \in 0..(Keys - 1)
    BY <1>3, FirstIsAKey
  <2>. HIDE DEF x
  <2>2. x \in 0..Keys /\ x < Keys /\ s.start + x + 1 \in Nat
    BY <2>1, GeminiAssumption DEF Local
  <2>3. nextKey' \in 0..(Keys - 1)
    BY <1>3, <2>2, StartIsAKey DEF x
  <2>4. Local([s EXCEPT !.i = x]) /\ [s EXCEPT !.i = x].i < Keys
    BY <2>2 DEF Local
  <2>. QED BY <1>3, <2>3, <2>4, AttemptSeats DEF x
<1>. QED BY <1>1, <1>2, <1>3 DEF RouteTo

LEMMA UploadToSeats ==
  ASSUME BudgetInv, KeysInv, NEW t \in Tasks, NEW s, Local(s), UploadTo(t, s)
  PROVE  Seated(t)
<1>1. nextKey' \in 0..(Keys - 1)
  BY DEF UploadTo, KeysInv
<1>2. CASE Put(t, s, "failed")
  BY <1>1, <1>2, EndSeats DEF Ended
<1>3. CASE /\ Left(s) # {}
           /\ Put(t, Claim([s EXCEPT !.i = First(Left(s)), !.same = 0, !.part = "upload"], "files"),
                  "asking")
  <2>. DEFINE x == First(Left(s))  k == [s EXCEPT !.i = x]  m == [k EXCEPT !.same = 0]
              v == [m EXCEPT !.part = "upload"]
  <2>1. x \in 0..Keys /\ x < Keys
    BY <1>3, FirstIsAKey, GeminiAssumption
  <2>2. Local(k) /\ k.i = x
    BY <2>1 DEF Local
  <2>3. v = [s EXCEPT !.i = First(Left(s)), !.same = 0, !.part = "upload"]
    BY DEF Local
  <2>. HIDE DEF x, k
  <2>4. Local(m) /\ m.i = x
    BY <2>2 DEF Local
  <2>. HIDE DEF m
  <2>5. Local(v) /\ v.i < Keys
    BY <2>1, <2>4 DEF Local
  <2>. HIDE DEF v
  <2>6. Local(Claim(v, "files")) /\ Claim(v, "files").i < Keys
    BY <2>5, ClaimMoves
  <2>. QED BY <1>1, <1>3, <2>3, <2>6, AskSeats
<1>. QED BY <1>2, <1>3 DEF UploadTo

LEMMA NextClientSeats ==
  ASSUME BudgetInv, KeysInv, NEW t \in Tasks, NEW s, Local(s), s.i < Keys, NextClient(t, s)
  PROVE  Seated(t)
<1>. DEFINE x == s.i + 1  k == [s EXCEPT !.i = x]  n == [k EXCEPT !.same = 0]
<1>1. x \in 0..Keys
  BY GeminiAssumption DEF Local
<1>2. n = [s EXCEPT !.i = @ + 1, !.same = 0]
  BY DEF Local
<1>. HIDE DEF x
<1>3. Local(k)
  BY <1>1 DEF Local
<1>. HIDE DEF k
<1>4. Local(n)
  BY <1>3 DEF Local
<1>. HIDE DEF n
<1>5. RouteTo(t, n) \/ UploadTo(t, n)
  BY <1>2 DEF NextClient
<1>. QED BY <1>4, <1>5, RouteToSeats, UploadToSeats

\* The same key once more, after a pause of x.
LEMMA AgainSeats ==
  ASSUME BudgetInv, KeysInv, NEW t \in Tasks, NEW s, Local(s), s.i < Keys, NEW x \in 0..Hold,
         Put(t, [s EXCEPT !.sleep = x, !.same = 1], "backoff"), UNCHANGED nextKey
  PROVE  Seated(t)
<1>. DEFINE k == [s EXCEPT !.sleep = x]  n == [k EXCEPT !.same = 1]
<1>1. n = [s EXCEPT !.sleep = x, !.same = 1]
  BY DEF Local
<1>2. Local(k) /\ k.i = s.i
  BY DEF Local
<1>. HIDE DEF k
<1>3. Local(n) /\ n.i = s.i
  BY <1>2 DEF Local
<1>. HIDE DEF n
<1>. QED BY <1>1, <1>3, AskSeats DEF KeysInv

LEMMA OverloadedSeats ==
  ASSUME BudgetInv, KeysInv, NEW t \in Tasks, NEW s, Local(s), s.i < Keys, IsTask(s), Overloaded(t, s)
  PROVE  Seated(t)
<1>. DEFINE d == DomainOf(s.part)  x == s.used[d]
<1>1. x \in 0..Hold
  BY GeminiAssumption DEF IsTask, DomainOf, Domains, Hold
<1>. HIDE DEF x
<1>2. \/ EndExtra(t, s) /\ UNCHANGED nextKey
      \/ Put(t, s, "failed") /\ UNCHANGED nextKey
      \/ Put(t, [s EXCEPT !.sleep = x, !.i = @ + 1, !.part = "upload"], "backoff") /\ UNCHANGED nextKey
      \/ Put(t, [s EXCEPT !.sleep = x, !.same = 1], "backoff") /\ UNCHANGED nextKey
      \/ NextClient(t, s)
  BY DEF Overloaded, x
<1>3. CASE (EndExtra(t, s) \/ Put(t, s, "failed")) /\ UNCHANGED nextKey
  BY <1>3, EndSeats DEF EndExtra, Ended, KeysInv
<1>4. CASE Put(t, [s EXCEPT !.sleep = x, !.i = @ + 1, !.part = "upload"], "backoff") /\ UNCHANGED nextKey
  <2>. DEFINE y == s.i + 1  k == [s EXCEPT !.sleep = x]  m == [k EXCEPT !.i = y]
              v == [m EXCEPT !.part = "upload"]
  <2>1. y \in 0..Keys
    BY GeminiAssumption DEF Local
  <2>2. v = [s EXCEPT !.sleep = x, !.i = @ + 1, !.part = "upload"]
    BY DEF Local
  <2>. HIDE DEF y
  <2>3. Local(k)
    BY <1>1 DEF Local
  <2>. HIDE DEF k
  <2>4. Local(m)
    BY <2>1, <2>3 DEF Local
  <2>. HIDE DEF m
  <2>5. Local(v) /\ v.part = "upload"
    BY <2>4 DEF Local
  <2>. HIDE DEF v
  <2>6. HasKey(v, "backoff")
    BY <2>5 DEF HasKey, Flying
  <2>. QED BY <1>4, <2>2, <2>5, <2>6, PutSeats DEF KeysInv
<1>5. CASE Put(t, [s EXCEPT !.sleep = x, !.same = 1], "backoff") /\ UNCHANGED nextKey
  BY <1>1, <1>5, AgainSeats
<1>. QED BY <1>2, <1>3, <1>4, <1>5, NextClientSeats

LEMMA RefuseSeats ==
  ASSUME BudgetInv, KeysInv, NEW t \in Tasks, stage[t] \in Flying, Refuse(t)
  PROVE  Seated(t)
<1>. DEFINE s == task[t]
<1>1. Local(s) /\ s.i < Keys /\ IsTask(s)
  BY DEF KeysInv, HasKey, BudgetInv, Suits
<1>2. CASE t \in Routed
  <2>1. nextKey' \in 0..(Keys - 1)
    BY <1>1, <1>2 DEF Refuse, KeysInv, Local
  <2>2. Put(t, Refunded(s), "rejected") /\ Local(Refunded(s))
    BY <1>1, <1>2, ClaimMoves DEF Refuse
  <2>. QED BY <2>1, <2>2, EndSeats DEF Ended
<1>3. CASE t \notin Routed
  BY <1>1, <1>3, OverloadedSeats DEF Refuse
<1>. QED BY <1>2, <1>3

LEMMA StepSeats ==
  ASSUME BudgetInv, QueueInv, KeysInv, SlotInv, NEW t \in Tasks, GeminiStep(t)
  PROVE  Seated(t)
<1>. DEFINE s == task[t]  h == Hit(s)
<1>1. Local(s) /\ HasKey(s, stage[t]) /\ nextKey \in 0..(Keys - 1) /\ IsTask(s)
  BY DEF KeysInv, BudgetInv, Suits
<1>2. Local(h) /\ h.i = s.i
  BY <1>1, ClaimMoves
<1>m. ASSUME NEW l \in {"queued", "calling"}, stage' = [stage EXCEPT ![t] = l], UNCHANGED <<task, nextKey>>,
             s.i < Keys
      PROVE  Seated(t)
  <2>1. task' = [task EXCEPT ![t] = s]
    BY <1>m DEF BudgetInv
  <2>. HIDE DEF s
  <2>2. Put(t, s, l)
    BY <1>m, <2>1 DEF Put
  <2>. QED BY <1>1, <1>m, <2>2, AskSeats
<1>e. ASSUME NEW v, Local(v), NEW l \in Ended, Put(t, v, l), UNCHANGED nextKey PROVE Seated(t)
  BY <1>1, <1>e, EndSeats
<1>a. ASSUME NEW v, Local(v), v.i < Keys, NEW l, Put(t, v, l), UNCHANGED nextKey PROVE Seated(t)
  BY <1>1, <1>a, AskSeats
<1>p. ASSUME NEW p PROVE Local([s EXCEPT !.part = p]) /\ [s EXCEPT !.part = p].i = s.i
  BY <1>1 DEF Local
<1>3. CASE StartRequest(t)
  <2>1. CASE Put(t, s, "rejected") /\ UNCHANGED nextKey
    BY <1>1, <1>e, <2>1 DEF Ended
  <2>2. CASE RouteTo(t, [s EXCEPT !.start = nextKey])
    <3>1. Local([s EXCEPT !.start = nextKey])
      BY <1>1 DEF Local
    <3>. QED BY <2>2, <3>1, RouteToSeats
  <2>3. CASE UploadTo(t, s)
    BY <1>1, <2>3, UploadToSeats
  <2>. QED BY <1>3, <2>1, <2>2, <2>3 DEF StartRequest
<1>4. CASE Ask(t) \/ Enter(t) \/ Cooled(t)
  <2>1. stage[t] \in Flying
    BY <1>4, HeadWaits DEF Ask, Enter, Cooled, Flying
  <2>2. s.i < Keys
    BY <1>1, <2>1 DEF HasKey
  <2>3. CASE Refuse(t)
    BY <2>1, <2>3, RefuseSeats
  <2>4. CASE (\/ stage' = [stage EXCEPT ![t] = "queued"]
              \/ stage' = [stage EXCEPT ![t] = "calling"]) /\ UNCHANGED <<task, nextKey>>
    BY <1>m, <2>2, <2>4
  <2>5. CASE Put(t, [s EXCEPT !.sleep = LongestCooldown(Domain(t))], "cooling") /\ UNCHANGED nextKey
    <3>. DEFINE x == LongestCooldown(Domain(t))  v == [s EXCEPT !.sleep = x]
    <3>1. x \in 0..Hold
      BY DomainsAre, LongestIsBound
    <3>. HIDE DEF x
    <3>2. Local(v) /\ v.i = s.i
      BY <1>1, <3>1 DEF Local
    <3>. HIDE DEF v
    <3>. QED BY <1>a, <2>2, <2>5, <3>2 DEF v, x
  <2>. QED BY <1>4, <2>3, <2>4, <2>5 DEF Ask, Enter, Cooled
<1>5. ASSUME stage[t] = "calling" PROVE s.i < Keys /\ h.i < Keys
  BY <1>1, <1>2, <1>5 DEF HasKey, Flying
<1>6. CASE Answered(t)
  <2>1. stage[t] = "calling"
    BY <1>6 DEF Answered
  <2>. QED BY <1>1, <1>5, <1>6, <1>e, <2>1, NextClientSeats DEF Answered, Ended
<1>7. CASE Success(t)
  <2>1. stage[t] = "calling" /\ UNCHANGED nextKey
    BY <1>7 DEF Success
  <2>2. ASSUME NEW p, NEW l, Put(t, [s EXCEPT !.part = p], l) PROVE Seated(t)
    BY <1>5, <1>a, <1>p, <2>1, <2>2
  <2>3. CASE Put(t, Claim([s EXCEPT !.part = "infer"], "inference"), "asking")
    <3>1. Local([s EXCEPT !.part = "infer"]) /\ [s EXCEPT !.part = "infer"].i < Keys
      BY <1>5, <1>p, <2>1
    <3>. QED BY <1>a, <2>1, <2>3, <3>1, ClaimMoves
  <2>4. CASE Put(t, s, "done") \/ Put(t, s, "failed")
    BY <1>1, <1>e, <2>1, <2>4 DEF Ended
  <2>. QED BY <1>7, <2>2, <2>3, <2>4 DEF Success
<1>8. CASE Quota(t)
  <2>1. stage[t] = "calling"
    BY <1>8 DEF Quota
  <2>2. CASE EndExtra(t, h) /\ UNCHANGED nextKey
    BY <1>2, <1>e, <2>2 DEF EndExtra, Ended
  <2>3. ASSUME NEW x \in SUBSET Domains, NextClient(t, [h EXCEPT !.spent = x]) PROVE Seated(t)
    <3>. DEFINE v == [h EXCEPT !.spent = x]
    <3>. HIDE DEF h
    <3>1. Local(v) /\ v.i = h.i
      BY <1>2 DEF Local
    <3>. HIDE DEF v
    <3>. QED BY <1>5, <2>1, <2>3, <3>1, NextClientSeats DEF v
  <2>4. h.spent \in SUBSET Domains /\ Domain(t) \in Domains
    BY <1>2, DomainsAre DEF Local
  <2>5. \/ EndExtra(t, h) /\ UNCHANGED nextKey
        \/ \E x \in SUBSET Domains : NextClient(t, [h EXCEPT !.spent = x])
    <3>. HIDE DEF h
    <3>1. PICK b \in BOOLEAN :
            \/ EndExtra(t, h) /\ UNCHANGED nextKey
            \/ NextClient(t, [h EXCEPT !.spent = IF b THEN @ \cup {Domain(t)} ELSE @])
      BY <1>8 DEF Quota, h
    <3>. DEFINE x == IF b THEN h.spent \cup {Domain(t)} ELSE h.spent
    <3>2. x \in SUBSET Domains
      BY <2>4
    <3>3. [h EXCEPT !.spent = IF b THEN @ \cup {Domain(t)} ELSE @] = [h EXCEPT !.spent = x]
      BY <1>2 DEF Local
    <3>. QED BY <3>1, <3>2, <3>3
  <2>. QED BY <2>2, <2>3, <2>5
<1>9. CASE Overload(t)
  <2>1. stage[t] = "calling" /\ Overloaded(t, h)
    BY <1>9 DEF Overload
  <2>2. IsTask(h)
    BY <2>1, HitFails DEF BudgetInv, Failed
  <2>. QED BY <1>2, <1>5, <2>1, <2>2, OverloadedSeats
<1>10. CASE Timeout(t)
  <2>1. stage[t] = "calling"
    BY <1>10 DEF Timeout
  <2>2. h.used["inference"] \in 0..Hold
    <3>1. IsTask(h)
      BY <2>1, HitFails DEF BudgetInv, Failed
    <3>. QED BY <3>1, GeminiAssumption DEF IsTask, Domains, Hold
  <2>3. \/ EndExtra(t, h) /\ UNCHANGED nextKey
        \/ Put(t, h, "failed") /\ UNCHANGED nextKey
        \/ /\ Put(t, [h EXCEPT !.sleep = h.used["inference"], !.same = 1], "backoff")
           /\ UNCHANGED nextKey
        \/ NextClient(t, h)
    <3>. HIDE DEF h
    <3>. QED BY <1>10 DEF Timeout, h
  <2>4. CASE (EndExtra(t, h) \/ Put(t, h, "failed")) /\ UNCHANGED nextKey
    BY <1>2, <1>e, <2>4 DEF EndExtra, Ended
  <2>. QED BY <1>2, <1>5, <2>1, <2>2, <2>3, <2>4, AgainSeats, NextClientSeats
<1>11. CASE OtherError(t)
  <2>1. stage[t] = "calling" /\ UNCHANGED nextKey
    BY <1>11 DEF OtherError
  <2>2. CASE Put(t, [s EXCEPT !.part = "legacy"], "asking")
    BY <1>5, <1>a, <1>p, <2>1, <2>2
  <2>3. CASE EndExtra(t, s) \/ Put(t, s, "failed")
    BY <1>1, <1>e, <2>1, <2>3 DEF EndExtra, Ended
  <2>. QED BY <1>11, <2>2, <2>3 DEF OtherError
<1>12. CASE Retry(t)
  <2>1. stage[t] = "backoff"
    BY <1>12 DEF Retry
  <2>2. s.part \in Parts /\ (t \in Routed => s.part = "infer") /\ (t \in Routed => t \notin Analyses)
    BY GeminiAssumption DEF BudgetInv, Suits, IsTask
  <2>3. CASE t \in Routed /\ Attempt(t, s) /\ UNCHANGED nextKey
    <3>1. s.i < Keys
      BY <1>1, <2>1, <2>2, <2>3 DEF HasKey
    <3>. QED BY <1>1, <2>3, <3>1, AttemptSeats
  <2>4. CASE UploadTo(t, s)
    BY <1>1, <2>4, UploadToSeats
  <2>5. CASE s.part = "poll" /\ Put(t, s, "asking") /\ UNCHANGED nextKey
    <3>1. s.i < Keys
      BY <1>1, <2>1, <2>5 DEF HasKey
    <3>. QED BY <1>1, <1>a, <2>5, <3>1
  <2>6. CASE /\ s.part # "upload" /\ UNCHANGED nextKey
             /\ Put(t, Claim([s EXCEPT !.part = "infer"], "inference"), "asking")
    <3>1. Local([s EXCEPT !.part = "infer"]) /\ [s EXCEPT !.part = "infer"].i < Keys
      BY <1>1, <1>p, <2>1, <2>6 DEF HasKey
    <3>. QED BY ZenonT(60), <1>a, <2>6, <3>1, ClaimMoves
  <2>. QED BY <1>12, <2>2, <2>3, <2>4, <2>5, <2>6 DEF Retry, Tasks
<1>. QED BY <1>3, <1>4, <1>6, <1>7, <1>8, <1>9, <1>10, <1>11, <1>12 DEF GeminiStep

\* Who enters found a slot free.
LEMMA StepKeepsSlots ==
  ASSUME BudgetInv, QueueInv, SlotsKept, NEW t \in Tasks, GeminiStep(t)
  PROVE  SlotsKept'
<1>1. /\ \A u \in Tasks \ {t} : stage'[u] = stage[u]
      /\ UNCHANGED slots
  BY StepFits, GateMoves DEF BudgetInv, InOrder
<1>2. IsFiniteSet(Inside) /\ Cardinality(Inside) \in Nat /\ slots \in Nat
  <2>1. IsFiniteSet(Tasks) /\ Inside \subseteq Tasks
    BY GeminiAssumption, FS_Union DEF Tasks, Inside
  <2>. QED BY <2>1, FS_Subset, FS_CardinalityType, GeminiAssumption DEF SlotsKept
<1>3. CASE Inside' \subseteq Inside
  <2>1. Cardinality(Inside') <= Cardinality(Inside) /\ Cardinality(Inside') \in Nat
    BY <1>2, <1>3, FS_Subset, FS_CardinalityType
  <2>. QED BY <1>1, <1>2, <2>1 DEF SlotsKept
<1>4. CASE ~(Inside' \subseteq Inside)
  <2>1. t \notin Inside /\ Inside' = Inside \cup {t}
    BY <1>1, <1>4 DEF Inside
  <2>2. Cardinality(Inside') = Cardinality(Inside) + 1
    BY <1>2, <2>1, FS_AddElement
  <2>3. stage[t] \notin {"cooling", "calling"} /\ stage'[t] \in {"cooling", "calling"}
    BY <2>1 DEF Inside
  <2>4. Free
    BY <2>3, GateMoves DEF BudgetInv, Refused, Failing, Waits, Entering, Awakes, Leaves, Elsewhere, Ended
  <2>. QED BY <1>1, <1>2, <2>2, <2>4 DEF SlotsKept, Free, Inside
<1>. QED BY <1>3, <1>4

LEMMA StepKeepsQueued ==
  ASSUME BudgetInv, QueueInv, AllQueued, NEW t \in Tasks, GeminiStep(t)
  PROVE  AllQueued'
<1>0. queue \in Seq(Tasks)
  BY DEF QueueInv
<1>1. stage' = [stage EXCEPT ![t] = stage'[t]] /\ stage = [u \in Tasks |-> stage[u]]
  BY StepFits DEF InOrder, BudgetInv
<1>2. stage'[t] = "queued" => queue' = Append(queue, t)
  BY <1>1, GateMoves DEF Refused, Failing, Waits, Entering, Awakes, Leaves, Elsewhere, Ended, Put
<1>3. CASE queue' = queue /\ stage[t] # "queued"
  <2>1. Len(Append(queue, t)) # Len(queue)
    BY <1>0
  <2>2. stage'[t] # "queued"
    BY <1>2, <1>3, <2>1
  <2>. QED BY <1>1, <1>3, <2>2 DEF AllQueued
<1>4. CASE queue' = Append(queue, t)
  <2>1. /\ Len(queue') = Len(queue) + 1 /\ queue'[Len(queue) + 1] = t
        /\ \A i \in 1..Len(queue) : queue'[i] = queue[i]
    BY <1>0, <1>4
  <2>2. Len(queue) + 1 \in 1..Len(queue') /\ 1..Len(queue) \subseteq 1..Len(queue')
    BY <1>0, <2>1
  <2>. QED BY <1>1, <2>1, <2>2 DEF AllQueued
<1>5. CASE queue # <<>> /\ t = Head(queue) /\ queue' = Tail(queue)
  <2>1. Len(Append(queue, t)) # Len(Tail(queue))
    BY <1>0, <1>5
  <2>2. stage'[t] # "queued"
    BY <1>2, <1>5, <2>1
  <2>3. ASSUME NEW u \in Tasks, stage'[u] = "queued" PROVE \E i \in 1..Len(queue') : queue'[i] = u
    <3>1. u # t /\ stage[u] = "queued"
      BY <1>1, <2>2, <2>3
    <3>2. PICK i \in 1..Len(queue) : queue[i] = u
      BY <3>1 DEF AllQueued
    <3>3. queue[1] = t /\ i # 1
      BY <1>0, <1>5, <3>1, <3>2
    <3>4. i - 1 \in 1..Len(queue') /\ queue'[i - 1] = queue[i]
      BY <1>0, <1>5, <3>2, <3>3
    <3>. QED BY <3>2, <3>4
  <2>. QED BY <2>3 DEF AllQueued
<1>. QED BY <1>3, <1>4, <1>5, QueueMoves

LEMMA StepKeepsKeys ==
  ASSUME BudgetInv, QueueInv, KeysInv, SlotInv, NEW t \in Tasks, GeminiStep(t)
  PROVE  KeysInv'
<1>1. \A u \in Tasks \ {t} : stage'[u] = stage[u] /\ task'[u] = task[u]
  BY StepFits DEF BudgetInv, InOrder
<1>. QED BY <1>1, StepSeats DEF KeysInv, Seated

LEMMA TickKeepsKeys ==
  ASSUME BudgetInv, KeysInv, Tick
  PROVE  KeysInv'
<1>1. /\ task' = [t \in Tasks |-> [task[t] EXCEPT !.sleep = Minus1(@)]]
      /\ UNCHANGED <<stage, nextKey>>
  BY DEF Tick
<1>2. ASSUME NEW t \in Tasks PROVE Local(task'[t]) /\ HasKey(task'[t], stage'[t])
  <2>. DEFINE s == task[t]  x == Minus1(s.sleep)  v == [s EXCEPT !.sleep = x]
  <2>1. Local(s) /\ HasKey(s, stage[t]) /\ task'[t] = v
    BY <1>1 DEF KeysInv
  <2>. HIDE DEF s
  <2>2. x \in 0..Hold
    BY <2>1, GeminiAssumption DEF Local, Minus1, Hold
  <2>. HIDE DEF x
  <2>3. Local(v) /\ v.i = s.i /\ v.part = s.part
    BY <2>1, <2>2 DEF Local
  <2>. HIDE DEF v
  <2>. QED BY <1>1, <2>1, <2>3 DEF HasKey
<1>. QED BY <1>1, <1>2 DEF KeysInv

TypesInv == BudgetInv /\ QueueInv /\ SlotInv /\ KeysInv /\ AllQueued /\ SlotsKept

LEMMA InitTypes == GeminiInit => TypesInv
<1>. SUFFICES ASSUME GeminiInit PROVE TypesInv
  OBVIOUS
<1>1. QueueInv /\ SlotInv /\ AllQueued
  BY GeminiAssumption DEF GeminiInit, QueueInv, SlotInv, Hold, AllQueued
<1>2. Inside = {} /\ slots \in 1..MaxSlots
  BY DEF Inside, GeminiInit
<1>3. SlotsKept
  BY <1>2, FS_EmptySet, GeminiAssumption DEF SlotsKept
<1>4. KeysInv
  <2>. DEFINE zero == [d \in Domains |-> 0]
  <2>1. task = [t \in Tasks |->
         [part |-> IF t \in Routed THEN "infer" ELSE "upload", i |-> 0, start |-> 0, same |-> 0,
          used |-> zero, sleep |-> 0, spent |-> {}, hits |-> zero]]
    BY DEF GeminiInit
  <2>. HIDE DEF zero
  <2>2. ASSUME NEW t \in Tasks PROVE Local(task[t])
    <3>1. PICK p : task[t] = [part |-> p, i |-> 0, start |-> 0, same |-> 0, used |-> zero,
                              sleep |-> 0, spent |-> {}, hits |-> zero]
      BY <2>1
    <3>2. 0 \in 0..Keys /\ 0 \in 0..(Keys - 1) /\ 0 \in 0..2 /\ 0 \in 0..Hold
      BY GeminiAssumption DEF Hold
    <3>. QED BY <3>1, <3>2 DEF Local
  <2>3. \A t \in Tasks : HasKey(task[t], stage[t])
    BY DEF GeminiInit, HasKey, Flying
  <2>4. nextKey \in 0..(Keys - 1)
    BY GeminiAssumption DEF GeminiInit
  <2>. QED BY <2>2, <2>3, <2>4 DEF KeysInv
<1>. QED BY <1>1, <1>3, <1>4, Init_Budget DEF TypesInv

LEMMA NextTypes == TypesInv /\ [GeminiNext]_geminiVars => TypesInv'
<1>. SUFFICES ASSUME TypesInv, [GeminiNext]_geminiVars PROVE TypesInv'
  OBVIOUS
<1>1. CASE Tick
  <2>1. UNCHANGED <<slots, queue, stage>>
    BY <1>1 DEF Tick
  <2>2. AllQueued' /\ SlotsKept'
    BY <2>1 DEF TypesInv, AllQueued, SlotsKept, Inside
  <2>. QED BY <1>1, <2>2, TickKeeps, TickKeepsGate, TickKeepsKeys DEF TypesInv
<1>2. ASSUME NEW t \in Tasks, GeminiStep(t) PROVE TypesInv'
  BY <1>2, StepFits, OrderKept, StepKeepsQueue, StepKeepsGate, StepKeepsKeys, StepKeepsQueued,
     StepKeepsSlots DEF TypesInv
<1>3. CASE UNCHANGED geminiVars
  <2>1. BudgetInv' /\ QueueInv'
    BY <1>3 DEF geminiVars, TypesInv, BudgetInv, QueueInv
  <2>2. SlotInv'
    BY <1>3 DEF geminiVars, TypesInv, SlotInv, Domain
  <2>3. KeysInv' /\ AllQueued' /\ SlotsKept'
    BY <1>3 DEF geminiVars, TypesInv, KeysInv, AllQueued, SlotsKept, Inside
  <2>. QED BY <2>1, <2>2, <2>3 DEF TypesInv
<1>. QED BY <1>1, <1>2, <1>3 DEF GeminiNext

\* GeminiTypeOK: the semaphore never admits more than its slots, its queue holds exactly the
\* tasks that wait, no cooldown outlasts a circuit's, and a task's key is a configured one.
THEOREM GeminiTypes == GeminiSpec => []GeminiTypeOK
<1>1. TypesInv => GeminiTypeOK
  <2>. SUFFICES ASSUME TypesInv PROVE GeminiTypeOK
    OBVIOUS
  <2>1. queue \in Seq(Tasks) /\ ToSet(queue) = {t \in Tasks : stage[t] = "queued"}
    BY DEF TypesInv, QueueInv, AllQueued, ToSet
  <2>2. stage \in [Tasks -> {"new", "asking", "queued", "cooling", "calling", "backoff"} \cup Ended]
    BY DEF TypesInv, BudgetInv, Suits, Phases
  <2>3. ASSUME NEW t \in Tasks
        PROVE  task[t] \in [part : Parts, i : 0..Keys, start : 0..(Keys - 1), same : 0..2,
                             used : [Domains -> 0..Budget], sleep : 0..Hold,
                             spent : SUBSET Domains, hits : [Domains -> Nat]]
    <3>. DEFINE s == task[t]
    <3>1. IsTask(s) /\ Local(s)
      BY DEF TypesInv, BudgetInv, Suits, KeysInv
    <3>. HIDE DEF s
    <3>2. s.part \in Parts /\ s.used \in [Domains -> 0..Budget] /\ s.hits \in [Domains -> Nat]
      BY <3>1 DEF IsTask
    <3>3. s \in [part : Parts, i : 0..Keys, start : 0..(Keys - 1), same : 0..2,
                 used : [Domains -> 0..Budget], sleep : 0..Hold,
                 spent : SUBSET Domains, hits : [Domains -> Nat]]
      BY <3>1, <3>2 DEF Local
    <3>. QED BY <3>3 DEF s
  <2>4. task \in [Tasks -> [part : Parts, i : 0..Keys, start : 0..(Keys - 1), same : 0..2,
                            used : [Domains -> 0..Budget], sleep : 0..Hold,
                            spent : SUBSET Domains, hits : [Domains -> Nat]]]
    BY <2>3, Zenon DEF TypesInv, BudgetInv
  <2>. QED BY <2>1, <2>2, <2>4 DEF TypesInv, GeminiTypeOK, SlotInv, SlotsKept, Inside, KeysInv
<1>. QED BY <1>1, InitTypes, NextTypes, PTL DEF GeminiSpec

-----------------------------------------------------------------------------
(* Every request runs out of steps.                                        *)

\* The parts of a request in the order in which it comes to them; a pause takes the analysis
\* without a schema back to the one with it.
PartRank(s, l) ==
  CASE s.part = "upload" -> 5
    [] s.part = "poll" -> 4
    [] s.part = "infer" \/ (s.part = "legacy" /\ l = "backoff") -> 3
    [] s.part = "legacy" /\ l # "backoff" -> 2
    [] s.part = "low" -> 1
    [] s.part = "repair" -> 0

StageRank(l) ==
  CASE l = "new" -> 6 [] l = "backoff" -> 5 [] l = "asking" -> 4 [] l = "queued" -> 3
    [] l = "cooling" -> 2 [] l = "calling" -> 1

\* What a task with the variables s at stage l has before it: the keys that are left, the
\* attempts that its key is worth, the parts of one attempt, and the stages of one part.
Ahead(s, l) ==
  IF l \in Ended THEN 0
  ELSE (Keys - s.i) * 126 + (2 - s.same) * 42 + PartRank(s, l) * 7 + StageRank(l)

Rank(t) == Ahead(task[t], stage[t])

\* A step of a request brings it nearer to its end and none of the others further from theirs,
\* and the passing of time none of them.
RanksFall ==
  [][\/ Tick /\ \A t \in Tasks : Rank(t)' = Rank(t)
     \/ \E t \in Tasks : Rank(t)' < Rank(t) /\ \A u \in Tasks \ {t} : Rank(u)' = Rank(u)]_geminiVars

\* An upload is the first thing that is done with a key, and the first thing an analysis does.
FreshUploads ==
  \A t \in Tasks :
    /\ task[t].part \in Uploading => task[t].same = 0
    /\ t \in Analyses /\ stage[t] = "new" => task[t].part = "upload"

LEMMA AheadIsNat ==
  ASSUME NEW s, Local(s), s.part \in Parts, NEW l \in Phases
  PROVE  /\ Ahead(s, l) \in Nat
         /\ PartRank(s, l) \in 0..5
         /\ l \notin Ended => StageRank(l) \in 1..6 /\ Ahead(s, l) > 0
<1>1. PartRank(s, l) \in 0..5
  BY DEF PartRank, Parts
<1>2. l \notin Ended => StageRank(l) \in 1..6
  BY DEF StageRank, Phases, Ended
<1>. QED BY <1>1, <1>2, GeminiAssumption DEF Ahead, Local

Falls(t) ==
  /\ Ahead(task'[t], stage'[t]) < Rank(t)
  /\ task'[t].part \in Uploading => task'[t].same = 0
  /\ stage'[t] # "new"

LEMMA PutFalls ==
  ASSUME BudgetInv, NEW t \in Tasks, NEW v, NEW l, Put(t, v, l),
         Ahead(v, l) < Rank(t), v.part \in Uploading => v.same = 0, l # "new"
  PROVE  Falls(t)
<1>1. task'[t] = v /\ stage'[t] = l
  BY DEF BudgetInv, Put
<1>. QED BY <1>1 DEF Falls

\* The fields that count.
Counts(v, i, x, p) == v.i = i /\ v.same = x /\ v.part = p

\* A later part of the attempt, or a later stage of the part.
LEMMA GoesOn ==
  ASSUME BudgetInv, KeysInv, FreshUploads, NEW t \in Tasks, NEW v, NEW l \in Phases \ (Ended \cup {"new"}),
         NEW p \in Parts, Counts(v, task[t].i, task[t].same, p), Put(t, v, l),
         PartRank(v, l) <= PartRank(task[t], stage[t]),
         \/ PartRank(v, l) < PartRank(task[t], stage[t])
         \/ StageRank(l) < StageRank(stage[t]),
         stage[t] \notin Ended, p \in Uploading => task[t].part \in Uploading
  PROVE  Falls(t)
<1>. DEFINE s == task[t]  r == PartRank(v, l)  q == PartRank(s, stage[t])
            m == StageRank(l)  n == StageRank(stage[t])
<1>1. Local(s) /\ s.part \in Parts /\ stage[t] \in Phases
  BY DEF KeysInv, BudgetInv, Suits, IsTask
<1>2. q \in 0..5 /\ n \in 1..6
  BY <1>1, AheadIsNat
<1>3. r \in 0..5 /\ m \in 1..6
  BY DEF PartRank, StageRank, Parts, Phases, Ended, Counts
<1>4. /\ Ahead(s, stage[t]) = (Keys - s.i) * 126 + (2 - s.same) * 42 + q * 7 + n
      /\ Ahead(v, l) = (Keys - s.i) * 126 + (2 - s.same) * 42 + r * 7 + m
  BY DEF Ahead, Counts
<1>5. s.i \in Int /\ s.same \in Int /\ Keys \in Int
  BY <1>1, GeminiAssumption DEF Local
<1>6. r < q \/ (r <= q /\ m < n)
  OBVIOUS
<1>. HIDE DEF r, q, m, n
<1>7. Ahead(v, l) < Ahead(s, stage[t])
  BY <1>2, <1>3, <1>4, <1>5, <1>6
<1>8. v.part \in Uploading => v.same = 0
  BY DEF FreshUploads, Counts
<1>. QED BY <1>7, <1>8, PutFalls DEF Rank

\* The same key once more.
LEMMA TriesAgain ==
  ASSUME BudgetInv, KeysInv, NEW t \in Tasks, NEW v, NEW l \in Phases \ {"new"}, NEW p \in Parts,
         Counts(v, task[t].i, 1, p), task[t].same = 0, p \notin Uploading, Put(t, v, l),
         stage[t] \notin Ended
  PROVE  Falls(t)
<1>. DEFINE s == task[t]
<1>1. Local(s) /\ s.part \in Parts /\ stage[t] \in Phases
  BY DEF KeysInv, BudgetInv, Suits, IsTask
<1>2. PartRank(s, stage[t]) \in 0..5 /\ StageRank(stage[t]) \in 1..6
  BY <1>1, AheadIsNat
<1>3. PartRank(v, l) \in 0..5 /\ (l \notin Ended => StageRank(l) \in 1..6)
  BY DEF PartRank, StageRank, Parts, Phases, Ended, Counts
<1>4. Ahead(v, l) < Ahead(s, stage[t])
  BY <1>1, <1>2, <1>3, GeminiAssumption DEF Ahead, Local, Counts
<1>. QED BY <1>4, PutFalls DEF Rank, Counts

\* A later key.
LEMMA GoesPast ==
  ASSUME BudgetInv, KeysInv, NEW t \in Tasks, NEW v, NEW l \in Phases \ {"new"}, NEW p \in Parts,
         NEW x \in {0, task[t].same}, NEW i \in (task[t].i + 1)..Keys, Counts(v, i, x, p),
         p \in Uploading => x = 0, Put(t, v, l), stage[t] \notin Ended
  PROVE  Falls(t)
<1>. DEFINE s == task[t]
<1>1. Local(s) /\ s.part \in Parts /\ stage[t] \in Phases
  BY DEF KeysInv, BudgetInv, Suits, IsTask
<1>2. PartRank(s, stage[t]) \in 0..5 /\ StageRank(stage[t]) \in 1..6
  BY <1>1, AheadIsNat
<1>3. PartRank(v, l) \in 0..5 /\ (l \notin Ended => StageRank(l) \in 1..6)
  BY DEF PartRank, StageRank, Parts, Phases, Ended, Counts
<1>. DEFINE r == PartRank(v, l)  q == PartRank(s, stage[t])  m == StageRank(l)  n == StageRank(stage[t])
<1>4. /\ Ahead(s, stage[t]) = (Keys - s.i) * 126 + (2 - s.same) * 42 + q * 7 + n
      /\ Ahead(v, l) = 0 \/ (m \in 1..6 /\ Ahead(v, l) = (Keys - i) * 126 + (2 - x) * 42 + r * 7 + m)
  BY <1>3 DEF Ahead, Counts
<1>5. /\ s.i \in Int /\ s.same \in 0..2 /\ x \in 0..2 /\ Keys \in Int /\ i \in Int
      /\ s.i + 1 <= i /\ s.i <= Keys
  BY <1>1, GeminiAssumption DEF Local
<1>6. q \in 0..5 /\ n \in 1..6 /\ r \in 0..5
  BY <1>2, <1>3
<1>. HIDE DEF r, q, m, n, s
<1>7. Ahead(s, stage[t]) > (Keys - s.i) * 126
  BY <1>4, <1>5, <1>6
<1>8. (Keys - i) * 126 <= (Keys - s.i) * 126 - 126 /\ (Keys - s.i) * 126 >= 0
  BY <1>5
<1>9. Ahead(v, l) <= (Keys - i) * 126 + 125 \/ Ahead(v, l) = 0
  BY <1>4, <1>5, <1>6
<1>10. Ahead(v, l) < Ahead(s, stage[t])
  BY <1>4, <1>5, <1>6, <1>7, <1>8, <1>9
<1>. QED BY <1>10, PutFalls DEF Rank, Counts, s

LEMMA Finishes ==
  ASSUME BudgetInv, KeysInv, NEW t \in Tasks, NEW v, NEW l \in Ended, Put(t, v, l),
         v.part = task[t].part, v.same = task[t].same \/ v.same = 0, FreshUploads,
         stage[t] \notin Ended
  PROVE  Falls(t)
<1>1. Rank(t) > 0
  BY AheadIsNat DEF Rank, KeysInv, BudgetInv, Suits, IsTask
<1>2. Ahead(v, l) = 0
  BY DEF Ahead
<1>. QED BY <1>1, <1>2, PutFalls DEF FreshUploads, Ended

LEMMA ClaimCounts ==
  ASSUME NEW s, Local(s), NEW d
  PROVE  /\ Counts(Claim(s, d), s.i, s.same, s.part) /\ Counts(Refunded(s), s.i, s.same, s.part)
         /\ Counts(Hit(s), s.i, s.same, s.part)
<1>. DEFINE u == [s.used EXCEPT ![d] = @ + 1]  r == [s.used EXCEPT !["inference"] = @ - 1]
            h == [s.hits EXCEPT ![DomainOf(s.part)] = @ + 1]
<1>1. /\ Claim(s, d) = [s EXCEPT !.used = u] /\ Refunded(s) = [s EXCEPT !.used = r]
      /\ Hit(s) = [s EXCEPT !.hits = h]
  BY DEF Claim, Refunded, Hit, Local
<1>. HIDE DEF u, r, h
<1>2. Counts(Claim(s, d), s.i, s.same, s.part)
  BY <1>1 DEF Local, Counts
<1>3. Counts(Refunded(s), s.i, s.same, s.part)
  BY <1>1 DEF Local, Counts
<1>4. Counts(Hit(s), s.i, s.same, s.part)
  BY <1>1 DEF Local, Counts
<1>. QED BY <1>2, <1>3, <1>4

LEMMA FirstIsLater ==
  ASSUME NEW s, Local(s), Left(s) # {}
  PROVE  First(Left(s)) \in s.i..Keys
<1>1. Left(s) \in SUBSET Nat /\ Left(s) \subseteq s.i..Keys
  BY GeminiAssumption DEF Local, Left
<1>2. \E j \in Left(s) : \A k \in Left(s) : j <= k
  BY <1>1, LeastNumber
<1>. QED BY <1>1, <1>2 DEF First

LEMMA AttemptCounts ==
  ASSUME NEW t \in Tasks, NEW s, Local(s), Attempt(t, s)
  PROVE  \E w : \E l \in {"rejected", "asking"} : Put(t, w, l) /\ Counts(w, s.i, s.same, s.part)
<1>1. Counts(s, s.i, s.same, s.part) /\ Counts(Claim(s, "inference"), s.i, s.same, s.part)
  BY ClaimCounts DEF Counts
<1>2. Put(t, s, "rejected") \/ Put(t, Claim(s, "inference"), "asking")
  BY DEF Attempt
<1>. QED BY <1>1, <1>2, Zenon

LEMMA RouteCounts ==
  ASSUME NEW t \in Tasks, NEW s, Local(s), RouteTo(t, s)
  PROVE  \E w : \E l \in {"failed", "rejected", "asking"} : \E i \in s.i..Keys :
           Put(t, w, l) /\ Counts(w, i, s.same, s.part)
<1>1. CASE Put(t, s, "failed")
  <2>1. s.i \in s.i..Keys /\ Counts(s, s.i, s.same, s.part)
    BY GeminiAssumption DEF Local, Counts
  <2>. QED BY <1>1, <2>1, Zenon
<1>2. CASE Left(s) # {} /\ Attempt(t, [s EXCEPT !.i = First(Left(s))])
  <2>. DEFINE x == First(Left(s))  k == [s EXCEPT !.i = x]
  <2>1. x \in s.i..Keys /\ x \in 0..Keys
    BY <1>2, FirstIsLater, GeminiAssumption DEF Local
  <2>. HIDE DEF x
  <2>2. Local(k) /\ Counts(k, x, s.same, s.part)
    BY <2>1 DEF Local, Counts
  <2>3. Attempt(t, k)
    BY <1>2 DEF x
  <2>. HIDE DEF k
  <2>4. \E w : \E l \in {"rejected", "asking"} : Put(t, w, l) /\ Counts(w, k.i, k.same, k.part)
    BY <2>2, <2>3, AttemptCounts
  <2>. QED BY <2>1, <2>2, <2>4 DEF Counts
<1>. QED BY <1>1, <1>2 DEF RouteTo

LEMMA UploadCounts ==
  ASSUME NEW t \in Tasks, NEW s, Local(s), UploadTo(t, s)
  PROVE  \/ Put(t, s, "failed")
         \/ \E w : \E i \in s.i..Keys : Put(t, w, "asking") /\ Counts(w, i, 0, "upload")
<1>1. CASE /\ Left(s) # {}
           /\ Put(t, Claim([s EXCEPT !.i = First(Left(s)), !.same = 0, !.part = "upload"], "files"),
                  "asking")
  <2>. DEFINE x == First(Left(s))  k == [s EXCEPT !.i = x]  m == [k EXCEPT !.same = 0]
              v == [m EXCEPT !.part = "upload"]
  <2>1. x \in s.i..Keys /\ x \in 0..Keys
    BY <1>1, FirstIsLater, GeminiAssumption DEF Local
  <2>2. Local(k) /\ k.i = x
    BY <2>1 DEF Local
  <2>3. v = [s EXCEPT !.i = First(Left(s)), !.same = 0, !.part = "upload"]
    BY DEF Local
  <2>. HIDE DEF x, k
  <2>4. Local(m) /\ m.i = x /\ m.same = 0
    BY <2>2 DEF Local
  <2>. HIDE DEF m
  <2>5. Local(v) /\ Counts(v, x, 0, "upload")
    BY <2>1, <2>4 DEF Local, Counts
  <2>. HIDE DEF v
  <2>6. Counts(Claim(v, "files"), x, 0, "upload")
    BY <2>5, ClaimCounts DEF Counts
  <2>. QED BY <1>1, <2>1, <2>3, <2>6
<1>. QED BY <1>1 DEF UploadTo

\* What the step of a task t that is at work may assume.
Working(t) == BudgetInv /\ KeysInv /\ FreshUploads /\ t \in Tasks /\ stage[t] \notin Ended

LEMMA NextFalls ==
  ASSUME NEW t, Working(t), NEW s, Local(s), Counts(s, task[t].i, task[t].same, task[t].part),
         s.i < Keys, NextClient(t, s)
  PROVE  Falls(t)
<1>0. t \in Tasks /\ s.part \in Parts /\ s.i \in Nat /\ s.i + 1 \in 0..Keys
  BY GeminiAssumption DEF Working, BudgetInv, Suits, IsTask, Counts, Local
<1>. DEFINE x == s.i + 1  k == [s EXCEPT !.i = x]  n == [k EXCEPT !.same = 0]
<1>1. n = [s EXCEPT !.i = @ + 1, !.same = 0]
  BY DEF Local
<1>. HIDE DEF x
<1>2. Local(k) /\ k.part = s.part /\ k.i = x
  BY <1>0 DEF Local, x
<1>. HIDE DEF k
<1>3. Local(n) /\ Counts(n, x, 0, s.part)
  BY <1>2 DEF Local, Counts
<1>. HIDE DEF n
<1>4. RouteTo(t, n) \/ UploadTo(t, n)
  BY <1>1 DEF NextClient
<1>5. \E w : \E l \in {"failed", "rejected", "asking"} : \E i \in x..Keys : \E p \in Parts :
        Put(t, w, l) /\ Counts(w, i, 0, p)
  <2>1. CASE RouteTo(t, n)
    BY <1>0, <1>3, <2>1, RouteCounts DEF Counts
  <2>2. CASE UploadTo(t, n)
    <3>1. x \in x..Keys /\ "upload" \in Parts
      BY <1>0 DEF x, Parts
    <3>. QED BY <1>0, <1>3, <2>2, <3>1, UploadCounts DEF Counts
  <2>. QED BY <1>4, <2>1, <2>2
<1>w. PICK w : \E l \in {"failed", "rejected", "asking"} : \E i \in x..Keys : \E p \in Parts :
        Put(t, w, l) /\ Counts(w, i, 0, p)
  BY <1>5
<1>6. PICK l \in {"failed", "rejected", "asking"}, i \in x..Keys, p \in Parts :
        Put(t, w, l) /\ Counts(w, i, 0, p)
  BY <1>w, Zenon
<1>7. i \in (task[t].i + 1)..Keys /\ l \in Phases \ {"new"}
  BY <1>0, <1>6 DEF Counts, x, Phases, Ended
<1>. QED BY <1>6, <1>7, GoesPast DEF Working

\* A task goes on with the variables v, at the stage l, which is behind the one it is at.
LEMMA NextStage ==
  ASSUME NEW t, Working(t), NEW v, Counts(v, task[t].i, task[t].same, task[t].part),
         NEW l \in Phases \ (Ended \cup {"new", "backoff"}), StageRank(l) < StageRank(stage[t]),
         Put(t, v, l)
  PROVE  Falls(t)
<1>1. t \in Tasks /\ task[t].part \in Parts
  BY DEF Working, BudgetInv, Suits, IsTask
<1>2. PartRank(v, l) <= PartRank(task[t], stage[t])
  BY <1>1 DEF PartRank, Parts, Counts
<1>. QED BY <1>1, <1>2, GoesOn DEF Working

LEMMA FailureFalls ==
  ASSUME NEW t, Working(t), NEW v, Counts(v, task[t].i, task[t].same, task[t].part),
         NEW l \in Ended, Put(t, v, l)
  PROVE  Falls(t)
  BY Finishes DEF Working, Counts

\* The same key once more, after a pause.
LEMMA PauseFalls ==
  ASSUME NEW t, Working(t), NEW s, Local(s), Counts(s, task[t].i, 0, task[t].part),
         task[t].same = 0, task[t].part \notin Uploading,
         NEW x, Put(t, [s EXCEPT !.sleep = x, !.same = 1], "backoff")
  PROVE  Falls(t)
<1>1. t \in Tasks /\ task[t].part \in Parts /\ "backoff" \in Phases \ {"new"}
  BY DEF Working, BudgetInv, Suits, IsTask, Phases
<1>. DEFINE k == [s EXCEPT !.sleep = x]  n == [k EXCEPT !.same = 1]
<1>2. n = [s EXCEPT !.sleep = x, !.same = 1]
  BY DEF Local
<1>3. k.i = s.i /\ k.part = s.part /\ k = [part |-> s.part, i |-> s.i, start |-> s.start, same |-> s.same,
        used |-> s.used, sleep |-> x, spent |-> s.spent, hits |-> s.hits]
  BY DEF Local
<1>. HIDE DEF k
<1>4. Counts(n, task[t].i, 1, task[t].part)
  BY <1>3 DEF Counts
<1>. HIDE DEF n
<1>. QED BY <1>1, <1>2, <1>4, TriesAgain DEF Working

LEMMA OverloadedFalls ==
  ASSUME NEW t, Working(t), NEW s, Local(s), Counts(s, task[t].i, task[t].same, task[t].part),
         s.i < Keys, Overloaded(t, s)
  PROVE  Falls(t)
<1>0. t \in Tasks /\ s.part \in Parts /\ s.i \in Nat /\ s.i + 1 \in 0..Keys
  BY GeminiAssumption DEF Working, BudgetInv, Suits, IsTask, Counts, Local
<1>. DEFINE x == s.used[DomainOf(s.part)]
<1>1. \/ EndExtra(t, s) \/ Put(t, s, "failed")
      \/ s.part \in Uploading /\ Put(t, [s EXCEPT !.sleep = x, !.i = @ + 1, !.part = "upload"], "backoff")
      \/ /\ s.part \notin Uploading /\ s.same = 0
         /\ Put(t, [s EXCEPT !.sleep = x, !.same = 1], "backoff")
      \/ NextClient(t, s)
  <2>. HIDE DEF x
  <2>. QED BY DEF Overloaded, x, Uploading
<1>. HIDE DEF x
<1>2. CASE EndExtra(t, s) \/ Put(t, s, "failed")
  BY <1>2, FailureFalls DEF EndExtra, Ended
<1>3. CASE s.part \in Uploading /\ Put(t, [s EXCEPT !.sleep = x, !.i = @ + 1, !.part = "upload"], "backoff")
  <2>. DEFINE y == s.i + 1  k == [s EXCEPT !.sleep = x]  m == [k EXCEPT !.i = y]
              v == [m EXCEPT !.part = "upload"]
  <2>1. v = [s EXCEPT !.sleep = x, !.i = @ + 1, !.part = "upload"]
    BY DEF Local
  <2>. HIDE DEF y
  <2>2. k.same = s.same /\ k = [part |-> s.part, i |-> s.i, start |-> s.start, same |-> s.same,
        used |-> s.used, sleep |-> x, spent |-> s.spent, hits |-> s.hits]
    BY DEF Local
  <2>. HIDE DEF k
  <2>3. m.same = s.same /\ m.i = y /\ m = [part |-> s.part, i |-> y, start |-> s.start, same |-> s.same,
        used |-> s.used, sleep |-> x, spent |-> s.spent, hits |-> s.hits]
    BY <2>2
  <2>. HIDE DEF m
  <2>4. Counts(v, y, s.same, "upload")
    BY <2>3 DEF Counts
  <2>. HIDE DEF v
  <2>5. s.same = 0 /\ s.same = task[t].same
    BY <1>0, <1>3 DEF Working, FreshUploads, Counts
  <2>6. y \in (task[t].i + 1)..Keys /\ "backoff" \in Phases \ {"new"} /\ "upload" \in Parts
    BY <1>0 DEF Counts, y, Phases, Parts
  <2>. QED BY <1>0, <1>3, <2>1, <2>4, <2>5, <2>6, GoesPast DEF Working
<1>4. CASE /\ s.part \notin Uploading /\ s.same = 0
           /\ Put(t, [s EXCEPT !.sleep = x, !.same = 1], "backoff")
  BY <1>4, PauseFalls DEF Counts
<1>. QED BY <1>1, <1>2, <1>3, <1>4, NextFalls

LEMMA RefuseFalls ==
  ASSUME NEW t, Working(t), task[t].i < Keys, Refuse(t)
  PROVE  Falls(t)
<1>. DEFINE s == task[t]
<1>1. Local(s) /\ Counts(s, s.i, s.same, s.part)
  BY DEF Working, KeysInv, Counts
<1>2. CASE t \in Routed
  BY <1>1, <1>2, ClaimCounts, FailureFalls DEF Refuse, Ended
<1>3. CASE t \notin Routed
  BY <1>1, <1>3, OverloadedFalls DEF Refuse
<1>. QED BY <1>2, <1>3

LEMMA StepFalls ==
  ASSUME BudgetInv, QueueInv, KeysInv, FreshUploads, NEW t \in Tasks, GeminiStep(t)
  PROVE  Falls(t)
<1>. DEFINE s == task[t]  h == Hit(s)
<1>1. /\ Local(s) /\ HasKey(s, stage[t]) /\ s.part \in Parts /\ stage[t] \in Phases
      /\ Counts(s, s.i, s.same, s.part)
  BY DEF KeysInv, BudgetInv, Suits, IsTask, Counts
<1>2. Local(h) /\ Counts(h, s.i, s.same, s.part)
  BY <1>1, ClaimMoves, ClaimCounts
<1>w. ASSUME stage[t] \notin Ended PROVE Working(t)
  BY <1>w DEF Working
<1>c. ASSUME stage[t] = "calling" PROVE Working(t) /\ s.i < Keys
  BY <1>1, <1>w, <1>c DEF HasKey, Flying, Ended
<1>p. ASSUME NEW p PROVE Local([s EXCEPT !.part = p]) /\ Counts([s EXCEPT !.part = p], s.i, s.same, p)
  BY <1>1 DEF Local, Counts
\* A call is followed by a later part of the same attempt.
<1>q. ASSUME stage[t] = "calling", NEW v, NEW p \in Parts, NEW l \in {"asking", "backoff"},
             Counts(v, s.i, s.same, p), Put(t, v, l), PartRank(v, l) < PartRank(s, stage[t]),
             p \in Uploading => s.part \in Uploading
      PROVE  Falls(t)
  <2>1. l \in Phases \ (Ended \cup {"new"}) /\ stage[t] \notin Ended
    BY <1>q DEF Phases, Ended
  <2>2. PartRank(s, stage[t]) \in 0..5 /\ PartRank(v, l) \in 0..5
    BY <1>1, <1>q DEF PartRank, Parts, Counts
  <2>. QED BY <1>q, <2>1, <2>2, GoesOn
<1>3. CASE StartRequest(t)
  <2>1. stage[t] = "new" /\ Working(t) /\ s.i \in 0..Keys
    BY <1>1, <1>3, <1>w DEF StartRequest, Ended, Local
  <2>2. CASE Put(t, s, "rejected")
    BY <1>1, <2>1, <2>2, FailureFalls DEF Ended
  <2>r. ASSUME NEW w, NEW l \in {"failed", "rejected", "asking"}, NEW i \in s.i..Keys,
               Put(t, w, l), Counts(w, i, s.same, s.part)
        PROVE  Falls(t)
    <3>1. CASE i = s.i
      <4>1. CASE l = "asking"
        <5>1. l \in Phases \ (Ended \cup {"new", "backoff"}) /\ StageRank(l) < StageRank(stage[t])
          BY <2>1, <4>1 DEF Phases, Ended, StageRank
        <5>. QED BY <2>1, <2>r, <3>1, <5>1, NextStage
      <4>2. CASE l # "asking"
        BY <2>1, <2>r, <3>1, <4>2, FailureFalls DEF Ended
      <4>. QED BY <4>1, <4>2
    <3>2. CASE i # s.i
      <4>1. i \in (s.i + 1)..Keys /\ l \in Phases \ {"new"}
        BY <2>1, <2>r, <3>2 DEF Phases, Ended
      <4>2. s.part \in Uploading => s.same = 0
        BY DEF FreshUploads
      <4>. QED BY <1>1, <2>1, <2>r, <4>1, <4>2, GoesPast DEF Ended
    <3>. QED BY <3>1, <3>2
  <2>3. CASE t \in Routed /\ RouteTo(t, [s EXCEPT !.start = nextKey])
    <3>. DEFINE v == [s EXCEPT !.start = nextKey]
    <3>1. Local(v) /\ Counts(v, s.i, s.same, s.part) /\ RouteTo(t, v)
      BY <1>1, <2>3 DEF Local, Counts, KeysInv
    <3>. HIDE DEF v
    <3>2. \E w : \E l \in {"failed", "rejected", "asking"} : \E i \in s.i..Keys :
            Put(t, w, l) /\ Counts(w, i, s.same, s.part)
      <4>1. v.i = s.i /\ v.same = s.same /\ v.part = s.part
        BY <3>1 DEF Counts
      <4>. HIDE DEF s
      <4>. QED BY <3>1, <4>1, RouteCounts
    <3>. QED BY <2>r, <3>2
  <2>4. CASE t \in Analyses /\ UploadTo(t, s)
    <3>1. s.part = "upload" /\ s.same = 0
      BY <2>1, <2>4 DEF FreshUploads, Uploading
    <3>2. CASE Put(t, s, "failed")
      BY <1>1, <2>1, <3>2, FailureFalls DEF Ended
    <3>3. CASE \E w : \E i \in s.i..Keys : Put(t, w, "asking") /\ Counts(w, i, 0, "upload")
      BY <2>r, <3>1, <3>3
    <3>. QED BY <1>1, <2>4, <3>2, <3>3, UploadCounts
  <2>. QED BY <1>3, <2>2, <2>3, <2>4 DEF StartRequest, Tasks
<1>4. CASE Ask(t) \/ Enter(t) \/ Cooled(t)
  <2>1. stage[t] \in {"asking", "queued", "cooling"}
    BY <1>4, HeadWaits DEF Ask, Enter, Cooled
  <2>2. Working(t) /\ s.i < Keys
    BY <1>1, <1>w, <2>1 DEF HasKey, Flying, Ended
  <2>3. CASE Refuse(t)
    BY <2>2, <2>3, RefuseFalls
  <2>m. ASSUME NEW l \in {"queued", "cooling", "calling"}, NEW v, Counts(v, s.i, s.same, s.part),
               Put(t, v, l), StageRank(l) < StageRank(stage[t])
        PROVE  Falls(t)
    <3>1. l \in Phases \ (Ended \cup {"new", "backoff"})
      BY DEF Phases, Ended
    <3>. QED BY <2>2, <2>m, <3>1, NextStage
  <2>4. ASSUME NEW l \in {"queued", "calling"}, stage' = [stage EXCEPT ![t] = l], UNCHANGED task,
               StageRank(l) < StageRank(stage[t])
        PROVE  Falls(t)
    <3>1. task' = [task EXCEPT ![t] = s]
      BY <2>4 DEF BudgetInv
    <3>. HIDE DEF s
    <3>2. Put(t, s, l)
      BY <2>4, <3>1 DEF Put
    <3>. QED BY <1>1, <2>4, <2>m, <3>2
  <2>5. CASE stage[t] = "queued" /\ Put(t, [s EXCEPT !.sleep = LongestCooldown(Domain(t))], "cooling")
    <3>. DEFINE x == LongestCooldown(Domain(t))  v == [s EXCEPT !.sleep = x]
    <3>. HIDE DEF x
    <3>1. Counts(v, s.i, s.same, s.part)
      BY <1>1 DEF Local, Counts
    <3>. HIDE DEF v
    <3>2. StageRank("cooling") < StageRank(stage[t])
      BY <2>5 DEF StageRank
    <3>. QED BY <2>5, <2>m, <3>1, <3>2 DEF v, x
  <2>6. \/ Refuse(t)
        \/ stage[t] = "asking" /\ stage' = [stage EXCEPT ![t] = "queued"] /\ UNCHANGED task
        \/ stage[t] \in {"queued", "cooling"} /\ stage' = [stage EXCEPT ![t] = "calling"] /\ UNCHANGED task
        \/ stage[t] = "queued" /\ Put(t, [s EXCEPT !.sleep = LongestCooldown(Domain(t))], "cooling")
    BY <1>4, HeadWaits DEF Ask, Enter, Cooled
  <2>7. /\ StageRank("calling") < StageRank("queued") /\ StageRank("calling") < StageRank("cooling")
        /\ StageRank("queued") < StageRank("asking")
    BY DEF StageRank
  <2>. QED BY <2>3, <2>4, <2>5, <2>6, <2>7
<1>6. CASE Answered(t)
  <2>1. stage[t] = "calling"
    BY <1>6 DEF Answered
  <2>. QED BY <1>1, <1>c, <1>6, <2>1, FailureFalls, NextFalls DEF Answered, Ended
<1>7. CASE Success(t)
  <2>1. stage[t] = "calling"
    BY <1>7 DEF Success
  <2>2. CASE s.part = "upload" /\ Put(t, [s EXCEPT !.part = "poll"], "backoff")
    <3>1. PartRank([s EXCEPT !.part = "poll"], "backoff") < PartRank(s, stage[t])
      BY <1>p, <2>2 DEF PartRank, Counts
    <3>. QED BY <1>p, <1>q, <2>1, <2>2, <3>1 DEF Parts, Uploading
  <2>3. CASE s.part \in Uploading /\ Put(t, Claim([s EXCEPT !.part = "infer"], "inference"), "asking")
    <3>. DEFINE v == [s EXCEPT !.part = "infer"]
    <3>1. Local(v) /\ Counts(v, s.i, s.same, "infer")
      BY <1>p
    <3>. HIDE DEF v
    <3>2. Counts(Claim(v, "inference"), s.i, s.same, "infer")
      BY <3>1, ClaimCounts DEF Counts
    <3>3. PartRank(Claim(v, "inference"), "asking") < PartRank(s, stage[t])
      BY <2>3, <3>2 DEF PartRank, Counts, Uploading
    <3>. QED BY <1>q, <2>1, <2>3, <3>2, <3>3 DEF v, Parts, Uploading
  <2>4. ASSUME NEW p \in {"low", "repair"}, Put(t, [s EXCEPT !.part = p], "asking"),
               s.part \in {"infer", "legacy", "low"}, p = "low" => s.part # "low"
        PROVE  Falls(t)
    <3>1. PartRank([s EXCEPT !.part = p], "asking") < PartRank(s, stage[t])
      BY <1>p, <2>1, <2>4 DEF PartRank, Counts
    <3>. QED BY <1>p, <1>q, <2>1, <2>4, <3>1 DEF Parts, Uploading
  <2>5. CASE Put(t, s, "done") \/ Put(t, s, "failed")
    BY <1>1, <1>c, <2>1, <2>5, FailureFalls DEF Ended
  <2>. QED BY <1>7, <2>2, <2>3, <2>4, <2>5 DEF Success, Uploading
<1>8. CASE Quota(t)
  <2>1. stage[t] = "calling" /\ Working(t)
    BY <1>8, <1>c DEF Quota
  <2>2. CASE EndExtra(t, h)
    BY <1>2, <2>1, <2>2, FailureFalls DEF EndExtra, Ended
  <2>3. ASSUME NEW x, NextClient(t, [h EXCEPT !.spent = x]), x \in SUBSET Domains PROVE Falls(t)
    <3>. DEFINE v == [h EXCEPT !.spent = x]
    <3>. HIDE DEF h
    <3>1. Local(v) /\ Counts(v, s.i, s.same, s.part)
      BY <1>2, <2>3 DEF Local, Counts
    <3>. HIDE DEF v
    <3>2. v.i < Keys
      BY <1>c, <2>1, <3>1 DEF Counts
    <3>. QED BY <2>1, <2>3, <3>1, <3>2, NextFalls DEF v
  <2>4. h.spent \in SUBSET Domains /\ Domain(t) \in Domains
    BY <1>2, DomainsAre DEF Local
  <2>5. EndExtra(t, h) \/ \E x \in SUBSET Domains : NextClient(t, [h EXCEPT !.spent = x])
    <3>. HIDE DEF h
    <3>1. PICK b \in BOOLEAN :
            EndExtra(t, h) \/ NextClient(t, [h EXCEPT !.spent = IF b THEN @ \cup {Domain(t)} ELSE @])
      BY <1>8 DEF Quota, h
    <3>. DEFINE x == IF b THEN h.spent \cup {Domain(t)} ELSE h.spent
    <3>2. x \in SUBSET Domains
      BY <2>4
    <3>3. [h EXCEPT !.spent = IF b THEN @ \cup {Domain(t)} ELSE @] = [h EXCEPT !.spent = x]
      BY <1>2 DEF Local
    <3>. QED BY <3>1, <3>2, <3>3
  <2>. QED BY <2>2, <2>3, <2>5
<1>9. CASE Overload(t)
  <2>1. Overloaded(t, h) /\ Working(t) /\ h.i < Keys
    BY <1>2, <1>9, <1>c DEF Overload, Counts
  <2>. QED BY <1>2, <2>1, OverloadedFalls
<1>10. CASE Timeout(t)
  <2>1. stage[t] = "calling" /\ Working(t) /\ h.i < Keys
    BY <1>2, <1>10, <1>c DEF Timeout, Counts
  <2>2. \/ EndExtra(t, h) \/ Put(t, h, "failed")
        \/ /\ s.part \notin Uploading /\ s.same = 0
           /\ Put(t, [h EXCEPT !.sleep = h.used["inference"], !.same = 1], "backoff")
        \/ NextClient(t, h)
    <3>1. h.part = s.part /\ h.same = s.same
      BY <1>2 DEF Counts
    <3>. HIDE DEF h
    <3>. QED BY <1>10, <3>1 DEF Timeout, h, Uploading
  <2>3. CASE EndExtra(t, h) \/ Put(t, h, "failed")
    BY <1>2, <2>1, <2>3, FailureFalls DEF EndExtra, Ended
  <2>4. CASE /\ s.part \notin Uploading /\ s.same = 0
             /\ Put(t, [h EXCEPT !.sleep = h.used["inference"], !.same = 1], "backoff")
    BY <1>2, <2>1, <2>4, PauseFalls
  <2>. QED BY <1>2, <2>1, <2>2, <2>3, <2>4, NextFalls
<1>11. CASE OtherError(t)
  <2>1. stage[t] = "calling" /\ Working(t)
    BY <1>11, <1>c DEF OtherError
  <2>2. CASE s.part = "infer" /\ Put(t, [s EXCEPT !.part = "legacy"], "asking")
    <3>1. PartRank([s EXCEPT !.part = "legacy"], "asking") < PartRank(s, stage[t])
      BY <1>p, <2>1, <2>2 DEF PartRank, Counts
    <3>. QED BY <1>p, <1>q, <2>1, <2>2, <3>1 DEF Parts, Uploading
  <2>3. CASE EndExtra(t, s) \/ Put(t, s, "failed")
    BY <1>1, <2>1, <2>3, FailureFalls DEF EndExtra, Ended
  <2>. QED BY <1>11, <2>2, <2>3 DEF OtherError
<1>12. CASE Retry(t)
  <2>1. stage[t] = "backoff" /\ Working(t)
    BY <1>12, <1>w DEF Retry, Ended
  <2>m. ASSUME NEW l \in {"asking", "rejected", "failed"}, NEW v, Counts(v, s.i, s.same, s.part), Put(t, v, l)
        PROVE  Falls(t)
    <3>1. StageRank("asking") < StageRank(stage[t]) /\ "asking" \in Phases \ (Ended \cup {"new", "backoff"})
      BY <2>1 DEF StageRank, Phases, Ended
    <3>2. CASE l = "asking"
      BY <2>1, <2>m, <3>1, <3>2, NextStage
    <3>3. CASE l # "asking"
      BY <2>1, <2>m, <3>3, FailureFalls DEF Ended
    <3>. QED BY <3>2, <3>3
  <2>3. CASE Attempt(t, s)
    BY <1>1, <2>3, <2>m, AttemptCounts
  <2>4. CASE s.part = "upload" /\ UploadTo(t, s)
    <3>1. CASE Put(t, s, "failed")
      BY <1>1, <2>m, <3>1
    <3>2. ASSUME NEW w, NEW i \in s.i..Keys, Put(t, w, "asking"), Counts(w, i, 0, "upload")
          PROVE  Falls(t)
      <4>1. s.same = 0
        BY <2>4 DEF FreshUploads, Uploading
      <4>2. CASE i = s.i
        BY <2>4, <2>m, <3>2, <4>1, <4>2
      <4>3. CASE i # s.i
        <5>1. i \in (s.i + 1)..Keys /\ "asking" \in Phases \ {"new"} /\ "upload" \in Parts
          BY <1>1, <3>2, <4>3 DEF Phases, Parts, Local
        <5>. QED BY <2>1, <3>2, <5>1, GoesPast DEF Ended
      <4>. QED BY <4>2, <4>3
    <3>. QED BY <1>1, <2>4, <3>1, <3>2, UploadCounts
  <2>5. CASE Put(t, s, "asking")
    BY <1>1, <2>5, <2>m
  <2>6. CASE s.part \in Inferring /\ Put(t, Claim([s EXCEPT !.part = "infer"], "inference"), "asking")
    <3>. DEFINE v == [s EXCEPT !.part = "infer"]
    <3>1. Local(v) /\ Counts(v, s.i, s.same, "infer")
      BY <1>p
    <3>. HIDE DEF v
    <3>2. Counts(Claim(v, "inference"), s.i, s.same, "infer")
      BY <3>1, ClaimCounts DEF Counts
    <3>3. PartRank(Claim(v, "inference"), "asking") <= PartRank(s, stage[t])
      BY <2>1, <2>6, <3>2 DEF PartRank, Counts, Inferring
    <3>4. /\ StageRank("asking") < StageRank(stage[t]) /\ "asking" \in Phases \ (Ended \cup {"new"})
          /\ stage[t] \notin Ended /\ "infer" \in Parts /\ "infer" \notin Uploading
      BY <2>1 DEF StageRank, Phases, Ended, Parts, Uploading
    <3>. QED BY <2>6, <3>2, <3>3, <3>4, GoesOn DEF v
  <2>7. s.part \in Inferring \/ s.part \in Uploading
    BY <1>1, <2>1 DEF BudgetInv, Suits, Parts, Inferring, Uploading, Additional
  <2>8. \/ Attempt(t, s)
        \/ s.part = "upload" /\ UploadTo(t, s)
        \/ Put(t, s, "asking")
        \/ s.part \notin Uploading /\ Put(t, Claim([s EXCEPT !.part = "infer"], "inference"), "asking")
    <3>1. CASE t \in Routed
      BY <1>12, <3>1 DEF Retry
    <3>2. CASE t \in Analyses /\ t \notin Routed /\ s.part = "upload"
      BY <1>12, <3>2 DEF Retry
    <3>3. CASE t \in Analyses /\ t \notin Routed /\ s.part = "poll"
      BY <1>12, <3>3 DEF Retry
    <3>4. CASE t \notin Routed /\ s.part \notin Uploading
      BY <1>12, <3>4 DEF Retry, Uploading
    <3>. QED BY <3>1, <3>2, <3>3, <3>4 DEF Tasks, Uploading
  <2>. QED BY <2>3, <2>4, <2>5, <2>6, <2>7, <2>8
<1>. QED BY <1>3, <1>4, <1>6, <1>7, <1>8, <1>9, <1>10, <1>11, <1>12 DEF GeminiStep

ProgressInv == TypesInv /\ FreshUploads

LEMMA NextFresh ==
  ASSUME TypesInv, FreshUploads, [GeminiNext]_geminiVars
  PROVE  FreshUploads'
<1>1. CASE Tick
  <2>1. /\ stage' = stage
        /\ task' = [t \in Tasks |-> [task[t] EXCEPT !.sleep = Minus1(@)]]
    BY <1>1 DEF Tick
  <2>2. ASSUME NEW t \in Tasks PROVE task'[t].part = task[t].part /\ task'[t].same = task[t].same
    <3>. DEFINE s == task[t]  x == Minus1(s.sleep)
    <3>1. Local(s) /\ task'[t] = [s EXCEPT !.sleep = x]
      BY <2>1 DEF TypesInv, KeysInv
    <3>. HIDE DEF s, x
    <3>2. task'[t].part = s.part /\ task'[t].same = s.same
      BY <3>1 DEF Local
    <3>. QED BY <3>2 DEF s
  <2>. QED BY <2>1, <2>2 DEF FreshUploads
<1>2. ASSUME NEW t \in Tasks, GeminiStep(t) PROVE FreshUploads'
  <2>1. \A u \in Tasks \ {t} : stage'[u] = stage[u] /\ task'[u] = task[u]
    BY <1>2, StepFits DEF TypesInv, BudgetInv, InOrder
  <2>2. Falls(t)
    BY <1>2, StepFalls DEF TypesInv
  <2>. QED BY <2>1, <2>2 DEF FreshUploads, Falls
<1>3. CASE UNCHANGED geminiVars
  BY <1>3 DEF geminiVars, FreshUploads
<1>. QED BY <1>1, <1>2, <1>3 DEF GeminiNext

LEMMA InitFresh == GeminiInit => FreshUploads
<1>. SUFFICES ASSUME GeminiInit, NEW t \in Tasks
              PROVE  task[t].same = 0 /\ (t \in Analyses => task[t].part = "upload")
  BY DEF FreshUploads
<1>. QED BY GeminiAssumption DEF GeminiInit

\* Every step of a request lowers a natural number of its own that no other step raises: with k
\* keys a request takes at most 126 * k + 125 steps, whatever Gemini answers and whoever asks
\* beside it.
THEOREM RequestsRunOut ==
  GeminiSpec => RanksFall /\ [](\A t \in Tasks : Rank(t) \in 0..(126 * Keys + 125))
<1>1. GeminiInit => ProgressInv
  BY InitTypes, InitFresh DEF ProgressInv
<1>2. ProgressInv /\ [GeminiNext]_geminiVars => ProgressInv'
  BY NextTypes, NextFresh DEF ProgressInv
<1>3. ProgressInv /\ [GeminiNext]_geminiVars
        => [\/ Tick /\ \A t \in Tasks : Rank(t)' = Rank(t)
            \/ \E t \in Tasks : Rank(t)' < Rank(t) /\ \A u \in Tasks \ {t} : Rank(u)' = Rank(u)]_geminiVars
  <2>. SUFFICES ASSUME ProgressInv, GeminiNext
                PROVE  \/ Tick /\ \A t \in Tasks : Rank(t)' = Rank(t)
                       \/ \E t \in Tasks : /\ Rank(t)' < Rank(t)
                                           /\ \A u \in Tasks \ {t} : Rank(u)' = Rank(u)
    OBVIOUS
  <2>1. CASE Tick
    <3>1. /\ stage' = stage
          /\ task' = [t \in Tasks |-> [task[t] EXCEPT !.sleep = Minus1(@)]]
      BY <2>1 DEF Tick
    <3>2. ASSUME NEW t \in Tasks PROVE Rank(t)' = Rank(t)
      <4>. DEFINE s == task[t]  x == Minus1(s.sleep)  v == [s EXCEPT !.sleep = x]
      <4>1. Local(s) /\ task'[t] = v
        BY <3>1 DEF ProgressInv, TypesInv, KeysInv
      <4>. HIDE DEF s, x
      <4>2. v.part = s.part /\ v.same = s.same /\ v.i = s.i
        BY <4>1 DEF Local
      <4>. HIDE DEF v
      <4>3. ASSUME NEW l PROVE PartRank(v, l) = PartRank(s, l)
        BY <4>2 DEF PartRank
      <4>4. Ahead(v, stage[t]) = Ahead(s, stage[t])
        BY <4>2, <4>3 DEF Ahead
      <4>. QED BY <3>1, <4>1, <4>4 DEF Rank, s
    <3>. QED BY <2>1, <3>2
  <2>2. ASSUME NEW t \in Tasks, GeminiStep(t)
        PROVE  Rank(t)' < Rank(t) /\ \A u \in Tasks \ {t} : Rank(u)' = Rank(u)
    <3>1. \A u \in Tasks \ {t} : stage'[u] = stage[u] /\ task'[u] = task[u]
      BY <2>2, StepFits DEF ProgressInv, TypesInv, BudgetInv, InOrder
    <3>2. Falls(t)
      BY <2>2, StepFalls DEF ProgressInv, TypesInv
    <3>. QED BY <3>1, <3>2 DEF Rank, Falls
  <2>. QED BY <2>1, <2>2 DEF GeminiNext
<1>4. ProgressInv => \A t \in Tasks : Rank(t) \in 0..(126 * Keys + 125)
  <2>. SUFFICES ASSUME ProgressInv, NEW t \in Tasks PROVE Rank(t) \in 0..(126 * Keys + 125)
    OBVIOUS
  <2>. DEFINE s == task[t]  q == PartRank(s, stage[t])  n == StageRank(stage[t])
  <2>1. Local(s) /\ s.part \in Parts /\ stage[t] \in Phases
    BY DEF ProgressInv, TypesInv, KeysInv, BudgetInv, Suits, IsTask
  <2>2. q \in 0..5 /\ (stage[t] \notin Ended => n \in 1..6) /\ Rank(t) \in Nat
    BY <2>1, AheadIsNat DEF Rank
  <2>3. Rank(t) = IF stage[t] \in Ended THEN 0
                  ELSE (Keys - s.i) * 126 + (2 - s.same) * 42 + q * 7 + n
    BY DEF Rank, Ahead
  <2>4. s.i \in Nat /\ s.same \in 0..2 /\ Keys \in Nat
    BY <2>1, GeminiAssumption DEF Local
  <2>. HIDE DEF q, n, s
  <2>. QED BY <2>2, <2>3, <2>4
<1>. QED BY <1>1, <1>2, <1>3, <1>4, PTL DEF GeminiSpec, RanksFall

-----------------------------------------------------------------------------
(* A request can always go on, or waits for one that can, or for the time  *)
(* to pass.                                                                *)

\* The guards of the steps of a task: one that is met has an outcome.
Ready(t) ==
  /\ \A u \in Tasks \ {t} : stage[u] # "asking"
  /\ \/ stage[t] \in {"new", "asking", "calling"}
     \/ stage[t] \in {"cooling", "backoff"} /\ task[t].sleep = 0
     \/ queue # <<>> /\ t = Head(queue) /\ Free

\* The guard of Tick.
TimePasses == (\A t \in Tasks : stage[t] # "asking") /\ \E t \in Tasks : task[t].sleep > 0

NobodyIsStuck ==
  (\E t \in Tasks : stage[t] \notin Ended \cup {"new"}) =>
    TimePasses \/ \E t \in Tasks : stage[t] # "new" /\ Ready(t)

OneAsks == \A t, u \in Tasks : stage[t] = "asking" /\ stage[u] = "asking" => t = u

LEMMA NextAsks ==
  ASSUME BudgetInv, QueueInv, OneAsks, [GeminiNext]_geminiVars
  PROVE  OneAsks'
<1>1. ASSUME NEW t \in Tasks, GeminiStep(t) PROVE OneAsks'
  <2>1. \A u \in Tasks \ {t} : stage'[u] = stage[u] /\ stage[u] # "asking"
    BY <1>1, StepFits DEF BudgetInv, InOrder, GeminiStep
  <2>. QED BY <2>1 DEF OneAsks
<1>2. CASE stage' = stage
  BY <1>2 DEF OneAsks
<1>. QED BY <1>1, <1>2 DEF GeminiNext, Tick, geminiVars

\* While a request is under way, some request is at a step that it can take, or a pause runs: the
\* semaphore, the cooldowns and the circuits never make all of them wait.
THEOREM SomeRequestGoesOn == GeminiSpec => []NobodyIsStuck
<1>1. GeminiInit => TypesInv /\ OneAsks
  BY InitTypes DEF GeminiInit, OneAsks
<1>2. TypesInv /\ OneAsks /\ [GeminiNext]_geminiVars => TypesInv' /\ OneAsks'
  BY NextTypes, NextAsks DEF TypesInv
<1>3. TypesInv /\ OneAsks => NobodyIsStuck
  <2>. SUFFICES ASSUME TypesInv, OneAsks, NEW t \in Tasks, stage[t] \notin Ended \cup {"new"}
                PROVE  TimePasses \/ \E u \in Tasks : stage[u] # "new" /\ Ready(u)
    BY DEF NobodyIsStuck
  <2>0. \A u \in Tasks : stage[u] \in Phases /\ task[u].sleep \in Nat
    BY GeminiAssumption DEF TypesInv, BudgetInv, Suits, KeysInv, Local, Hold
  <2>1. CASE \E u \in Tasks : stage[u] = "asking"
    BY <2>1 DEF OneAsks, Ready
  <2>2. ASSUME \A u \in Tasks : stage[u] # "asking",
               NEW u \in Tasks, stage[u] \in {"cooling", "calling", "backoff"}
        PROVE  TimePasses \/ Ready(u)
    BY <2>0, <2>2 DEF TimePasses, Ready
  <2>3. CASE \A u \in Tasks : stage[u] \notin {"asking", "cooling", "calling", "backoff"}
    <3>1. stage[t] = "queued"
      BY <2>0, <2>3 DEF Phases
    <3>2. queue \in Seq(Tasks) /\ \E i \in 1..Len(queue) : queue[i] = t
      BY <3>1 DEF TypesInv, QueueInv, AllQueued
    <3>3. queue # <<>> /\ Head(queue) \in Tasks /\ stage[Head(queue)] = "queued"
      BY <3>2 DEF TypesInv, QueueInv
    <3>4. Inside = {}
      BY <2>3 DEF Inside
    <3>5. Cardinality({v \in Tasks : stage[v] \in {"cooling", "calling"}}) = 0 /\ slots \in 1..MaxSlots
      BY <3>4, FS_EmptySet DEF Inside, TypesInv, SlotsKept
    <3>6. Free
      BY <3>5, GeminiAssumption DEF Free
    <3>. QED BY <2>3, <3>3, <3>6 DEF Ready
  <2>. QED BY <2>1, <2>2, <2>3
<1>. QED BY <1>1, <1>2, <1>3, PTL DEF GeminiSpec
=============================================================================
