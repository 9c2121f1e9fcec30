--------------------------- MODULE GeminiCapacity ---------------------------
(***************************************************************************)
(* Requests to Gemini share one process-wide capacity state                *)
(* (services/gemini_capacity_control.py): a semaphore for heavy calls, and *)
(* for each of the domains inference and files a cooldown and a circuit.   *)
(* Two kinds of callers are modelled: gemini_generate of                   *)
(* services/gemini_router.py, which rotates the configured keys, and       *)
(* analyze_audio_gemini of services/gemini_analyze.py, which uploads the   *)
(* audio for a key and then asks for its analysis.                         *)
(*                                                                         *)
(* A step is a part of what a task does between two awaits; no other task  *)
(* runs while one asks for a slot.  Time is counted in units of the        *)
(* backoff: it is n units after the n-th failure, reaches its ceiling at   *)
(* the last one, and a circuit holds for longer than all of the backoffs   *)
(* before.                                                                 *)
(***************************************************************************)
EXTENDS Naturals, Sequences, FiniteSets, SequencesExt

CONSTANTS
  Routed, Analyses,   \* calls of gemini_generate and analyze_audio_gemini
  Keys,               \* number of configured keys
  OneProject,         \* keys, from 0 on, that are labelled as one quota domain
  MaxSlots,           \* bound of heavy_concurrency()
  Budget              \* transient_attempt_limit()

ASSUME GeminiAssumption ==
  /\ IsFiniteSet(Routed) /\ IsFiniteSet(Analyses) /\ Routed \cap Analyses = {}
  /\ Keys \in Nat \ {0} /\ OneProject \subseteq 0..(Keys - 1)
  /\ MaxSlots \in Nat \ {0} /\ Budget \in Nat \ {0}

VARIABLES
  slots,              \* the size of the semaphore, which is configured: 1 by default
  cooldown, circuit,  \* per domain, the time they have left
  queue,              \* tasks that wait for the semaphore
  stage,              \* where each task is
  task,               \* its local variables
  nextKey             \* _current_client_idx

geminiVars == <<slots, cooldown, circuit, queue, stage, task, nextKey>>

Tasks   == Routed \cup Analyses
Domains == {"inference", "files"}
Parts   == {"upload", "poll", "infer", "legacy", "low", "repair"}
Hold    == Budget + 1
Ended   == {"done", "failed", "rejected"}

GeminiTypeOK ==
  /\ cooldown \in [Domains -> 0..Hold] /\ circuit \in [Domains -> 0..Hold]
  /\ queue \in Seq(Tasks) /\ ToSet(queue) = {t \in Tasks : stage[t] = "queued"}
  /\ stage \in [Tasks -> {"new", "asking", "queued", "cooling", "calling", "backoff"} \cup Ended]
  /\ task \in [Tasks -> [part : Parts, i : 0..Keys, start : 0..(Keys - 1), same : 0..2,
                         used : [Domains -> 0..Budget], sleep : 0..Hold,
                         spent : SUBSET Domains, hits : [Domains -> Nat]]]
  /\ slots \in 1..MaxSlots /\ Cardinality({t \in Tasks : stage[t] \in {"cooling", "calling"}}) <= slots
  /\ nextKey \in 0..(Keys - 1)

GeminiInit ==
  /\ slots \in 1..MaxSlots
  /\ cooldown = [d \in Domains |-> 0] /\ circuit = [d \in Domains |-> 0]
  /\ queue = <<>> /\ stage = [t \in Tasks |-> "new"] /\ nextKey = 0
  /\ task = [t \in Tasks |->
       [part |-> IF t \in Routed THEN "infer" ELSE "upload", i |-> 0, start |-> 0, same |-> 0,
        used |-> [d \in Domains |-> 0], sleep |-> 0, spent |-> {}, hits |-> [d \in Domains |-> 0]]]

-----------------------------------------------------------------------------
(* The capacity state.                                                     *)

DomainOf(part) == IF part \in {"upload", "poll"} THEN "files" ELSE "inference"

\* _blocking_domains: an upload is of no use without inference.
Blocking(d) == IF d = "files" THEN Domains ELSE {"inference"}

CircuitOpen(d)  == \E b \in Blocking(d) : circuit[b] > 0
Later(x, y) == IF x > y THEN x ELSE y

\* note_overload after the n-th failure: the last backoff opens the circuit.
NoteOverload(n, d) ==
  /\ cooldown' = [cooldown EXCEPT ![d] = Later(@, IF n >= Budget THEN Hold ELSE n)]
  /\ circuit' = [circuit EXCEPT ![d] = IF n >= Budget THEN Hold ELSE @]

capacity == <<cooldown, circuit>>

Cooling(d) == \E b \in Blocking(d) : cooldown[b] > 0
LongestCooldown(d) ==
  CHOOSE n \in 0..Hold : /\ \E b \in Blocking(d) : cooldown[b] = n
                         /\ \A b \in Blocking(d) : cooldown[b] <= n

Domain(t) == DomainOf(task[t].part)

-----------------------------------------------------------------------------
(* The next attempt of a task with the local variables s.                  *)

Put(t, s, l) == task' = [task EXCEPT ![t] = s] /\ stage' = [stage EXCEPT ![t] = l]

Claim(s, d) == [s EXCEPT !.used[d] = @ + 1]

\* The keys that are left, without those of a project whose quota is spent.
Left(s) ==
  {j \in s.i..(Keys - 1) :
     ~ (s.spent # {} /\ (s.start + j) % Keys \in OneProject)}

First(J) == CHOOSE j \in J : \A k \in J : j <= k

\* An attempt of gemini_generate is claimed unless a circuit is open.
Attempt(t, s) ==
  IF CircuitOpen("inference") THEN Put(t, s, "rejected") ELSE Put(t, Claim(s, "inference"), "asking")

\* gemini_generate goes to a key and past those that it skips.
RouteTo(t, s) ==
  IF s.used["inference"] = Budget \/ s.i = Keys
  THEN Put(t, s, "failed") /\ UNCHANGED nextKey
  ELSE IF Left(s) = {}
  THEN Put(t, s, "failed") /\ nextKey' = s.start
  ELSE /\ nextKey' = (s.start + First(Left(s)) + 1) % Keys
       /\ Attempt(t, [s EXCEPT !.i = First(Left(s))])

\* analyze_audio_gemini goes to a key and uploads the audio for it.
UploadTo(t, s) ==
  /\ UNCHANGED nextKey
  /\ IF (\E d \in Domains : s.used[d] = Budget) \/ Left(s) = {}
     THEN Put(t, s, "failed")
     ELSE Put(t, Claim([s EXCEPT !.i = First(Left(s)), !.same = 0, !.part = "upload"], "files"),
              "asking")

Additional == {"low", "repair"}

\* Without a first answer that is of use there is none at all; the repair of
\* the timestamps is optional.
EndExtra(t, s) == Put(t, s, IF s.part = "low" THEN "failed" ELSE "done")

\* Mutant: every key has a budget of its own.
BudgetPerKey(t, s) ==
  LET n == [s EXCEPT !.i = @ + 1, !.same = 0, !.used = [d \in Domains |-> 0]] IN
  IF t \in Routed THEN RouteTo(t, n) ELSE UploadTo(t, n)

\* The for loop goes on with the next key.
NextClient(t, s) ==
  LET n == [s EXCEPT !.i = @ + 1, !.same = 0] IN
  IF t \in Routed THEN RouteTo(t, n) ELSE UploadTo(t, n)

StartRequest(t) ==
  /\ stage[t] = "new"
  /\ \/ CircuitOpen("inference") /\ Put(t, task[t], "rejected") /\ UNCHANGED nextKey
     \/ /\ ~CircuitOpen("inference")
        /\ IF t \in Routed THEN RouteTo(t, [task[t] EXCEPT !.start = nextKey])
           ELSE UploadTo(t, task[t])
  /\ UNCHANGED <<slots, capacity, queue>>

-----------------------------------------------------------------------------
(* heavy_gemini_slot.                                                      *)

\* GeminiCapacityCircuitOpen in gemini_generate: the attempt is refunded.
Refunded(s) == [s EXCEPT !.used["inference"] = @ - 1]

\* In analyze_audio_gemini the text of the same exception, which contains 503,
\* passes for an overload of Gemini.
Overloaded(t, s) ==
  LET d == DomainOf(s.part) IN
  CASE s.part \in Additional ->
         NoteOverload(1, d) /\ EndExtra(t, s) /\ UNCHANGED nextKey
    [] s.part \in {"upload", "poll"} ->
         /\ NoteOverload(s.used[d], d) /\ UNCHANGED nextKey
         /\ IF s.used[d] = Budget THEN Put(t, s, "failed")
            ELSE Put(t, [s EXCEPT !.sleep = s.used[d], !.i = @ + 1, !.part = "upload"],
                     "backoff")
    [] OTHER ->
         /\ NoteOverload(s.used[d], d)
         /\ IF s.used[d] = Budget THEN Put(t, s, "failed") /\ UNCHANGED nextKey
            ELSE IF s.same = 0
            THEN Put(t, [s EXCEPT !.sleep = s.used[d], !.same = 1], "backoff") /\ UNCHANGED nextKey
            ELSE NextClient(t, s)

\* A circuit is open: no request is made.
Refuse(t) ==
  IF t \in Routed
  THEN /\ Put(t, Refunded(task[t]), "rejected") /\ UNCHANGED capacity
       /\ nextKey' = IF Refunded(task[t]).used["inference"] = 0 THEN task[t].start ELSE nextKey
  ELSE Overloaded(t, task[t])

\* Before the semaphore.
Ask(t) ==
  /\ stage[t] = "asking"
  /\ \/ CircuitOpen(Domain(t)) /\ Refuse(t) /\ UNCHANGED queue
     \/ /\ ~CircuitOpen(Domain(t)) /\ stage' = [stage EXCEPT ![t] = "queued"]
        /\ queue' = Append(queue, t) /\ UNCHANGED <<capacity, task, nextKey>>
  /\ UNCHANGED slots

\* Mutant: a request that ends with an exception keeps its slot.
FreeUnlessRaised ==
  Cardinality({t \in Tasks : stage[t] \in {"cooling", "calling", "failed", "rejected"}}) < slots

Free == Cardinality({t \in Tasks : stage[t] \in {"cooling", "calling"}}) < slots

\* The semaphore is acquired; _respect_capacity_state looks at the circuit and
\* waits for the cooldown.
Enter(t) ==
  /\ queue # <<>> /\ t = Head(queue) /\ Free /\ queue' = Tail(queue)
  /\ \/ CircuitOpen(Domain(t)) /\ Refuse(t)
     \/ /\ ~CircuitOpen(Domain(t)) /\ Cooling(Domain(t))
        /\ Put(t, [task[t] EXCEPT !.sleep = LongestCooldown(Domain(t))], "cooling")
        /\ UNCHANGED <<capacity, nextKey>>
     \/ /\ ~CircuitOpen(Domain(t)) /\ ~Cooling(Domain(t))
        /\ stage' = [stage EXCEPT ![t] = "calling"] /\ UNCHANGED <<capacity, task, nextKey>>
  /\ UNCHANGED slots

\* Mutant: the circuit is not looked at again.
CalledBlindly(t) ==
  /\ stage[t] = "cooling" /\ task[t].sleep = 0
  /\ stage' = [stage EXCEPT ![t] = "calling"]
  /\ UNCHANGED <<slots, capacity, queue, task, nextKey>>

\* After the cooldown the circuit is looked at once more.
Cooled(t) ==
  /\ stage[t] = "cooling" /\ task[t].sleep = 0
  /\ \/ CircuitOpen(Domain(t)) /\ Refuse(t)
     \/ /\ ~CircuitOpen(Domain(t)) /\ stage' = [stage EXCEPT ![t] = "calling"]
        /\ UNCHANGED <<capacity, task, nextKey>>
  /\ UNCHANGED <<slots, queue>>

-----------------------------------------------------------------------------
(* The answers of Gemini.                                                  *)

Hit(s) == [s EXCEPT !.hits[DomainOf(s.part)] = @ + 1]

\* gemini_generate is done, unless its caller rejects the answer: then the next
\* key is asked.
Answered(t) ==
  /\ stage[t] = "calling" /\ t \in Routed
  /\ \/ Put(t, task[t], "done") /\ UNCHANGED nextKey
     \/ NextClient(t, task[t])
  /\ UNCHANGED <<slots, capacity, queue>>

\* An upload may still be processed, then it is asked for once more (bound: the
\* code asks until its deadline, which is a timeout); then comes the analysis, and perhaps a
\* second one with less thinking and a repair of its timestamps.
Success(t) ==
  /\ stage[t] = "calling" /\ t \in Analyses
  /\ LET s == task[t] IN
     \/ /\ s.part \in {"upload", "poll"}
        /\ \/ s.part = "upload" /\ Put(t, [s EXCEPT !.part = "poll"], "backoff")
           \/ Put(t, Claim([s EXCEPT !.part = "infer"], "inference"), "asking")
           \/ Put(t, s, "failed")
     \/ /\ s.part \in {"infer", "legacy", "low"}
        /\ \/ Put(t, s, "done")
           \/ s.part # "low" /\ Put(t, [s EXCEPT !.part = "low"], "asking")
           \/ Put(t, [s EXCEPT !.part = "repair"], "asking")
     \/ s.part = "repair" /\ Put(t, s, "done")
  /\ UNCHANGED <<slots, capacity, queue, nextKey>>

\* 429, perhaps of the whole project: on to the next key at once.
Quota(t) ==
  /\ stage[t] = "calling"
  /\ \E p \in BOOLEAN :
       LET s == Hit(task[t])
           k == (s.start + s.i) % Keys
           n == [s EXCEPT !.spent = IF p /\ k \in OneProject THEN @ \cup {Domain(t)} ELSE @]
       IN IF s.part \in Additional THEN EndExtra(t, s) /\ UNCHANGED nextKey ELSE NextClient(t, n)
  /\ UNCHANGED <<slots, capacity, queue>>

\* 503: the overload is published, and the key tried once more after a pause.
Overload(t) ==
  /\ stage[t] = "calling" /\ Overloaded(t, Hit(task[t]))
  /\ UNCHANGED <<slots, queue>>

\* A timeout uses up the budget, too, but says nothing of Gemini.
Timeout(t) ==
  /\ stage[t] = "calling"
  /\ LET s == Hit(task[t]) IN
     CASE s.part \in Additional -> EndExtra(t, s) /\ UNCHANGED nextKey
       [] s.part \in {"upload", "poll"} -> NextClient(t, s)
       [] OTHER -> IF s.used["inference"] = Budget THEN Put(t, s, "failed") /\ UNCHANGED nextKey
                   ELSE IF s.same = 0
                   THEN /\ Put(t, [s EXCEPT !.sleep = s.used["inference"], !.same = 1], "backoff")
                        /\ UNCHANGED nextKey
                   ELSE NextClient(t, s)
  /\ UNCHANGED <<slots, capacity, queue>>

\* Any other error ends the request; an analysis asks without a schema first.
OtherError(t) ==
  /\ stage[t] = "calling"
  /\ CASE t \in Analyses /\ task[t].part = "infer" ->
            Put(t, [task[t] EXCEPT !.part = "legacy"], "asking")
       [] task[t].part \in Additional -> EndExtra(t, task[t])
       [] OTHER -> Put(t, task[t], "failed")
  /\ UNCHANGED <<slots, capacity, queue, nextKey>>

\* After its backoff a task makes its next attempt, with the same key or, after
\* a failed upload, with the next; or it asks for the state of its upload.
Retry(t) ==
  /\ stage[t] = "backoff" /\ task[t].sleep = 0
  /\ CASE t \in Routed -> Attempt(t, task[t]) /\ UNCHANGED nextKey
       [] t \in Analyses /\ task[t].part = "upload" -> UploadTo(t, task[t])
       [] t \in Analyses /\ task[t].part = "poll" -> Put(t, task[t], "asking") /\ UNCHANGED nextKey
       [] OTHER -> /\ Put(t, Claim([task[t] EXCEPT !.part = "infer"], "inference"), "asking")
                   /\ UNCHANGED nextKey
  /\ UNCHANGED <<slots, capacity, queue>>

-----------------------------------------------------------------------------

Minus1(n) == IF n = 0 THEN 0 ELSE n - 1

\* One unit of time.
Tick ==
  /\ cooldown' = [d \in Domains |-> Minus1(cooldown[d])]
  /\ circuit' = [d \in Domains |-> Minus1(circuit[d])]
  /\ task' = [t \in Tasks |-> [task[t] EXCEPT !.sleep = Minus1(@)]]
  /\ \A t \in Tasks : stage[t] # "asking"
  /\ <<cooldown, circuit, task>>' # <<cooldown, circuit, task>>
  /\ UNCHANGED <<slots, queue, stage, nextKey>>

GeminiStep(t) ==
  /\ \A u \in Tasks \ {t} : stage[u] # "asking"
  /\ \/ StartRequest(t) \/ Ask(t) \/ Enter(t) \/ Cooled(t) \/ Answered(t) \/ Success(t)
     \/ Quota(t) \/ Overload(t) \/ Timeout(t) \/ OtherError(t) \/ Retry(t)

GeminiNext == Tick \/ \E t \in Tasks : GeminiStep(t)

GeminiSpec == GeminiInit /\ [][GeminiNext]_geminiVars

\* Time passes and every task runs; a call has a timeout.
GeminiFairness == WF_geminiVars(Tick) /\ \A t \in Tasks : WF_geminiVars(GeminiStep(t))

-----------------------------------------------------------------------------
(* Properties.                                                             *)

\* Whatever the number of keys, and however often a claim was refunded, a
\* request meets Gemini's transient failures at most as often as it has
\* attempts, and once more in an additional request.
NoRetryStorm ==
  \A t \in Tasks : \A d \in Domains :
    task[t].hits[d] <= Budget + (IF t \in Analyses /\ d = "inference" THEN 1 ELSE 0)

\* No call goes out while a circuit that blocks it is open, nor, with one slot,
\* in a cooldown: what was read before a wait is read again, or cannot have
\* changed.
CallsRespectCapacity ==
  [][\A t \in Tasks : stage[t] # "calling" /\ stage'[t] = "calling" =>
       ~CircuitOpen(Domain(t)) /\ (slots = 1 => ~Cooling(Domain(t)))]_geminiVars

\* Every request ends: there are finitely many, so a moment comes, at whatever time
\* one looks, when none is under way.
EveryRequestAnswered ==
  []<>(\A t \in Tasks : stage[t] \in Ended \cup {"new"})
=============================================================================
