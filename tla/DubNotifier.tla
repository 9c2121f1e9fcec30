----------------------------- MODULE DubNotifier -----------------------------
(***************************************************************************)
(* How the owner of a project hears of its jobs: _notification_loop of     *)
(* services/dub_studio_runtime.py, the only reader of the table dub_events.*)
(*                                                                         *)
(* The loop belongs to the Telegram process.  A pass reads the oldest      *)
(* undelivered events, a bounded number of them, and handles one after the *)
(* other.  A milestone (job_progress_25 ... 90) edits the job's progress   *)
(* card, or creates it; a terminal event finalises the card and sends a    *)
(* message.  Every request to Telegram is an await: worker and users go on *)
(* meanwhile, the request may fail, may succeed although an error comes    *)
(* back, and the process may be killed before it has marked the event.     *)
(***************************************************************************)
EXTENDS Naturals, Sequences, FiniteSets

CONSTANTS
  Projects,
  Unreachable,   \* projects whose owner's chat refuses every message
  Limit,         \* events read by a pass (20 in the code)
  MaxJobs,       \* bound: jobs ever enqueued
  Milestones,    \* bound: milestones of a job (4 in the code)
  MaxCrashes,    \* bound: kills of the Telegram process
  MaxFaults      \* bound: requests that go wrong for a reachable owner

ASSUME ProjectsAssumption == Unreachable \subseteq Projects
ASSUME LimitAssumption == Limit \in Nat \ {0}
ASSUME BoundsAssumption == {MaxJobs, Milestones, MaxCrashes, MaxFaults} \subseteq Nat

VARIABLES
  inserted,   \* number of jobs enqueued, and id of the last one
  open,       \* the job each project has in work, 0 for none
  active,     \* is the project's status one of _ACTIVE_PROJECT_STATES
  half,       \* the job whose cancellation a recovery has begun, 0 for none
  events,     \* dub_events: milestones and terminal events, by id
  delivered,  \* ids of events with delivered_at
  ref,        \* dub_projects.metadata.dub_progress_message_v1
  cards,      \* progress messages in the owners' chats, by message id
  announced,  \* how often each event's message was shown to its owner
  loopAt,     \* where the loop is
  batch,      \* what is left of the pass
  current,    \* the event being handled
  crashes, faults

studio   == <<inserted, open, active, half, events>>
chats    == <<cards, announced>>
notifier == <<loopAt, batch, current>>
bounds   == <<crashes, faults>>
notifierVars == <<studio, delivered, ref, chats, notifier, bounds>>

Event == [project : Projects, job : 1..MaxJobs, kind : {"milestone", "terminal"}]
Card  == [project : Projects, job : 1..MaxJobs, text : {"progress", "final"}]
NoRef == [job |-> 0, card |-> 0]
Ids   == 1..Len(events)
ReplyPC == {"edit", "send", "finalize", "announce"}   \* a request is under way

NotifierTypeOK ==
  /\ inserted \in 0..MaxJobs
  /\ open \in [Projects -> 0..MaxJobs]
  /\ active \in [Projects -> BOOLEAN]
  /\ half \in [Projects -> 0..MaxJobs]
  /\ events \in Seq(Event)
  /\ delivered \in SUBSET Ids
  /\ ref \in [Projects -> [job : 1..MaxJobs, card : 1..Len(cards)] \cup {NoRef}]
  /\ cards \in Seq(Card)
  /\ announced \in Seq(Nat) /\ Len(announced) = Len(events)
  /\ loopAt \in {"sleep", "pass", "mark"} \cup ReplyPC
  /\ batch \in SUBSET (Ids \ delivered)
  /\ current \in Ids \cup {0}
  /\ crashes \in 0..MaxCrashes /\ faults \in 0..MaxFaults

NotifierInit ==
  /\ inserted = 0
  /\ open = [p \in Projects |-> 0] /\ half = [p \in Projects |-> 0]
  /\ active = [p \in Projects |-> FALSE]
  /\ events = <<>> /\ delivered = {}
  /\ ref = [p \in Projects |-> NoRef]
  /\ cards = <<>> /\ announced = <<>>
  /\ loopAt = "sleep" /\ batch = {} /\ current = 0
  /\ crashes = 0 /\ faults = 0

-----------------------------------------------------------------------------
(* What the rest of Dub Studio writes: module DubProject for each project, *)
(* as DubStudio implements it, and milestones.                             *)

\* DubStore.enqueue_job: the project becomes active.
Enqueue(p) ==
  /\ open[p] = 0 /\ inserted < MaxJobs
  /\ inserted' = inserted + 1
  /\ open' = [open EXCEPT ![p] = inserted']
  /\ active' = [active EXCEPT ![p] = TRUE]
  /\ UNCHANGED <<half, events, delivered, ref, chats, notifier, bounds>>

\* DubStore.claim_next_job, by a worker that has ended its recovery.
Claim(p) ==
  /\ open[p] # 0 /\ half[p] = 0
  /\ active' = [active EXCEPT ![p] = TRUE]
  /\ UNCHANGED <<inserted, open, half, events, delivered, ref, chats, notifier, bounds>>

Insert(p, j, k) ==
  /\ events' = Append(events, [project |-> p, job |-> j, kind |-> k])
  /\ announced' = Append(announced, 0)

MilestonesOf(p) ==
  {i \in Ids : events[i] = [project |-> p, job |-> open[p], kind |-> "milestone"]}

\* WorkerDubStore.update_job_progress: each milestone once per job, and only
\* while the job is started.
CrossMilestone(p) ==
  /\ open[p] # 0 /\ active[p] /\ half[p] = 0
  /\ Cardinality(MilestonesOf(p)) < Milestones
  /\ Insert(p, open[p], "milestone")
  /\ UNCHANGED <<inserted, open, active, half, delivered, ref, cards, notifier, bounds>>

\* DubStore.finish_job, and request_cancel of a queued job: the project's status
\* and the terminal event in one transaction.
Conclude(p) ==
  /\ open[p] # 0
  /\ open' = [open EXCEPT ![p] = 0]
  /\ active' = [active EXCEPT ![p] = FALSE]
  /\ Insert(p, open[p], "terminal")
  /\ UNCHANGED <<inserted, half, delivered, ref, cards, notifier, bounds>>

\* The first transaction of a recovery cancels a job that was to be stopped: the
\* project may have a new one before the second.
HalfCancel(p) ==
  /\ open[p] # 0 /\ half[p] = 0 /\ active[p]
  /\ open' = [open EXCEPT ![p] = 0]
  /\ half' = [half EXCEPT ![p] = open[p]]
  /\ active' = [active EXCEPT ![p] = FALSE]
  /\ UNCHANGED <<inserted, events, delivered, ref, chats, notifier, bounds>>

\* WorkerDubStore.recover_abandoned_jobs, the second transaction: the terminal
\* event, and the project's status whichever job it has by now.
FinishCancel(p) ==
  /\ half[p] # 0
  /\ half' = [half EXCEPT ![p] = 0]
  /\ active' = [active EXCEPT ![p] = FALSE]
  /\ Insert(p, half[p], "terminal")
  /\ UNCHANGED <<inserted, open, delivered, ref, cards, notifier, bounds>>

-----------------------------------------------------------------------------
(* A pass of the loop.                                                     *)

\* Mutant: the query does not ask for delivered_at=''.
AllEvents == Ids

Undelivered == Ids \ delivered

\* _undelivered_notification_events: ORDER BY id LIMIT.
Fetch ==
  /\ loopAt = "sleep"
  /\ loopAt' = "pass"
  /\ batch' = {i \in Undelivered : Cardinality({k \in Undelivered : k < i}) < Limit}
  /\ UNCHANGED <<studio, delivered, ref, chats, current, bounds>>

EndPass ==
  /\ loopAt = "pass" /\ batch = {}
  /\ loopAt' = "sleep"
  /\ UNCHANGED <<studio, delivered, ref, chats, batch, current, bounds>>

\* The next event of the pass.
Next1(i) == loopAt = "pass" /\ i \in batch /\ \A k \in batch : i <= k

\* Mutant: the job of the reference is not compared.
HasSomeCard(i) == ref[events[i].project] # NoRef

\* _progress_message_ref: the card of the event's job, if the project's
\* reference is to that job.
HasCard(i) == ref[events[i].project].job = events[i].job

\* _notify_progress_milestone, a project that is not active (any more).
SkipMilestone(i) ==
  /\ Next1(i) /\ events[i].kind = "milestone" /\ ~active[events[i].project]
  /\ delivered' = delivered \cup {i}
  /\ batch' = batch \ {i}
  /\ UNCHANGED <<studio, ref, chats, loopAt, current, bounds>>

\* The others wait for an answer of Telegram.
Request(i, l) ==
  /\ Next1(i)
  /\ loopAt' = l /\ batch' = batch \ {i} /\ current' = i
  /\ UNCHANGED <<studio, delivered, ref, chats, bounds>>

StartMilestone(i) ==
  /\ events[i].kind = "milestone" /\ active[events[i].project]
  /\ Request(i, IF HasCard(i) THEN "edit" ELSE "send")

StartTerminal(i) ==
  /\ events[i].kind = "terminal"
  /\ Request(i, IF HasCard(i) THEN "finalize" ELSE "announce")

-----------------------------------------------------------------------------
(* Answers.                                                                *)

Project == events[current].project
Reachable == Project \notin Unreachable

\* The pass goes on with the next event.
Proceed == loopAt' = "pass" /\ current' = 0 /\ UNCHANGED batch

\* Mutants: the exception of one event ends the pass, or the event is marked
\* although its message was refused.
FailedPass == loopAt' = "sleep" /\ batch' = {} /\ current' = 0 /\ UNCHANGED delivered
FailedMarks == Proceed /\ delivered' = delivered \cup {current}

\* except Exception in the loop: the event stays undelivered.
Failed == Proceed /\ UNCHANGED delivered

\* mark_event_delivered.
Delivered == Proceed /\ delivered' = delivered \cup {current}

\* A request that goes wrong: always for an unreachable owner, now and then
\* for the others.
GoesWrong ==
  /\ UNCHANGED crashes
  /\ IF Reachable THEN faults < MaxFaults /\ faults' = faults + 1 ELSE UNCHANGED faults

GoesWell == Reachable /\ UNCHANGED bounds

ShowOnCard(text) == cards' = [cards EXCEPT ![ref[Project].card].text = text]

NewCard == [project |-> Project, job |-> events[current].job, text |-> "progress"]

\* What the request under way does to the chat when Telegram serves it.
Served ==
  \/ loopAt = "edit" /\ ShowOnCard("progress") /\ UNCHANGED announced
  \/ loopAt = "send" /\ cards' = Append(cards, NewCard) /\ UNCHANGED announced
  \/ loopAt = "finalize" /\ ShowOnCard("final") /\ UNCHANGED announced
  \/ loopAt = "announce" /\ announced' = [announced EXCEPT ![current] = @ + 1] /\ UNCHANGED cards

\* An error comes back although a reachable chat may have been served.
PerhapsServed == (Reachable /\ Served) \/ UNCHANGED chats

\* The card shows the new percentage.  ("message is not modified", after an
\* edit that was served with an error, counts as success.)
EditOk ==
  /\ loopAt = "edit" /\ GoesWell /\ Served
  /\ Delivered
  /\ UNCHANGED <<studio, ref>>

\* _permanent_edit_failure: the card is gone, a replacement is sent.
EditImpossible ==
  /\ loopAt = "edit" /\ GoesWrong
  /\ loopAt' = "send"
  /\ UNCHANGED <<studio, delivered, ref, chats, batch, current>>

\* The card is sent, the project refers to it and the event is delivered.
SendOk ==
  /\ loopAt = "send" /\ GoesWell /\ Served
  /\ ref' = [ref EXCEPT ![Project] = [job |-> events[current].job, card |-> Len(cards')]]
  /\ Delivered
  /\ UNCHANGED studio

\* A transient error of an edit, or any error of a message.
RequestFails ==
  /\ loopAt \in {"edit", "send", "announce"} /\ GoesWrong /\ PerhapsServed
  /\ Failed
  /\ UNCHANGED <<studio, ref>>

\* _finalize_progress_card: an error is only logged.
Finalize ==
  /\ loopAt = "finalize"
  /\ (GoesWell /\ Served) \/ (GoesWrong /\ PerhapsServed)
  /\ loopAt' = "announce"
  /\ UNCHANGED <<studio, delivered, ref, batch, current>>

\* The message of the terminal event (of a generic project's success: several).
AnnounceOk ==
  /\ loopAt = "announce" /\ GoesWell /\ Served
  /\ loopAt' = "mark"
  /\ UNCHANGED <<studio, delivered, ref, batch, current>>

\* mark_event_delivered, then ensure_worker_running (DubStudio!StartWorker).
Mark ==
  /\ loopAt = "mark"
  /\ Delivered
  /\ UNCHANGED <<studio, ref, chats, bounds>>

\* get_project or mark_event_delivered raises outside of the inner try: the
\* pass is over.
StoreRaises ==
  /\ loopAt \in {"pass", "mark"} /\ faults < MaxFaults /\ faults' = faults + 1
  /\ loopAt' = "sleep" /\ batch' = {} /\ current' = 0
  /\ UNCHANGED <<studio, delivered, ref, chats, crashes>>

\* The Telegram process is killed and started again.
CrashTelegram ==
  /\ crashes < MaxCrashes /\ crashes' = crashes + 1
  /\ loopAt' = "sleep" /\ batch' = {} /\ current' = 0
  /\ (loopAt \in ReplyPC /\ PerhapsServed) \/ UNCHANGED chats
  /\ UNCHANGED <<studio, delivered, ref, faults>>

-----------------------------------------------------------------------------
Studio ==
  \E p \in Projects :
    \/ Enqueue(p) \/ Claim(p) \/ CrossMilestone(p) \/ Conclude(p)
    \/ HalfCancel(p) \/ FinishCancel(p)

Loop ==
  \/ Fetch \/ EndPass
  \/ \E i \in batch : SkipMilestone(i) \/ StartMilestone(i) \/ StartTerminal(i)
  \/ EditOk \/ EditImpossible \/ SendOk \/ RequestFails
  \/ Finalize \/ AnnounceOk \/ Mark \/ StoreRaises

NotifierNext == Studio \/ Loop \/ CrashTelegram

NotifierSpec == NotifierInit /\ [][NotifierNext]_notifierVars

\* The event loop keeps running the task, and Telegram answers.
NotifierFairSpec == NotifierSpec /\ WF_notifierVars(Loop)
-----------------------------------------------------------------------------
\* No verdict is lost: a terminal event counts as delivered only after its
\* message was shown, whatever fails and whenever the process is killed.
NoVerdictLost ==
  \A i \in delivered : events[i].kind = "terminal" => announced[i] >= 1

\* The owner hears of a verdict twice only if something went wrong in between:
\* each repetition is paid for by a kill or by a fault of its own.
RepetitionsExplained ==
  \A i \in Ids :
    announced[i] <= crashes + faults + (IF i \in delivered \/ (loopAt = "mark" /\ current = i)
                                        THEN 1 ELSE 0)

\* A card is edited and finalised only for events of the job it was made for,
\* whichever jobs the project has had since.
EditsOwnCard ==
  loopAt \in {"edit", "finalize"} =>
    LET c == ref[Project].card
    IN  /\ c \in 1..Len(cards)
        /\ cards[c].project = Project /\ cards[c].job = events[current].job

\* An event a pass tries in vain stays undelivered.  Those of them that are
\* older than an event come before it in every pass.
Ahead(i) == {k \in Undelivered : k < i /\ events[k].project \in Unreachable}

\* The verdicts that are to be brought to somebody who can be reached.
Owed == {i \in Undelivered : events[i].kind = "terminal" /\ events[i].project \notin Unreachable}

InReach == {i \in Owed : Cardinality(Ahead(i)) < Limit}

\* An owner who can be reached hears of every verdict though others cannot, as
\* long as the events of those do not fill a pass before it is its turn.
VerdictsPassOthers == []<>(InReach = {})

\* "The Telegram process ... announces completion": whoever else cannot be
\* reached, an owner who can hears of every verdict.
EveryVerdictIsAnnounced == []<>(Owed = {})

\* A finalised card is final: it never says again that the render goes on.
FinalCardStays ==
  [][\A c \in 1..Len(cards) : cards[c].text = "final" => cards'[c].text = "final"]_notifierVars
=============================================================================
