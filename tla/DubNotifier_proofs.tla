------------------------- MODULE DubNotifier_proofs -------------------------
(***************************************************************************)
(* What the notification loop guarantees for any number of projects, jobs, *)
(* milestones, kills and faults, and for any Limit: no verdict is lost,    *)
(* repetitions are explained, and cards are edited for their own job.  And *)
(* what the module supposes of a project is what DubProject says.          *)
(***************************************************************************)
EXTENDS DubNotifier, SequenceTheorems, TLAPS

\* The loop waits for the answer to a request about an undelivered event that
\* is out of the batch, and of the kind the request is for.
RequestInv ==
  loopAt \in ReplyPC \cup {"mark"} =>
    /\ current \in Ids \ (delivered \cup batch)
    /\ events[current].kind = IF loopAt \in {"edit", "send"} THEN "milestone" ELSE "terminal"

\* A project refers to a card of the job that it names.
RefInv ==
  \A p \in Projects : ref[p] # NoRef =>
    cards[ref[p].card].project = p /\ cards[ref[p].card].job = ref[p].job

\* A card is being edited only if the reference names the event's job.
EditInv == loopAt \in {"edit", "finalize"} => HasCard(current)

\* Only a verdict that was shown is about to be marked.
MarkInv == loopAt = "mark" => announced[current] >= 1

IInv ==
  /\ NotifierTypeOK /\ RequestInv /\ RefInv /\ EditInv /\ MarkInv
  /\ NoVerdictLost /\ RepetitionsExplained

\* What an answer can have done to the chats: cards keep their job, and only
\* the current event's message may have been shown once more.
ChatsGrow ==
  /\ cards' \in Seq(Card) /\ Len(cards) <= Len(cards')
  /\ \A c \in 1..Len(cards) : cards'[c].project = cards[c].project /\ cards'[c].job = cards[c].job
  /\ announced' \in Seq(Nat) /\ Len(announced') = Len(announced)
  /\ \A i \in Ids :
       \/ announced'[i] = announced[i]
       \/ loopAt = "announce" /\ i = current /\ announced'[i] = announced[i] + 1

\* Nobody has a job.
LEMMA InitIInv == NotifierInit => IInv
  BY BoundsAssumption
  DEF NotifierInit, IInv, NotifierTypeOK, RequestInv, RefInv, EditInv, MarkInv, NoVerdictLost,
      RepetitionsExplained, ReplyPC, Ids, NoRef

\* Events and cards are records of their types.
LEMMA Fields ==
  /\ \A e \in Event : /\ e.project \in Projects /\ e.job \in 1..MaxJobs
                      /\ e.kind \in {"milestone", "terminal"}
  /\ \A c \in Card, t \in {"progress", "final"} :
       /\ [c EXCEPT !.text = t] \in Card
       /\ [c EXCEPT !.text = t].project = c.project
       /\ [c EXCEPT !.text = t].job = c.job
  /\ \A p \in Projects, j \in 1..MaxJobs :
       /\ [project |-> p, job |-> j, text |-> "progress"] \in Card
       /\ \A k \in {"milestone", "terminal"} : [project |-> p, job |-> j, kind |-> k] \in Event
  BY DEF Event, Card

\* The event that a request is about.
LEMMA CurrentEvent == IInv /\ loopAt \in ReplyPC \cup {"mark"} =>
  /\ current \in Ids \ (delivered \cup batch)
  /\ events[current] \in Event /\ Project \in Projects /\ events[current].job \in 1..MaxJobs
<1> SUFFICES ASSUME IInv, loopAt \in ReplyPC \cup {"mark"}
    PROVE /\ current \in Ids \ (delivered \cup batch)
          /\ events[current] \in Event /\ Project \in Projects
          /\ events[current].job \in 1..MaxJobs
  OBVIOUS
<1>1. current \in Ids \ (delivered \cup batch)  BY DEF IInv, RequestInv
<1>2. events[current] \in Event  BY <1>1 DEF IInv, NotifierTypeOK, Ids
<1> QED  BY <1>1, <1>2, Fields DEF Project

\* The reference of a project that is being edited names a card.
LEMMA EditedCard == IInv /\ loopAt \in {"edit", "finalize"} =>
  /\ Project \in Projects /\ ref[Project] # NoRef
  /\ ref[Project].card \in 1..Len(cards)
<1> SUFFICES ASSUME IInv, loopAt \in {"edit", "finalize"}
    PROVE /\ Project \in Projects /\ ref[Project] # NoRef
          /\ ref[Project].card \in 1..Len(cards)
  OBVIOUS
<1>1. Project \in Projects /\ events[current].job \in 1..MaxJobs  BY CurrentEvent DEF ReplyPC
<1>2. ref[Project].job = events[current].job  BY DEF IInv, EditInv, HasCard, Project
<1>3. ref[Project] # NoRef  BY <1>1, <1>2 DEF NoRef
<1>4. ref[Project] \in [job : 1..MaxJobs, card : 1..Len(cards)]
  BY <1>1, <1>3 DEF IInv, NotifierTypeOK
<1> QED  BY <1>1, <1>3, <1>4

\* A served request changes the chats only as stated.
LEMMA ServedGrows == IInv /\ Served => ChatsGrow
<1> SUFFICES ASSUME IInv, Served PROVE ChatsGrow  OBVIOUS
<1>0. /\ cards \in Seq(Card) /\ announced \in Seq(Nat) /\ Len(announced) = Len(events)
      /\ events \in Seq(Event) /\ Len(events) \in Nat /\ Len(cards) \in Nat
  BY DEF IInv, NotifierTypeOK
<1>1. ASSUME loopAt = "send", cards' = Append(cards, NewCard), UNCHANGED announced PROVE ChatsGrow
  <2>1. NewCard \in Card
    BY <1>1, CurrentEvent, Fields DEF ReplyPC, NewCard
  <2>2. /\ cards' \in Seq(Card) /\ Len(cards') = Len(cards) + 1
        /\ \A c \in 1..Len(cards) : cards'[c] = cards[c]
    BY <1>0, <1>1, <2>1, AppendProperties
  <2> QED  BY <1>0, <1>1, <2>2 DEF ChatsGrow
<1>2. ASSUME NEW t \in {"progress", "final"}, loopAt \in {"edit", "finalize"}, ShowOnCard(t),
             UNCHANGED announced
      PROVE ChatsGrow
  <2> DEFINE c == ref[Project].card
             d == [cards[c] EXCEPT !.text = t]
  <2>1. c \in 1..Len(cards)  BY <1>2, EditedCard
  <2>2. d \in Card /\ d.project = cards[c].project /\ d.job = cards[c].job
    <3>1. cards[c] \in Card  BY <1>0, <2>1
    <3> QED  BY <3>1, Fields
  <2>3. cards' = [cards EXCEPT ![c] = d]  BY <1>2, <1>0, <2>1 DEF ShowOnCard
  <2>4. /\ cards' \in Seq(Card) /\ Len(cards') = Len(cards)
        /\ \A k \in 1..Len(cards) : cards'[k] = IF k = c THEN d ELSE cards[k]
    <3> HIDE DEF c, d
    <3> QED  BY <1>0, <2>1, <2>2, <2>3, ExceptSeq
  <2> HIDE DEF d
  <2> QED  BY <1>0, <1>2, <2>1, <2>2, <2>4 DEF ChatsGrow
<1>3. ASSUME loopAt = "announce", announced' = [announced EXCEPT ![current] = @ + 1], UNCHANGED cards
      PROVE ChatsGrow
  <2>1. current \in 1..Len(announced)  BY <1>0, <1>3 DEF IInv, RequestInv, ReplyPC, Ids
  <2>2. announced[current] + 1 \in Nat  BY <1>0, <2>1
  <2>3. /\ announced' \in Seq(Nat) /\ Len(announced') = Len(announced)
        /\ \A i \in 1..Len(announced) :
             announced'[i] = IF i = current THEN announced[current] + 1 ELSE announced[i]
    BY <1>0, <1>3, <2>1, <2>2, ExceptSeq
  <2> QED  BY <1>0, <1>3, <2>3 DEF ChatsGrow, Ids
<1> QED  BY <1>1, <1>2, <1>3 DEF Served

\* Untouched chats are a special case.
LEMMA UnchangedGrows == IInv /\ UNCHANGED chats => ChatsGrow
  BY DEF IInv, NotifierTypeOK, ChatsGrow, chats
\* A new event is undelivered and unshown, the others are as they were.
LEMMA InsertFacts ==
  ASSUME IInv, NEW p \in Projects, NEW j \in 1..MaxJobs, NEW k \in {"milestone", "terminal"},
         Insert(p, j, k)
  PROVE  /\ events' \in Seq(Event) /\ announced' \in Seq(Nat)
         /\ Len(events') = Len(events) + 1 /\ Len(announced') = Len(events) + 1
         /\ \A i \in Ids : events'[i] = events[i] /\ announced'[i] = announced[i]
         /\ announced'[Len(events) + 1] = 0
<1>1. [project |-> p, job |-> j, kind |-> k] \in Event  BY Fields
<1>2. /\ events \in Seq(Event) /\ announced \in Seq(Nat)
      /\ Len(announced) = Len(events) /\ Len(events) \in Nat
  BY DEF IInv, NotifierTypeOK
<1>3. /\ events' \in Seq(Event) /\ Len(events') = Len(events) + 1
      /\ \A i \in Ids : events'[i] = events[i]
  BY <1>1, <1>2, AppendProperties DEF Insert, Ids
<1>4. /\ announced' \in Seq(Nat) /\ Len(announced') = Len(announced) + 1
      /\ \A i \in Ids : announced'[i] = announced[i]
      /\ announced'[Len(announced) + 1] = 0
  BY <1>2, AppendProperties DEF Insert, Ids
<1> QED  BY <1>2, <1>3, <1>4

\* What the rest of the studio writes disturbs no request and no count: new jobs
\* and statuses, or an event more.
LEMMA StudioStep == IInv /\ Studio => IInv'
<1> SUFFICES ASSUME IInv, Studio PROVE IInv'  OBVIOUS
<1>0. /\ Len(events) \in Nat /\ crashes \in Nat /\ faults \in Nat
      /\ inserted \in 0..MaxJobs /\ open \in [Projects -> 0..MaxJobs]
      /\ active \in [Projects -> BOOLEAN] /\ half \in [Projects -> 0..MaxJobs] /\ MaxJobs \in Nat
  BY BoundsAssumption DEF IInv, NotifierTypeOK
<1> DEFINE Typed == /\ inserted' \in 0..MaxJobs /\ open' \in [Projects -> 0..MaxJobs]
                    /\ active' \in [Projects -> BOOLEAN] /\ half' \in [Projects -> 0..MaxJobs]
<1>1. ASSUME Typed, UNCHANGED <<events, delivered, ref, chats, notifier, bounds>> PROVE IInv'
  BY <1>1 DEF IInv, chats, notifier, bounds, Ids, NotifierTypeOK, RequestInv, RefInv, EditInv, HasCard,
              MarkInv, NoVerdictLost, RepetitionsExplained
<1>2. ASSUME NEW p \in Projects, NEW j \in 1..MaxJobs, NEW k \in {"milestone", "terminal"},
             Insert(p, j, k), Typed, UNCHANGED <<delivered, ref, cards, notifier, bounds>>
      PROVE IInv'
  <2>0. /\ events' \in Seq(Event) /\ announced' \in Seq(Nat)
        /\ Len(events') = Len(events) + 1 /\ Len(announced') = Len(events) + 1
        /\ \A i \in Ids : events'[i] = events[i] /\ announced'[i] = announced[i]
        /\ announced'[Len(events) + 1] = 0
    BY <1>2, InsertFacts
  <2>00. Ids' = Ids \cup {Len(events) + 1} /\ Len(events) + 1 \notin Ids
    BY <1>0, <2>0 DEF Ids
  <2>000. Typed /\ UNCHANGED <<delivered, ref, cards, loopAt, batch, current, crashes, faults>>
    BY <1>2 DEF notifier, bounds
  <2> USE <1>0, <2>0, <2>00, <2>000 DEF IInv, ReplyPC
  <2>1. NotifierTypeOK'  BY DEF NotifierTypeOK
  <2> HIDE DEF Typed
  <2>2. RequestInv'  BY DEF RequestInv
  <2>3. RefInv'  BY DEF RefInv
  <2>4. EditInv'  BY DEF EditInv, HasCard, RequestInv
  <2>5. MarkInv'  BY DEF MarkInv, RequestInv
  <2>6. NoVerdictLost'  BY DEF NoVerdictLost, NotifierTypeOK
  <2>7. RepetitionsExplained'
    <3>1. ASSUME NEW i \in Ids
          PROVE announced'[i] <= crashes' + faults' + (IF i \in delivered' \/ (loopAt' = "mark" /\ current' = i)
                                                      THEN 1 ELSE 0)
      BY <3>1 DEF RepetitionsExplained
    <3>2. crashes \in Nat /\ faults \in Nat  BY DEF NotifierTypeOK
    <3> QED  BY <3>1, <3>2 DEF RepetitionsExplained
  <2> QED  BY <2>1, <2>2, <2>3, <2>4, <2>5, <2>6, <2>7 DEF IInv
<1>3. \A p \in Projects : /\ open[p] # 0 => open[p] \in 1..MaxJobs
                          /\ half[p] # 0 => half[p] \in 1..MaxJobs
  BY <1>0
<1>4. ASSUME NEW p \in Projects, Enqueue(p) PROVE IInv'
  BY <1>0, <1>1, <1>4 DEF Enqueue
<1>5. ASSUME NEW p \in Projects, Claim(p) PROVE IInv'
  BY <1>0, <1>1, <1>5 DEF Claim
<1>6. ASSUME NEW p \in Projects, CrossMilestone(p) PROVE IInv'
  BY <1>0, <1>2, <1>3, <1>6 DEF CrossMilestone
<1>7. ASSUME NEW p \in Projects, Conclude(p) PROVE IInv'
  <2>1. Typed  BY <1>0, <1>7 DEF Conclude
  <2>2. open[p] \in 1..MaxJobs /\ Insert(p, open[p], "terminal")  BY <1>3, <1>7 DEF Conclude
  <2>3. UNCHANGED <<delivered, ref, cards, notifier, bounds>>  BY <1>7 DEF Conclude
  <2> HIDE DEF Typed
  <2> QED  BY <1>2, <2>1, <2>2, <2>3
<1>8. ASSUME NEW p \in Projects, HalfCancel(p) PROVE IInv'
  BY <1>0, <1>1, <1>8 DEF HalfCancel
<1>9. ASSUME NEW p \in Projects, FinishCancel(p) PROVE IInv'
  BY <1>0, <1>2, <1>3, <1>9 DEF FinishCancel
<1> QED  BY <1>4, <1>5, <1>6, <1>7, <1>8, <1>9 DEF Studio

\* Reading a batch, and taking an event from it.
LEMMA BatchStep ==
  IInv /\ (Fetch \/ EndPass \/ \E i \in batch : SkipMilestone(i) \/ StartMilestone(i) \/ StartTerminal(i))
    => IInv'
<1> SUFFICES ASSUME IInv,
      Fetch \/ EndPass \/ \E i \in batch : SkipMilestone(i) \/ StartMilestone(i) \/ StartTerminal(i)
    PROVE IInv'
  OBVIOUS
<1> USE DEF IInv, studio, chats, bounds, ReplyPC, Ids, NotifierTypeOK, RequestInv, RefInv, EditInv, HasCard,
            MarkInv, NoVerdictLost, RepetitionsExplained
<1>1. CASE Fetch
  <2> USE <1>1 DEF Fetch, Undelivered
  <2>1. NotifierTypeOK'  OBVIOUS
  <2>2. RequestInv'  OBVIOUS
  <2>3. RefInv'  OBVIOUS
  <2>4. EditInv'  OBVIOUS
  <2>5. MarkInv'  OBVIOUS
  <2>6. NoVerdictLost'  OBVIOUS
  <2>7. RepetitionsExplained'  OBVIOUS
  <2> QED  BY <2>1, <2>2, <2>3, <2>4, <2>5, <2>6, <2>7 DEF IInv
<1>2. CASE EndPass
  <2> USE <1>2 DEF EndPass
  <2>1. NotifierTypeOK'  OBVIOUS
  <2>2. RequestInv'  OBVIOUS
  <2>3. RefInv'  OBVIOUS
  <2>4. EditInv'  OBVIOUS
  <2>5. MarkInv'  OBVIOUS
  <2>6. NoVerdictLost'  OBVIOUS
  <2>7. RepetitionsExplained'  OBVIOUS
  <2> QED  BY <2>1, <2>2, <2>3, <2>4, <2>5, <2>6, <2>7 DEF IInv
<1>3. ASSUME NEW i \in batch, SkipMilestone(i) PROVE IInv'
  <2> USE <1>3 DEF SkipMilestone, Next1
  <2>1. NotifierTypeOK'  BY SMTT(30)
  <2>2. RequestInv'  OBVIOUS
  <2>3. RefInv'  OBVIOUS
  <2>4. EditInv'  OBVIOUS
  <2>5. MarkInv'  OBVIOUS
  <2>6. NoVerdictLost'  OBVIOUS
  <2>7. RepetitionsExplained'  BY SMTT(30)
  <2> QED  BY <2>1, <2>2, <2>3, <2>4, <2>5, <2>6, <2>7 DEF IInv
<1>4. ASSUME NEW i \in batch, StartMilestone(i) PROVE IInv'
  <2> USE <1>4 DEF StartMilestone, Request, Next1
  <2>1. NotifierTypeOK'  OBVIOUS
  <2>2. RequestInv'  OBVIOUS
  <2>3. RefInv'  OBVIOUS
  <2>4. EditInv'  OBVIOUS
  <2>5. MarkInv'  OBVIOUS
  <2>6. NoVerdictLost'  OBVIOUS
  <2>7. RepetitionsExplained'  OBVIOUS
  <2> QED  BY <2>1, <2>2, <2>3, <2>4, <2>5, <2>6, <2>7 DEF IInv
<1>5. ASSUME NEW i \in batch, StartTerminal(i) PROVE IInv'
  <2> USE <1>5 DEF StartTerminal, Request, Next1
  <2>1. NotifierTypeOK'  OBVIOUS
  <2>2. RequestInv'  OBVIOUS
  <2>3. RefInv'  OBVIOUS
  <2>4. EditInv'  OBVIOUS
  <2>5. MarkInv'  OBVIOUS
  <2>6. NoVerdictLost'  OBVIOUS
  <2>7. RepetitionsExplained'  OBVIOUS
  <2> QED  BY <2>1, <2>2, <2>3, <2>4, <2>5, <2>6, <2>7 DEF IInv
<1> QED  BY <1>1, <1>2, <1>3, <1>4, <1>5
\* An answer keeps the count of repetitions if a message shown once more is
\* about to be marked or is paid for, and if a mark forgotten is paid for.
LEMMA CountStep ==
  ASSUME IInv, ChatsGrow, UNCHANGED events, delivered \subseteq delivered',
         crashes' \in Nat, faults' \in Nat, crashes + faults <= crashes' + faults',
         \A i \in Ids : announced'[i] # announced[i] =>
           crashes' + faults' > crashes + faults \/ (loopAt' = "mark" /\ current' = i),
         loopAt = "mark" => current \in delivered' \/ crashes' + faults' > crashes + faults
  PROVE  RepetitionsExplained'
<1>0. crashes \in Nat /\ faults \in Nat /\ Ids' = Ids /\ \A i \in Ids : announced[i] \in Nat
  BY SMTT(30), BoundsAssumption DEF IInv, NotifierTypeOK, Ids
<1> SUFFICES ASSUME NEW i \in Ids
    PROVE announced'[i] <= crashes' + faults'
                             + (IF i \in delivered' \/ (loopAt' = "mark" /\ current' = i) THEN 1 ELSE 0)
  BY <1>0 DEF RepetitionsExplained
<1>1. announced[i] <= crashes + faults
                        + (IF i \in delivered \/ (loopAt = "mark" /\ current = i) THEN 1 ELSE 0)
  BY DEF IInv, RepetitionsExplained
<1>2. CASE announced'[i] = announced[i]
  BY <1>0, <1>1, <1>2
<1>3. CASE announced'[i] # announced[i]
  <2>1. loopAt = "announce" /\ i = current /\ announced'[i] = announced[i] + 1
    BY <1>3 DEF ChatsGrow
  <2>2. i \notin delivered  BY <2>1 DEF IInv, RequestInv, ReplyPC
  <2>3. announced[i] <= crashes + faults  BY <1>0, <1>1, <2>1, <2>2
  <2>4. \A a, m, n \in Nat : a <= m /\ m < n => a + 1 <= n  OBVIOUS
  <2>5. \A a, m, n \in Nat : a <= m /\ m <= n => a + 1 <= n + 1  OBVIOUS
  <2>6. crashes + faults \in Nat /\ crashes' + faults' \in Nat /\ announced[i] \in Nat
    <3>1. crashes \in Nat /\ faults \in Nat  BY <1>0
    <3>2. \A m, n \in Nat : m + n \in Nat  OBVIOUS
    <3>3. crashes + faults \in Nat  BY <3>1, <3>2
    <3>4. crashes' + faults' \in Nat  BY <3>2
    <3>5. announced[i] \in Nat  BY <1>0
    <3> QED  BY <3>3, <3>4, <3>5
  <2>7. CASE crashes' + faults' > crashes + faults
    <3>1. announced[i] + 1 <= crashes' + faults'  BY <2>3, <2>4, <2>6, <2>7
    <3>2. announced'[i] \in Nat /\ announced'[i] <= crashes' + faults'  BY <2>1, <2>6, <3>1
    <3> QED  BY <2>6, <3>2
  <2>8. CASE loopAt' = "mark" /\ current' = i
    <3>1. announced[i] + 1 <= crashes' + faults' + 1  BY <2>3, <2>5, <2>6
    <3> QED  BY <2>1, <2>8, <3>1
  <2> QED  BY <1>3, <2>7, <2>8
<1> QED  BY <1>2, <1>3

\* Answers of Telegram, marks, and what ends a pass.
LEMMA AnswerStep ==
  IInv /\ (\/ EditOk \/ EditImpossible \/ SendOk \/ RequestFails \/ Finalize \/ AnnounceOk
           \/ Mark \/ StoreRaises \/ CrashTelegram)
    => IInv'
<1> SUFFICES ASSUME IInv,
      \/ EditOk \/ EditImpossible \/ SendOk \/ RequestFails \/ Finalize \/ AnnounceOk
      \/ Mark \/ StoreRaises \/ CrashTelegram
    PROVE IInv'
  OBVIOUS
<1>00. /\ Len(events) \in Nat /\ Len(cards) \in Nat /\ MaxJobs \in Nat
       /\ crashes \in Nat /\ faults \in Nat /\ MaxCrashes \in Nat /\ MaxFaults \in Nat
  BY BoundsAssumption DEF IInv, NotifierTypeOK
<1>0. \A i \in Ids : announced[i] \in Nat  BY DEF IInv, NotifierTypeOK, Ids
<1>S. Served => ChatsGrow  BY ServedGrows
<1>U. UNCHANGED chats => ChatsGrow  BY UnchangedGrows
<1>P. PerhapsServed => ChatsGrow  BY <1>S, <1>U DEF PerhapsServed
<1>R. PerhapsServed => Reachable \/ UNCHANGED chats  BY DEF PerhapsServed
<1>G. GoesWell => Reachable /\ crashes' = crashes /\ faults' = faults  BY DEF GoesWell, bounds
<1>W. GoesWrong =>
        /\ crashes' = crashes /\ faults' \in 0..MaxFaults /\ faults <= faults'
        /\ Reachable => faults' = faults + 1
  BY <1>00 DEF GoesWrong, IInv, NotifierTypeOK
<1>A. loopAt = "announce" /\ Served => announced'[current] = announced[current] + 1
  BY CurrentEvent DEF Served, ReplyPC, IInv, NotifierTypeOK, Ids
<1>K. ChatsGrow => ref \in [Projects -> [job : 1..MaxJobs, card : 1..Len(cards')] \cup {NoRef}]
  <2> SUFFICES ASSUME ChatsGrow
      PROVE ref \in [Projects -> [job : 1..MaxJobs, card : 1..Len(cards')] \cup {NoRef}]
    OBVIOUS
  <2>1. Len(cards') \in Nat /\ 1..Len(cards) \subseteq 1..Len(cards')  BY <1>00 DEF ChatsGrow
  <2> QED  BY <2>1 DEF IInv, NotifierTypeOK
<1>C. RepetitionsExplained'
  <2> USE CountStep, <1>00 DEF studio, chats, bounds
  <2>1. CASE EditOk  BY <2>1, <1>S, <1>G DEF EditOk, Delivered, Proceed, ChatsGrow
  <2>2. CASE EditImpossible  BY <2>2, <1>U, <1>W DEF EditImpossible
  <2>3. CASE SendOk  BY <2>3, <1>S, <1>G DEF SendOk, Delivered, Proceed, ChatsGrow
  <2>4. CASE RequestFails  BY <2>4, <1>P, <1>R, <1>W DEF RequestFails, Failed, Proceed
  <2>5. CASE Finalize
    <3>1. ChatsGrow  BY <2>5, <1>S, <1>P DEF Finalize
    <3>2. crashes' = crashes /\ faults' \in Nat /\ faults <= faults'
      BY <2>5, <1>G, <1>W DEF Finalize
    <3>3. /\ loopAt # "mark" /\ UNCHANGED <<events, delivered>>
          /\ \A i \in Ids : announced'[i] = announced[i]
      BY <2>5, <3>1 DEF Finalize, ChatsGrow
    <3>4. crashes + faults <= crashes' + faults' /\ crashes' \in Nat
      <4>1. \A k, m, n \in Nat : m <= n => k + m <= k + n  OBVIOUS
      <4> QED  BY <3>2, <4>1
    <3> QED  BY <3>1, <3>2, <3>3, <3>4
  <2>6. CASE AnnounceOk  BY <2>6, <1>S, <1>G DEF AnnounceOk, ChatsGrow
  <2>7. CASE Mark  BY <2>7, <1>U DEF Mark, Delivered, Proceed
  <2>8. CASE StoreRaises  BY <2>8, <1>U DEF StoreRaises
  <2>9. CASE CrashTelegram  BY <2>9, <1>P, <1>U DEF CrashTelegram
  <2> QED
    BY <2>1, <2>2, <2>3, <2>4, <2>5, <2>6, <2>7, <2>8, <2>9
<1> USE <1>00, <1>0, <1>G, <1>W, <1>K DEF IInv, studio, bounds, ReplyPC, Ids, ChatsGrow,
            NotifierTypeOK, RequestInv, RefInv, EditInv, HasCard, MarkInv, NoVerdictLost,
            RepetitionsExplained
<1>1. ASSUME EditOk PROVE IInv'
  <2> USE <1>1, <1>S DEF EditOk, Delivered, Proceed
  <2>1. NotifierTypeOK'  OBVIOUS
  <2>2. RequestInv'  OBVIOUS
  <2>3. RefInv'  BY ZenonT(60)
  <2>4. EditInv'  OBVIOUS
  <2>5. MarkInv'  OBVIOUS
  <2>6. NoVerdictLost'  OBVIOUS
  <2>7. RepetitionsExplained'  BY <1>C
  <2> QED  BY <2>1, <2>2, <2>3, <2>4, <2>5, <2>6, <2>7 DEF IInv
<1>2. ASSUME EditImpossible PROVE IInv'
  <2> USE <1>2 DEF EditImpossible, chats
  <2>1. NotifierTypeOK'  OBVIOUS
  <2>2. RequestInv'  OBVIOUS
  <2>3. RefInv'  OBVIOUS
  <2>4. EditInv'  OBVIOUS
  <2>5. MarkInv'  OBVIOUS
  <2>6. NoVerdictLost'  OBVIOUS
  <2>7. RepetitionsExplained'  BY <1>C
  <2> QED  BY <2>1, <2>2, <2>3, <2>4, <2>5, <2>6, <2>7 DEF IInv
<1>3. ASSUME SendOk PROVE IInv'
  <2> USE <1>3, <1>S DEF SendOk, Delivered, Proceed
  <2>00. /\ Project \in Projects /\ current \in Ids /\ events[current].job \in 1..MaxJobs
         /\ cards' = Append(cards, NewCard) /\ cards \in Seq(Card)
    BY CurrentEvent DEF Served
  <2>01. NewCard \in Card  BY <2>00, Fields DEF NewCard
  <2>0. /\ Project \in Projects /\ current \in Ids /\ events[current].job \in 1..MaxJobs
        /\ Len(cards') = Len(cards) + 1 /\ cards'[Len(cards')] = NewCard
    BY <2>00, <2>01, AppendProperties
  <2>1. NotifierTypeOK'
    <3>1. ref' \in [Projects -> [job : 1..MaxJobs, card : 1..Len(cards')] \cup {NoRef}]
      BY SMTT(30), <2>0
    <3> QED  BY <2>0, <3>1
  <2>2. RequestInv'  OBVIOUS
  <2>3. RefInv'
    <3>1. ASSUME NEW p \in Projects \ {Project}, ref'[p] # NoRef
          PROVE cards'[ref'[p].card].project = p /\ cards'[ref'[p].card].job = ref'[p].job
      <4>1. ref'[p] = ref[p]  BY <3>1
      <4>2. ref[p].card \in 1..Len(cards)  BY <3>1, <4>1
      <4> QED  BY ZenonT(60), <3>1, <4>1, <4>2
    <3>2. cards'[ref'[Project].card].project = Project
          /\ cards'[ref'[Project].card].job = ref'[Project].job
      BY SMTT(30), <2>0 DEF NewCard
    <3> QED  BY <3>1, <3>2
  <2>4. EditInv'  OBVIOUS
  <2>5. MarkInv'  OBVIOUS
  <2>6. NoVerdictLost'  OBVIOUS
  <2>7. RepetitionsExplained'  BY <1>C
  <2> QED  BY <2>1, <2>2, <2>3, <2>4, <2>5, <2>6, <2>7 DEF IInv
<1>4. ASSUME RequestFails PROVE IInv'
  <2> USE <1>4, <1>P DEF RequestFails, Failed, Proceed
  <2>1. NotifierTypeOK'  OBVIOUS
  <2>2. RequestInv'  OBVIOUS
  <2>3. RefInv'  OBVIOUS
  <2>4. EditInv'  OBVIOUS
  <2>5. MarkInv'  OBVIOUS
  <2>6. NoVerdictLost'  OBVIOUS
  <2>7. RepetitionsExplained'  BY <1>C
  <2> QED  BY <2>1, <2>2, <2>3, <2>4, <2>5, <2>6, <2>7 DEF IInv
<1>5. ASSUME Finalize PROVE IInv'
  <2> USE <1>5, <1>S, <1>P DEF Finalize
  <2>1. NotifierTypeOK'  OBVIOUS
  <2>2. RequestInv'  OBVIOUS
  <2>3. RefInv'  BY ZenonT(60)
  <2>4. EditInv'  OBVIOUS
  <2>5. MarkInv'  OBVIOUS
  <2>6. NoVerdictLost'  OBVIOUS
  <2>7. RepetitionsExplained'  BY <1>C
  <2> QED  BY <2>1, <2>2, <2>3, <2>4, <2>5, <2>6, <2>7 DEF IInv
<1>6. ASSUME AnnounceOk PROVE IInv'
  <2> USE <1>6, <1>S, <1>A DEF AnnounceOk
  <2>1. NotifierTypeOK'  OBVIOUS
  <2>2. RequestInv'  OBVIOUS
  <2>3. RefInv'  OBVIOUS
  <2>4. EditInv'  OBVIOUS
  <2>5. MarkInv'  OBVIOUS
  <2>6. NoVerdictLost'  OBVIOUS
  <2>7. RepetitionsExplained'  BY <1>C
  <2> QED  BY <2>1, <2>2, <2>3, <2>4, <2>5, <2>6, <2>7 DEF IInv
<1>7. ASSUME Mark PROVE IInv'
  <2> USE <1>7 DEF Mark, Delivered, Proceed, chats
  <2>1. NotifierTypeOK'  OBVIOUS
  <2>2. RequestInv'  OBVIOUS
  <2>3. RefInv'  OBVIOUS
  <2>4. EditInv'  OBVIOUS
  <2>5. MarkInv'  OBVIOUS
  <2>6. NoVerdictLost'  OBVIOUS
  <2>7. RepetitionsExplained'  BY <1>C
  <2> QED  BY <2>1, <2>2, <2>3, <2>4, <2>5, <2>6, <2>7 DEF IInv
<1>8. ASSUME StoreRaises PROVE IInv'
  <2> USE <1>8 DEF StoreRaises, chats
  <2>1. NotifierTypeOK'  OBVIOUS
  <2>2. RequestInv'  OBVIOUS
  <2>3. RefInv'  OBVIOUS
  <2>4. EditInv'  OBVIOUS
  <2>5. MarkInv'  OBVIOUS
  <2>6. NoVerdictLost'  OBVIOUS
  <2>7. RepetitionsExplained'  BY <1>C
  <2> QED  BY <2>1, <2>2, <2>3, <2>4, <2>5, <2>6, <2>7 DEF IInv
<1>9. ASSUME CrashTelegram PROVE IInv'
  <2> USE <1>9, <1>P, <1>U DEF CrashTelegram
  <2>1. NotifierTypeOK'  OBVIOUS
  <2>2. RequestInv'  OBVIOUS
  <2>3. RefInv'  OBVIOUS
  <2>4. EditInv'  OBVIOUS
  <2>5. MarkInv'  OBVIOUS
  <2>6. NoVerdictLost'  OBVIOUS
  <2>7. RepetitionsExplained'  BY <1>C
  <2> QED  BY <2>1, <2>2, <2>3, <2>4, <2>5, <2>6, <2>7 DEF IInv
<1> QED  BY <1>1, <1>2, <1>3, <1>4, <1>5, <1>6, <1>7, <1>8, <1>9

LEMMA Step_IInv == IInv /\ [NotifierNext]_notifierVars => IInv'
<1>1. IInv /\ UNCHANGED notifierVars => IInv'
  BY DEF notifierVars, studio, chats, notifier, bounds, IInv, NotifierTypeOK, RequestInv, RefInv, EditInv, HasCard,
         MarkInv, NoVerdictLost, RepetitionsExplained, Ids
<1> QED  BY <1>1, StudioStep, BatchStep, AnswerStep DEF NotifierNext, Loop

-----------------------------------------------------------------------------
\* Every variable keeps its type, and a batch holds undelivered events only.
THEOREM NotifierTypes == NotifierSpec => []NotifierTypeOK
<1>1. IInv => NotifierTypeOK  BY DEF IInv
<1> QED  BY InitIInv, Step_IInv, <1>1, PTL DEF NotifierSpec

\* A terminal event counts as delivered only after its message was shown.
THEOREM VerdictsNotLost == NotifierSpec => []NoVerdictLost
<1>1. IInv => NoVerdictLost  BY DEF IInv
<1> QED  BY InitIInv, Step_IInv, <1>1, PTL DEF NotifierSpec

\* A message is repeated at most as often as something went wrong.
THEOREM RepetitionsBounded == NotifierSpec => []RepetitionsExplained
<1>1. IInv => RepetitionsExplained  BY DEF IInv
<1> QED  BY InitIInv, Step_IInv, <1>1, PTL DEF NotifierSpec

\* A card is edited and finalised only for events of its own job.
THEOREM CardsAreEditedForTheirJob == NotifierSpec => []EditsOwnCard
<1>1. ASSUME IInv PROVE EditsOwnCard
  <2> SUFFICES ASSUME loopAt \in {"edit", "finalize"}
      PROVE /\ ref[Project].card \in 1..Len(cards)
            /\ cards[ref[Project].card].project = Project
            /\ cards[ref[Project].card].job = events[current].job
    BY DEF EditsOwnCard
  <2>1. Project \in Projects /\ ref[Project] # NoRef /\ ref[Project].card \in 1..Len(cards)
    BY <1>1, EditedCard
  <2>2. ref[Project].job = events[current].job  BY <1>1 DEF IInv, EditInv, HasCard, Project
  <2> QED  BY <1>1, <2>1, <2>2 DEF IInv, RefInv
<1> QED  BY InitIInv, Step_IInv, <1>1, PTL DEF NotifierSpec

-----------------------------------------------------------------------------
(* What users, worker and recovery do to a project is what DubProject says *)
(* of it, the module that DubStudio implements, too.                       *)

VerdictsOf(p) == {j \in 1..MaxJobs : \E i \in Ids :
                   events[i] = [project |-> p, job |-> j, kind |-> "terminal"]}

Seen(p) == INSTANCE DubProject WITH
  open <- open[p], half <- half[p], active <- active[p], told <- VerdictsOf(p)

\* Ids are handed out in order.
NumberedInv ==
  /\ \A p \in Projects : open[p] <= inserted /\ half[p] <= inserted
  /\ \A i \in Ids : events[i].job <= inserted

\* The notification loop writes no more than deliveries and references.
LEMMA OthersKeepStore == Loop \/ CrashTelegram => UNCHANGED studio
  BY DEF Loop, CrashTelegram, Fetch, EndPass, SkipMilestone, StartMilestone, StartTerminal, Request,
         EditOk, EditImpossible, SendOk, RequestFails, Finalize, AnnounceOk, Mark, StoreRaises

LEMMA NumberedStep == ASSUME NotifierTypeOK, NumberedInv, [NotifierNext]_notifierVars PROVE NumberedInv'
<1>0. /\ inserted \in 0..MaxJobs /\ open \in [Projects -> 0..MaxJobs]
      /\ half \in [Projects -> 0..MaxJobs] /\ MaxJobs \in Nat
      /\ events \in Seq(Event) /\ Len(events) \in Nat
  BY BoundsAssumption DEF NotifierTypeOK
<1>1. ASSUME NEW p \in Projects, NEW j \in {open[p], half[p]}, j # 0,
             NEW k \in {"milestone", "terminal"}, Insert(p, j, k), UNCHANGED inserted
      PROVE  \A i \in Ids' : events'[i].job <= inserted'
  <2>0. j \in 1..MaxJobs  BY <1>0, <1>1
  <2>1. [project |-> p, job |-> j, kind |-> k] \in Event  BY <2>0, Fields
  <2>2. /\ Len(events') = Len(events) + 1 /\ \A i \in Ids : events'[i] = events[i]
        /\ events'[Len(events) + 1] = [project |-> p, job |-> j, kind |-> k]
    BY <1>0, <1>1, <2>1, AppendProperties DEF Insert, Ids
  <2>3. \A i \in Ids' : i \in Ids \/ i = Len(events) + 1  BY <1>0, <2>2 DEF Ids
  <2> QED  BY <1>1, <2>2, <2>3 DEF NumberedInv
<1>2. ASSUME NEW p \in Projects, Enqueue(p) PROVE NumberedInv'
  <2>1. inserted' = inserted + 1 /\ UNCHANGED <<events, half>>
        /\ open' = [open EXCEPT ![p] = inserted + 1]
    BY <1>2 DEF Enqueue
  <2>2. \A i \in Ids : events[i].job \in Nat  BY <1>0, Fields DEF Ids
  <2> QED  BY <1>0, <2>1, <2>2 DEF NumberedInv, Ids
<1>3. ASSUME NEW p \in Projects, CrossMilestone(p) PROVE NumberedInv'
  BY <1>1, <1>3 DEF CrossMilestone, NumberedInv
<1>4. ASSUME NEW p \in Projects, Conclude(p) PROVE NumberedInv'
  BY <1>0, <1>1, <1>4 DEF Conclude, NumberedInv
<1>5. ASSUME NEW p \in Projects, FinishCancel(p) PROVE NumberedInv'
  BY <1>0, <1>1, <1>5 DEF FinishCancel, NumberedInv
<1>6. ASSUME NEW p \in Projects, Claim(p) \/ HalfCancel(p) PROVE NumberedInv'
  BY <1>0, <1>6 DEF Claim, HalfCancel, NumberedInv, Ids
<1>7. ASSUME UNCHANGED studio PROVE NumberedInv'
  BY <1>7 DEF studio, NumberedInv, Ids
<1> QED
  BY <1>2, <1>3, <1>4, <1>5, <1>6, <1>7, OthersKeepStore DEF NotifierNext, Studio, notifierVars

\* A verdict more, of the project it belongs to, or a milestone.
LEMMA VerdictsGrow ==
  ASSUME NotifierTypeOK, NEW q \in Projects, NEW j \in 1..MaxJobs, NEW k \in {"milestone", "terminal"},
         Insert(q, j, k), NEW p \in Projects
  PROVE  VerdictsOf(p)' =
           IF p = q /\ k = "terminal" THEN VerdictsOf(p) \cup {j} ELSE VerdictsOf(p)
<1>0. events \in Seq(Event) /\ Len(events) \in Nat  BY DEF NotifierTypeOK
<1>1. [project |-> q, job |-> j, kind |-> k] \in Event  BY Fields
<1>2. /\ Len(events') = Len(events) + 1 /\ \A i \in Ids : events'[i] = events[i]
      /\ events'[Len(events) + 1] = [project |-> q, job |-> j, kind |-> k]
  BY <1>0, <1>1, AppendProperties DEF Insert, Ids
<1>3. Ids' = Ids \cup {Len(events) + 1}  BY <1>0, <1>2 DEF Ids
<1>4. ASSUME NEW n \in 1..MaxJobs
      PROVE  n \in VerdictsOf(p)' <=> n \in VerdictsOf(p) \/ (p = q /\ k = "terminal" /\ n = j)
  <2>1. [project |-> q, job |-> j, kind |-> k] = [project |-> p, job |-> n, kind |-> "terminal"]
          <=> p = q /\ k = "terminal" /\ n = j
    OBVIOUS
  <2> QED  BY <1>2, <1>3, <2>1 DEF VerdictsOf
<1>5. VerdictsOf(p) \subseteq 1..MaxJobs /\ VerdictsOf(p)' \subseteq 1..MaxJobs
  BY DEF VerdictsOf
<1> QED  BY <1>4, <1>5

LEMMA SeenStep ==
  ASSUME NotifierTypeOK, NumberedInv, [NotifierNext]_notifierVars, NEW p \in Projects
  PROVE  [Seen(p)!Next]_(Seen(p)!aspects)
<1>0. /\ inserted \in 0..MaxJobs /\ open \in [Projects -> 0..MaxJobs]
      /\ half \in [Projects -> 0..MaxJobs] /\ active \in [Projects -> BOOLEAN] /\ MaxJobs \in Nat
  BY BoundsAssumption DEF NotifierTypeOK
<1>1. UNCHANGED events => VerdictsOf(p)' = VerdictsOf(p)  BY DEF VerdictsOf, Ids
<1>2. ASSUME NEW q \in Projects, Enqueue(q) PROVE [Seen(p)!Next]_(Seen(p)!aspects)
  <2>1. /\ open[q] = 0 /\ open' = [open EXCEPT ![q] = inserted + 1]
        /\ active' = [active EXCEPT ![q] = TRUE] /\ UNCHANGED <<half, events>>
        /\ inserted + 1 \in 1..MaxJobs
    BY <1>0, <1>2 DEF Enqueue
  <2>2. CASE p = q
    <3>1. inserted + 1 \notin VerdictsOf(p) \cup {half[p]}
      BY <1>0 DEF VerdictsOf, NumberedInv
    <3>2. open'[p] = inserted + 1 /\ active'[p] = TRUE /\ half'[p] = half[p]
      BY <1>0, <2>1, <2>2
    <3>3. Seen(p)!Accept(inserted + 1)
      BY <1>1, <2>1, <2>2, <3>1, <3>2 DEF Seen!Accept
    <3> QED  BY <2>1, <3>3 DEF Seen!Next
  <2>3. CASE p # q
    BY <1>0, <1>1, <2>1, <2>3 DEF Seen!aspects
  <2> QED  BY <2>2, <2>3
<1>3. ASSUME NEW q \in Projects, Claim(q) PROVE [Seen(p)!Next]_(Seen(p)!aspects)
  <2>1. CASE p = q
    <3>1. Seen(p)!Resume  BY <1>0, <1>1, <1>3, <2>1 DEF Claim, Seen!Resume
    <3> QED  BY <3>1 DEF Seen!Next
  <2>2. CASE p # q
    BY <1>0, <1>1, <1>3, <2>2 DEF Claim, Seen!aspects
  <2> QED  BY <2>1, <2>2
<1>4. ASSUME NEW q \in Projects, CrossMilestone(q) PROVE [Seen(p)!Next]_(Seen(p)!aspects)
  <2>1. VerdictsOf(p)' = VerdictsOf(p)
    BY <1>0, <1>4, VerdictsGrow DEF CrossMilestone
  <2> QED  BY <1>4, <2>1 DEF CrossMilestone, Seen!aspects
<1>5. ASSUME NEW q \in Projects, Conclude(q) PROVE [Seen(p)!Next]_(Seen(p)!aspects)
  <2>1. VerdictsOf(p)' = IF p = q THEN VerdictsOf(p) \cup {open[q]} ELSE VerdictsOf(p)
    BY <1>0, <1>5, VerdictsGrow DEF Conclude
  <2>2. CASE p = q
    <3>1. Seen(p)!Conclude  BY <1>0, <1>5, <2>1, <2>2 DEF Conclude, Seen!Conclude
    <3> QED  BY <3>1 DEF Seen!Next
  <2>3. CASE p # q
    BY <1>0, <1>5, <2>1, <2>3 DEF Conclude, Seen!aspects
  <2> QED  BY <2>2, <2>3
<1>6. ASSUME NEW q \in Projects, HalfCancel(q) PROVE [Seen(p)!Next]_(Seen(p)!aspects)
  <2>1. CASE p = q
    <3>1. Seen(p)!HalfCancel  BY <1>0, <1>1, <1>6, <2>1 DEF HalfCancel, Seen!HalfCancel
    <3> QED  BY <3>1 DEF Seen!Next
  <2>2. CASE p # q
    BY <1>0, <1>1, <1>6, <2>2 DEF HalfCancel, Seen!aspects
  <2> QED  BY <2>1, <2>2
<1>7. ASSUME NEW q \in Projects, FinishCancel(q) PROVE [Seen(p)!Next]_(Seen(p)!aspects)
  <2>1. VerdictsOf(p)' = IF p = q THEN VerdictsOf(p) \cup {half[q]} ELSE VerdictsOf(p)
    BY <1>0, <1>7, VerdictsGrow DEF FinishCancel
  <2>2. CASE p = q
    <3>1. Seen(p)!FinishCancel  BY <1>0, <1>7, <2>1, <2>2 DEF FinishCancel, Seen!FinishCancel
    <3> QED  BY <3>1 DEF Seen!Next
  <2>3. CASE p # q
    BY <1>0, <1>7, <2>1, <2>3 DEF FinishCancel, Seen!aspects
  <2> QED  BY <2>2, <2>3
<1>8. ASSUME UNCHANGED studio PROVE [Seen(p)!Next]_(Seen(p)!aspects)
  BY <1>1, <1>8 DEF studio, Seen!aspects
<1> QED
  BY <1>2, <1>3, <1>4, <1>5, <1>6, <1>7, <1>8, OthersKeepStore DEF NotifierNext, Studio, notifierVars

SeenProjects ==
  /\ \A p \in Projects : Seen(p)!Init
  /\ [][\A p \in Projects : [Seen(p)!Next]_(Seen(p)!aspects)]_notifierVars

\* Users, worker and recovery do to each project only what DubProject says of one.
THEOREM EventsOfProjects == NotifierSpec => SeenProjects
<1>1. NotifierInit => NumberedInv /\ \A p \in Projects : Seen(p)!Init
  BY BoundsAssumption DEF NotifierInit, NumberedInv, Seen!Init, VerdictsOf, Ids
<1>2. NotifierTypeOK /\ NumberedInv /\ [NotifierNext]_notifierVars => NumberedInv'  BY NumberedStep
<1>3. NotifierTypeOK /\ NumberedInv /\ [NotifierNext]_notifierVars =>
        [\A p \in Projects : [Seen(p)!Next]_(Seen(p)!aspects)]_notifierVars
  BY SeenStep
<1> QED  BY <1>1, <1>2, <1>3, NotifierTypes, PTL DEF NotifierSpec, SeenProjects

\* The rest of a step that is about one project: the loop, the chats and the other
\* projects are left alone.
Elsewhere(p) ==
  /\ open' = [open EXCEPT ![p] = open'[p]]
  /\ half' = [half EXCEPT ![p] = half'[p]]
  /\ active' = [active EXCEPT ![p] = active'[p]]
  /\ UNCHANGED <<delivered, ref, cards, notifier, bounds>>

NoEvent == UNCHANGED <<events, announced>>

\* The converse, so that the loop is shown to cope with all that DubProject allows: in a
\* state the loop can meet, a step of one of the five actions is a step of DubProject's
\* action of that name, whatever the project, together with the row numbers and the event
\* it writes, and each such step is one of the action.  Nothing else is asked of it: the
\* environment of the loop is as free as DubProject, but for jobs being numbered in order
\* and the bound on their number.
THEOREM EnvironmentIsFree ==
  ASSUME NotifierTypeOK, NumberedInv, NEW p \in Projects
  PROVE  /\ Enqueue(p) <=> /\ Seen(p)!Accept(inserted + 1) /\ Elsewhere(p) /\ NoEvent
                           /\ inserted < MaxJobs /\ inserted' = inserted + 1
         /\ Claim(p) <=> Seen(p)!Resume /\ Elsewhere(p) /\ NoEvent /\ UNCHANGED inserted
         /\ Conclude(p) <=> /\ Seen(p)!Conclude /\ Elsewhere(p) /\ UNCHANGED inserted
                            /\ Insert(p, open[p], "terminal")
         /\ HalfCancel(p) <=>
              Seen(p)!HalfCancel /\ Elsewhere(p) /\ NoEvent /\ UNCHANGED inserted
         /\ FinishCancel(p) <=> /\ Seen(p)!FinishCancel /\ Elsewhere(p) /\ UNCHANGED inserted
                                /\ Insert(p, half[p], "terminal")
<1>0. /\ inserted \in 0..MaxJobs /\ open \in [Projects -> 0..MaxJobs]
      /\ half \in [Projects -> 0..MaxJobs] /\ active \in [Projects -> BOOLEAN] /\ MaxJobs \in Nat
  BY BoundsAssumption DEF NotifierTypeOK
<1>1. NoEvent => VerdictsOf(p)' = VerdictsOf(p)  BY DEF NoEvent, VerdictsOf, Ids
<1>2. inserted + 1 \notin VerdictsOf(p) \cup {half[p]}  BY <1>0 DEF VerdictsOf, NumberedInv
<1>3. ASSUME NEW j \in {open[p], half[p]}, j # 0, Insert(p, j, "terminal")
      PROVE  VerdictsOf(p)' = VerdictsOf(p) \cup {j}
  <2>1. j \in 1..MaxJobs  BY <1>0, <1>3
  <2> QED  BY <1>3, <2>1, VerdictsGrow
<1>4. Enqueue(p) <=> /\ Seen(p)!Accept(inserted + 1) /\ Elsewhere(p) /\ NoEvent
                     /\ inserted < MaxJobs /\ inserted' = inserted + 1
  BY <1>0, <1>1, <1>2 DEF Enqueue, Elsewhere, NoEvent, Seen!Accept, chats
<1>5. Claim(p) <=> Seen(p)!Resume /\ Elsewhere(p) /\ NoEvent /\ UNCHANGED inserted
  BY <1>0, <1>1 DEF Claim, Elsewhere, NoEvent, Seen!Resume, chats
<1>6. Conclude(p) <=> /\ Seen(p)!Conclude /\ Elsewhere(p) /\ UNCHANGED inserted
                      /\ Insert(p, open[p], "terminal")
  BY <1>0, <1>3 DEF Conclude, Elsewhere, Seen!Conclude
<1>7. HalfCancel(p) <=> Seen(p)!HalfCancel /\ Elsewhere(p) /\ NoEvent /\ UNCHANGED inserted
  BY <1>0, <1>1 DEF HalfCancel, Elsewhere, NoEvent, Seen!HalfCancel, chats
<1>8. FinishCancel(p) <=> /\ Seen(p)!FinishCancel /\ Elsewhere(p) /\ UNCHANGED inserted
                          /\ Insert(p, half[p], "terminal")
  BY <1>0, <1>3 DEF FinishCancel, Elsewhere, Seen!FinishCancel
<1> QED  BY <1>4, <1>5, <1>6, <1>7, <1>8
=============================================================================
