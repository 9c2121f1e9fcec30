--------------------------- MODULE MCBot_proofs ---------------------------
(***************************************************************************)
(* The bot process as a whole.  worker.lock excludes a second worker as    *)
(* long as the attempts to take it do not overlap, and bot.lock a second   *)
(* bot; neither keeps a process busy for ever, and a file that a killed    *)
(* process left behind keeps nobody out.  The runs check it for three      *)
(* processes, here it is proved for any number of them and of rounds.  At  *)
(* the end: each component behaves in the MCBot instance as by itself.     *)
(***************************************************************************)
EXTENDS MCBot, GeminiCapacity_proofs, FactoryDelivery_proofs, Publication_proofs, FiniteSetTheorems, TLAPS

-----------------------------------------------------------------------------
(* worker.lock.                                                            *)

\* Whether another process is between os.open and the end of acquire.
OneAcquirer == \A v, w \in Workers : pc[v] \in Acquiring /\ pc[w] \in Acquiring => v = w

\* A file just created still bears the name when its pid is written.
WriterOwnsFile == \A w \in Workers : pc[w] = "write" => file = w

\* A process that is about to unlink the file takes it from no live holder.
UnlinkIsSafe == \A v, w \in Workers : pc[w] = "unlink" => pc[v] \notin Holding

\* A process in the middle of a round has not used up its rounds.
RoundsLeft == \A w \in Workers : pc[w] \in {"inspect", "unlink"} => tries[w] # Attempts

Typing == TypeOK /\ RoundsLeft
IInv == Typing /\ OneAcquirer /\ WriterOwnsFile /\ UnlinkIsSafe /\ HolderIsVisible

\* Initially nobody has started.
LEMMA InitIInv == Init => IInv
  BY FileAssumption, AttemptsAssumption
  DEF Init, IInv, Typing, TypeOK, RoundsLeft, OneAcquirer, WriterOwnsFile, UnlinkIsSafe,
      HolderIsVisible, Acquiring, Holding, Gone

\* A file operation keeps the typing and never exceeds the rounds.
LEMMA TypingStep == Typing /\ [Next]_vars => Typing'
<1> SUFFICES ASSUME Typing, [Next]_vars PROVE Typing'  OBVIOUS
<1> USE FileAssumption, AttemptsAssumption
    DEF Typing, TypeOK, RoundsLeft, Goto, Acquiring, Holding, Gone
<1>1. CASE UNCHANGED vars  BY <1>1 DEF vars
<1>2. ASSUME NEW w \in Workers, Start(w) PROVE Typing'  BY <1>2 DEF Start
<1>3. ASSUME NEW w \in Workers, Open(w) PROVE Typing'  BY <1>3 DEF Open
<1>4. ASSUME NEW w \in Workers, Inspect(w) PROVE Typing'  BY <1>4 DEF Inspect
<1>5. ASSUME NEW w \in Workers, Unlink(w) PROVE Typing'  BY <1>5 DEF Unlink
<1>6. ASSUME NEW w \in Workers, Write(w) PROVE Typing'  BY <1>6 DEF Write
<1>7. ASSUME NEW w \in Workers, ReleaseCheck(w) PROVE Typing'  BY <1>7 DEF ReleaseCheck
<1>8. ASSUME NEW w \in Workers, ReleaseUnlink(w) PROVE Typing'  BY <1>8 DEF ReleaseUnlink
<1>9. ASSUME NEW w \in Workers, Kill(w) PROVE Typing'  BY <1>9 DEF Kill
<1> QED  BY <1>1, <1>2, <1>3, <1>4, <1>5, <1>6, <1>7, <1>8, <1>9 DEF Next, Acquire

\* One attempt at a time keeps the exclusion: the file a process unlinks is
\* nobody's, because a live holder's pid stands in it and was looked up.
LEMMA LockStep == SerialStarts /\ IInv /\ [Next]_vars =>
  (OneAcquirer /\ WriterOwnsFile /\ UnlinkIsSafe /\ HolderIsVisible)'
<1> SUFFICES ASSUME SerialStarts, IInv, [Next]_vars
    PROVE (OneAcquirer /\ WriterOwnsFile /\ UnlinkIsSafe /\ HolderIsVisible)'
  OBVIOUS
<1> DEFINE Goal == OneAcquirer /\ WriterOwnsFile /\ UnlinkIsSafe /\ HolderIsVisible
<1> USE FileAssumption
    DEF IInv, Typing, TypeOK, OneAcquirer, WriterOwnsFile, UnlinkIsSafe, HolderIsVisible,
        Goto, Acquiring, Holding
<1>1. CASE UNCHANGED vars  BY <1>1 DEF vars
<1>2. ASSUME NEW w \in Workers, Start(w) PROVE Goal'  BY <1>2 DEF Start
<1>3. ASSUME NEW w \in Workers, Open(w) PROVE Goal'  BY <1>3 DEF Open
<1>4. ASSUME NEW w \in Workers, Inspect(w) PROVE Goal'  BY <1>4 DEF Inspect, OwnerRuns, Alive
<1>5. ASSUME NEW w \in Workers, Unlink(w) PROVE Goal'  BY <1>5 DEF Unlink
<1>6. ASSUME NEW w \in Workers, Write(w) PROVE Goal'  BY <1>6 DEF Write
<1>7. ASSUME NEW w \in Workers, ReleaseCheck(w) PROVE Goal'  BY <1>7 DEF ReleaseCheck
<1>8. ASSUME NEW w \in Workers, ReleaseUnlink(w) PROVE Goal'  BY <1>8 DEF ReleaseUnlink
<1>9. ASSUME NEW w \in Workers, Kill(w) PROVE Goal'  BY <1>9 DEF Kill
<1> QED  BY <1>1, <1>2, <1>3, <1>4, <1>5, <1>6, <1>7, <1>8, <1>9 DEF Next, Acquire

\* Every variable keeps its type, whatever the starts.
THEOREM LockTypes == Spec => []TypeOK
<1>1. Init => Typing  BY InitIInv DEF IInv
<1>2. Typing => TypeOK  BY DEF Typing
<1> QED  BY <1>1, <1>2, TypingStep, PTL DEF Spec

\* If workers start one at a time, at most one of them ever believes that it
\* has worker.lock.
THEOREM OneHolderIfSerial == SerialStarts /\ Spec => []OneHolder
<1>1. Init => IInv  BY InitIInv
<1>2. SerialStarts /\ IInv /\ [Next]_vars => IInv'
  BY TypingStep, LockStep DEF IInv
<1>3. IInv => OneHolder  BY DEF IInv, OneHolder, HolderIsVisible
<1>4. CASE SerialStarts
  <2>1. IInv /\ [Next]_vars => IInv'  BY <1>2, <1>4
  <2> QED  BY <1>1, <2>1, <1>3, PTL DEF Spec
<1>5. CASE ~SerialStarts  BY <1>5
<1> QED  BY <1>4, <1>5

\* Then a holder's file also keeps the name, with the pid in it, so that the
\* next process to try is refused.
THEOREM HolderVisibleIfSerial == SerialStarts /\ Spec => []HolderIsVisible
<1>1. Init => IInv  BY InitIInv
<1>2. SerialStarts /\ IInv /\ [Next]_vars => IInv'
  BY TypingStep, LockStep DEF IInv
<1>3. IInv => HolderIsVisible  BY DEF IInv
<1>4. CASE SerialStarts
  <2>1. IInv /\ [Next]_vars => IInv'  BY <1>2, <1>4
  <2> QED  BY <1>1, <2>1, <1>3, PTL DEF Spec
<1>5. CASE ~SerialStarts  BY <1>5
<1> QED  BY <1>4, <1>5

-----------------------------------------------------------------------------
(* worker.lock: who is turned away, and how long it takes.                 *)

\* Who has not created a file yet does not have the name.
NoNameYet == \A w \in Workers : pc[w] \in {"unborn", "open", "inspect", "unlink"} => file # w

\* The second round starts with the name free and nobody behind the lock.
SecondRoundIsFree ==
  \A w \in Workers :
    /\ pc[w] \in {"unborn", "inspect", "unlink"} => tries[w] = 0
    /\ pc[w] = "open" /\ tries[w] # 0 =>
         tries[w] = 1 /\ file = NoFile /\ \A v \in Workers : pc[v] \notin Holding

RInv == IInv /\ NoNameYet /\ SecondRoundIsFree

LEMMA InitRInv == Init => RInv
  BY InitIInv, FileAssumption DEF Init, RInv, NoNameYet, SecondRoundIsFree

LEMMA RefusalStep ==
  ASSUME SerialStarts, Attempts >= 2, RInv, [Next]_vars
  PROVE  /\ (NoNameYet /\ SecondRoundIsFree)'
         /\ \A w \in Workers : pc[w] # "refused" /\ pc'[w] = "refused" =>
              \E v \in Workers : pc[v] \in Holding
<1> DEFINE Held == \E v \in Workers : pc[v] \in Holding
           Goal == /\ (NoNameYet /\ SecondRoundIsFree)'
                   /\ \A w \in Workers : pc[w] # "refused" /\ pc'[w] = "refused" => Held
<1> USE FileAssumption, AttemptsAssumption
    DEF RInv, IInv, Typing, TypeOK, RoundsLeft, OneAcquirer, WriterOwnsFile, UnlinkIsSafe,
        HolderIsVisible, NoNameYet, SecondRoundIsFree, Goto, Acquiring, Holding, Gone
<1>1. CASE UNCHANGED vars  BY <1>1 DEF vars
<1>2. ASSUME NEW w \in Workers, Start(w) PROVE Goal  BY <1>2 DEF Start
<1>3. ASSUME NEW w \in Workers, Open(w) PROVE Goal
  <2>1. tries[w] # Attempts  BY <1>3 DEF Open
  <2>2. CASE file = NoFile  BY <1>3, <2>1, <2>2 DEF Open
  <2>3. CASE file # NoFile  BY <1>3, <2>1, <2>3 DEF Open
  <2> QED  BY <2>2, <2>3
<1>4. ASSUME NEW w \in Workers, Inspect(w) PROVE Goal
  BY <1>4 DEF Inspect, OwnerRuns, Alive
<1>5. ASSUME NEW w \in Workers, Unlink(w) PROVE Goal  BY <1>5 DEF Unlink
<1>6. ASSUME NEW w \in Workers, Write(w) PROVE Goal  BY <1>6 DEF Write
<1>7. ASSUME NEW w \in Workers, ReleaseCheck(w) PROVE Goal  BY <1>7 DEF ReleaseCheck
<1>8. ASSUME NEW w \in Workers, ReleaseUnlink(w) PROVE Goal  BY <1>8 DEF ReleaseUnlink
<1>9. ASSUME NEW w \in Workers, Kill(w) PROVE Goal  BY <1>9 DEF Kill
<1> QED  BY <1>1, <1>2, <1>3, <1>4, <1>5, <1>6, <1>7, <1>8, <1>9 DEF Next, Acquire

\* A worker is turned away by a worker that holds the lock, never by the file of
\* a killed one.
RefusedByHolder ==
  [][\A w \in Workers : pc[w] # "refused" /\ pc'[w] = "refused" =>
       \E v \in Workers : pc[v] \in Holding]_vars

\* If workers start one at a time, the two rounds of acquire are enough: what a
\* killed worker left behind is removed in the first and never costs a second one
\* the lock.  The safety half of StaleLockIsTakenOver.
THEOREM RefusedByHolderIfSerial == SerialStarts /\ Attempts >= 2 /\ Spec => RefusedByHolder
<1>1. Init => RInv  BY InitRInv
<1>2. SerialStarts /\ Attempts >= 2 /\ RInv /\ [Next]_vars => RInv'
  BY TypingStep, LockStep, RefusalStep DEF RInv, IInv
<1>3. SerialStarts /\ Attempts >= 2 /\ RInv /\ [Next]_vars =>
        \A w \in Workers : pc[w] # "refused" /\ pc'[w] = "refused" =>
          \E v \in Workers : pc[v] \in Holding
  BY RefusalStep
<1>4. CASE SerialStarts /\ Attempts >= 2
  <2>1. RInv /\ [Next]_vars => RInv'  BY <1>2, <1>4
  <2>2. RInv /\ [Next]_vars =>
          \A w \in Workers : pc[w] # "refused" /\ pc'[w] = "refused" =>
            \E v \in Workers : pc[v] \in Holding
    BY <1>3, <1>4
  <2> QED  BY <1>1, <2>1, <2>2, PTL DEF Spec, RefusedByHolder
<1>5. CASE ~(SerialStarts /\ Attempts >= 2)  BY <1>5
<1> QED  BY <1>4, <1>5

\* How far a process is from the end of a round.
Order(l) ==
  CASE l = "unborn"  -> 7
    [] l = "open"    -> 6
    [] l = "inspect" -> 5
    [] l = "unlink"  -> 4
    [] l = "write"   -> 3
    [] l = "holding" -> 2
    [] l = "release" -> 1
    [] OTHER         -> 0

\* How many steps a worker has left, at most.
StepsLeft(w) == IF pc[w] \in Gone THEN 0 ELSE 3 * (Attempts - tries[w]) + Order(pc[w])

LEMMA StepsLeftNat == Typing => \A w \in Workers : StepsLeft(w) \in 0..(3*Attempts + 7)
  BY AttemptsAssumption DEF Typing, TypeOK, StepsLeft, Order, Gone, Acquiring, Holding

LEMMA FallStep ==
  ASSUME Typing, Next
  PROVE  \E w \in Workers :
           /\ StepsLeft(w)' < StepsLeft(w)
           /\ \A v \in Workers \ {w} : StepsLeft(v)' = StepsLeft(v)
<1> PICK w \in Workers : Start(w) \/ Acquire(w) \/ ReleaseCheck(w) \/ ReleaseUnlink(w) \/ Kill(w)
  BY DEF Next
<1>0. tries[w] \in 0..Attempts /\ Attempts \in Nat  BY AttemptsAssumption DEF Typing, TypeOK
<1>1. \A v \in Workers \ {w} : pc'[v] = pc[v] /\ tries'[v] = tries[v]
  BY DEF Typing, TypeOK, Goto, Start, Acquire, Open, Inspect, Unlink, Write, ReleaseCheck,
         ReleaseUnlink, Kill
<1>2. \A v \in Workers \ {w} : StepsLeft(v)' = StepsLeft(v)  BY <1>1 DEF StepsLeft
<1> USE DEF Typing, TypeOK, RoundsLeft, Goto, StepsLeft, Order, Gone
<1>3. CASE Start(w)  BY <1>0, <1>2, <1>3 DEF Start
<1>4. CASE Open(w)  BY <1>0, <1>2, <1>4 DEF Open
<1>5. CASE Inspect(w)  BY <1>0, <1>2, <1>5 DEF Inspect
<1>6. CASE Unlink(w)
  <2>1. pc'[w] = "open" /\ tries'[w] = tries[w] + 1  BY <1>6 DEF Unlink
  <2> QED  BY <1>0, <1>2, <1>6, <2>1 DEF Unlink
<1>7. CASE Write(w)  BY <1>0, <1>2, <1>7 DEF Write
<1>8. CASE ReleaseCheck(w)  BY <1>0, <1>2, <1>8 DEF ReleaseCheck
<1>9. CASE ReleaseUnlink(w)  BY <1>0, <1>2, <1>9 DEF ReleaseUnlink
<1>10. CASE Kill(w)  BY <1>0, <1>2, <1>10 DEF Kill, Alive, Acquiring, Holding
<1> QED  BY <1>3, <1>4, <1>5, <1>6, <1>7, <1>8, <1>9, <1>10 DEF Acquire

\* Every file operation brings one worker closer to its end and no other further
\* from it.
StepsRunOut ==
  [][\E w \in Workers :
       /\ StepsLeft(w)' < StepsLeft(w)
       /\ \A v \in Workers \ {w} : StepsLeft(v)' = StepsLeft(v)]_vars

\* acquire cannot go round for ever, however many processes unlink each other's
\* files: a natural number of its own falls with every step of a worker.
THEOREM AcquireRunsOut ==
  Spec => StepsRunOut /\ [](\A w \in Workers : StepsLeft(w) \in 0..(3*Attempts + 7))
<1>1. Init => Typing  BY InitIInv DEF IInv
<1>2. Typing => \A w \in Workers : StepsLeft(w) \in 0..(3*Attempts + 7)  BY StepsLeftNat
<1>3. Typing /\ Next => \E w \in Workers :
        /\ StepsLeft(w)' < StepsLeft(w)
        /\ \A v \in Workers \ {w} : StepsLeft(v)' = StepsLeft(v)
  BY FallStep
<1> QED  BY <1>1, <1>2, <1>3, TypingStep, PTL DEF Spec, StepsRunOut

-----------------------------------------------------------------------------
(* bot.lock.                                                               *)

\* A process in the middle of a round has not used up its rounds.
BotRoundsLeft == \A b \in Bots : botAt[b] \in {"read", "reread", "unlink"} => rounds[b] < Rounds

\* The imports come after the first pass through the loop.
FirstOnly == \A b \in Bots : botAt[b] = "imports" => b \in acquired

BotTyping == BotTypeOK /\ BotRoundsLeft /\ FirstOnly

LEMMA BotTyping_Init == BotInit => BotTyping
<1> SUFFICES ASSUME BotInit PROVE BotTyping  OBVIOUS
<1> USE BotAssumption DEF BotInit, Early, Running
<1>1. overlapped \in BOOLEAN /\ launched \in [Bots -> BOOLEAN]  BY Zenon
<1>2. acquired \in SUBSET Bots  OBVIOUS
<1>3. botAt \in [Bots -> {"unborn", "stale", "ended", "killed"} \cup Early \cup Running]
  OBVIOUS
<1>4. botContent \in [Bots -> Bots \cup {NoBot}] /\ seen \in [Bots -> Bots \cup {NoBot}]
  OBVIOUS
<1>5. rounds \in [Bots -> 0..Rounds] /\ waits \in [Bots -> 0..Patience]  OBVIOUS
<1>6. BotTypeOK  BY <1>1, <1>2, <1>3, <1>4, <1>5 DEF BotTypeOK
<1>7. BotRoundsLeft /\ FirstOnly  BY DEF BotRoundsLeft, FirstOnly
<1> QED  BY <1>6, <1>7 DEF BotTyping

LEMMA BotTyping_Step ==
  ASSUME BotTyping, [BotNext]_botVars
  PROVE  BotTyping'
<1> USE BotAssumption
    DEF BotTyping, BotTypeOK, BotRoundsLeft, FirstOnly, BotGoto, Early, Running, lockVars,
        startVars
<1>1. ASSUME NEW b \in Bots, Launch(b) PROVE BotTyping'
  <2>1. overlapped' \in BOOLEAN  BY <1>1, Zenon DEF Launch
  <2>2. /\ botAt[b] = "unborn" /\ botAt' = [botAt EXCEPT ![b] = "open"]
        /\ UNCHANGED <<botFile, botContent, rounds, seen, acquired, startVars>>
    BY <1>1, Zenon DEF Launch
  <2> QED  BY <2>1, <2>2
<1>2. ASSUME NEW b \in Bots, OpenLock(b) PROVE BotTyping'  BY <1>2 DEF OpenLock, TurnedAway
<1>3. ASSUME NEW b \in Bots, ReadLock(b) PROVE BotTyping'
  <2>1. /\ acquired' \in SUBSET Bots /\ acquired \subseteq acquired'
        /\ \A c \in Bots \ {b} : (c \in acquired' <=> c \in acquired)
    BY <1>3, Zenon DEF ReadLock
  <2>2. Pid \in Bots \cup {NoBot} /\ seen' = [seen EXCEPT ![b] = Pid]
        /\ UNCHANGED <<botFile, botContent, rounds, overlapped, startVars>>
        /\ botAt[b] = "read"
    BY <1>3 DEF ReadLock, Pid
  <2>3. CASE Pid = b /\ botAt' = [botAt EXCEPT ![b] = LetIn(b)]
    <3>1. b \in acquired'  BY <1>3, <2>3, Zenon DEF ReadLock
    <3> QED  BY <2>1, <2>2, <2>3, <3>1 DEF LetIn
  <2>4. CASE botAt' = [botAt EXCEPT ![b] = TurnedAway(b)] \/ botAt' = [botAt EXCEPT ![b] = "reread"]
    BY <2>1, <2>2, <2>4 DEF TurnedAway
  <2> QED  BY <1>3, <2>3, <2>4 DEF ReadLock
<1>4. ASSUME NEW b \in Bots, RereadLock(b) PROVE BotTyping'  BY <1>4 DEF RereadLock
<1>5. ASSUME NEW b \in Bots, UnlinkLock(b) PROVE BotTyping'  BY <1>5 DEF UnlinkLock
<1>6. ASSUME NEW b \in Bots, WritePid(b) PROVE BotTyping'  BY <1>6 DEF WritePid, LetIn
<1>7. ASSUME NEW b \in Bots,
             \/ Import(b) \/ Bootstrap(b) \/ CheckLock(b) \/ StartPolling(b) \/ StopPolling(b)
             \/ ExitBot(b)
      PROVE  BotTyping'
  BY <1>7 DEF Import, Bootstrap, CheckLock, StartPolling, StopPolling, ExitBot
<1>8. ASSUME NEW b \in Bots, ClaimLock(b) PROVE BotTyping'  BY <1>8 DEF ClaimLock
<1>9. ASSUME NEW b \in Bots, WaitForPort(b) PROVE BotTyping'
  <2>1. CASE server # "down" /\ BotGoto(b, "getme") /\ UNCHANGED startVars
    BY <1>9, <2>1 DEF WaitForPort
  <2>2. CASE /\ WaitOrFail(b, "port") /\ launched' = [launched EXCEPT ![b] = TRUE]
             /\ server' \in (IF launched[b] THEN {"down"} ELSE {"down", "port"})
    <3>1. server' \in {"down", "port", "ready"}  BY <2>2
    <3>2. launched' \in [Bots -> BOOLEAN]  BY <2>2, Zenon
    <3>3. waits' \in [Bots -> 0..Patience] /\ botAt' \in [Bots -> {"unborn", "stale", "ended", "killed"} \cup Early \cup Running]
      BY <2>2 DEF WaitOrFail
    <3>4. UNCHANGED lockVars  BY <1>9, Zenon DEF WaitForPort
    <3>5. botAt' = [botAt EXCEPT ![b] = "port"] \/ botAt' = [botAt EXCEPT ![b] = "exit"]
      BY <2>2, Zenon DEF WaitOrFail
    <3>6. BotTypeOK'  BY <3>1, <3>2, <3>3, <3>4, Zenon
    <3>7. BotRoundsLeft' /\ FirstOnly'  BY <3>4, <3>5
    <3> QED  BY <3>6, <3>7
  <2> QED  BY <1>9, <2>1, <2>2 DEF WaitForPort
<1>10. ASSUME NEW b \in Bots, ProbeServer(b) PROVE BotTyping'
  BY <1>10 DEF ProbeServer, WaitOrFail
<1>11. ASSUME NEW b \in Bots, ReleaseLock(b) PROVE BotTyping'  BY <1>11 DEF ReleaseLock
<1>12. ASSUME NEW b \in Bots, KillBot(b) PROVE BotTyping'  BY <1>12 DEF KillBot
<1>13. CASE ServerChanges  BY <1>13 DEF ServerChanges
<1>14. CASE UNCHANGED botVars  BY <1>14 DEF botVars
<1> HIDE DEF BotTyping
<1> QED
  BY <1>1, <1>2, <1>3, <1>4, <1>5, <1>6, <1>7, <1>8, <1>9, <1>10, <1>11, <1>12, <1>13, <1>14,
     Zenon DEF BotNext, BotStep

\* Types of bot.lock, the processes and the server, whatever the starts.
THEOREM BotTypes == BotSpec => []BotTypeOK
<1>1. BotTyping => BotTypeOK  BY DEF BotTyping
<1> QED  BY <1>1, BotTyping_Init, BotTyping_Step, PTL DEF BotSpec

-----------------------------------------------------------------------------
(* Starts that do not overlap: while a process is in the loop for the first *)
(* time, no other one is started.  A process that has left the loop may be  *)
(* anywhere.                                                                *)

\* Who has once taken the lock and is still there.
HasLock(b) == b \in acquired /\ botAt[b] \in Early \cup Running

OneClaiming == \A b, c \in Bots : Claiming(b) /\ Claiming(c) => b = c

\* Its file bears the name, with its pid in it, and its second pass through the
\* loop finds it at the first look.
NameIsOwners ==
  \A b \in Bots : HasLock(b) =>
    /\ botFile = b /\ botContent[b] = b
    /\ botAt[b] \in Early => botAt[b] \in {"open", "read"} /\ rounds[b] = 0

\* Nobody gets past the loop without having taken the lock, and nobody writes to
\* the file of another.
PastTheLock ==
  /\ \A b \in Bots : botAt[b] \in Running => b \in acquired
  /\ \A b \in Bots : botAt[b] = "unborn" => b \notin acquired
  /\ \A b \in Bots : botContent[b] \in {b, NoBot}

\* A file just created still bears the name.
CreatorHasName == \A b \in Bots : Claiming(b) /\ botAt[b] = "write" => botFile = b

\* The file is taken from nobody who is there.
TakesNobodys ==
  \A b, c \in Bots : Claiming(b) /\ botAt[b] \in {"reread", "unlink", "write"} => ~HasLock(c)

SerialInv == OneClaiming /\ NameIsOwners /\ PastTheLock /\ CreatorHasName /\ TakesNobodys

LEMMA Serial_Init == BotInit => SerialInv
  BY BotAssumption
  DEF BotInit, SerialInv, OneClaiming, NameIsOwners, PastTheLock, CreatorHasName, TakesNobodys,
      HasLock, Claiming, Living, Early, Running

LEMMA Serial_Step ==
  ASSUME BotTypeOK, SerialInv, [BotNext]_botVars, ~overlapped'
  PROVE  SerialInv'
<1> USE BotAssumption
    DEF BotTypeOK, SerialInv, OneClaiming, NameIsOwners, PastTheLock, CreatorHasName,
        TakesNobodys, HasLock, Claiming, Living, BotGoto, Early, Running, lockVars
<1>1. ASSUME NEW b \in Bots, Launch(b) PROVE SerialInv'
  <2>1. \A c \in Bots : ~Claiming(c)  BY <1>1, Zenon DEF Launch
  <2>2. /\ botAt[b] = "unborn" /\ botAt' = [botAt EXCEPT ![b] = "open"]
        /\ UNCHANGED <<botFile, botContent, rounds, seen, acquired>>
    BY <1>1, Zenon DEF Launch
  <2> QED  BY <2>1, <2>2
<1>2. ASSUME NEW b \in Bots, OpenLock(b) PROVE SerialInv'  BY <1>2 DEF OpenLock, TurnedAway
<1>3. ASSUME NEW b \in Bots, ReadLock(b) PROVE SerialInv'
  BY <1>3 DEF ReadLock, Pid, Foreign, TurnedAway, LetIn
<1>4. ASSUME NEW b \in Bots, RereadLock(b) PROVE SerialInv'  BY <1>4 DEF RereadLock
<1>5. ASSUME NEW b \in Bots, UnlinkLock(b) PROVE SerialInv'  BY <1>5 DEF UnlinkLock
<1>6. ASSUME NEW b \in Bots, WritePid(b) PROVE SerialInv'  BY <1>6 DEF WritePid, LetIn
<1>7. ASSUME NEW b \in Bots, Import(b) PROVE SerialInv'  BY <1>7 DEF Import
<1>8. ASSUME NEW b \in Bots,
             \/ Bootstrap(b) \/ CheckLock(b) \/ StartPolling(b) \/ StopPolling(b) \/ ExitBot(b)
      PROVE  SerialInv'
  BY <1>8 DEF Bootstrap, CheckLock, StartPolling, StopPolling, ExitBot
<1>9. ASSUME NEW b \in Bots, ClaimLock(b) PROVE SerialInv'  BY <1>9 DEF ClaimLock
<1>10. ASSUME NEW b \in Bots, WaitForPort(b) \/ ProbeServer(b) PROVE SerialInv'
  BY <1>10 DEF WaitForPort, ProbeServer, WaitOrFail
<1>11. ASSUME NEW b \in Bots, ReleaseLock(b) PROVE SerialInv'  BY <1>11 DEF ReleaseLock
<1>12. ASSUME NEW b \in Bots, KillBot(b) PROVE SerialInv'  BY <1>12 DEF KillBot
<1>13. CASE ServerChanges  BY <1>13 DEF ServerChanges
<1>14. CASE UNCHANGED botVars  BY <1>14 DEF botVars
<1> HIDE DEF SerialInv
<1> QED
  BY <1>1, <1>2, <1>3, <1>4, <1>5, <1>6, <1>7, <1>8, <1>9, <1>10, <1>11, <1>12, <1>13, <1>14,
     Zenon
  DEF BotNext, BotStep

\* An overlap is not forgotten.
LEMMA OverlapStays == [BotNext]_botVars /\ overlapped => overlapped'
<1> USE DEF lockVars, startVars
<1>1. ASSUME NEW b \in Bots, Launch(b), overlapped PROVE overlapped'
  BY <1>1, Zenon DEF Launch
<1>2. ASSUME NEW b \in Bots, BotStep(b) PROVE overlapped' = overlapped
  BY <1>2
  DEF BotStep, OpenLock, ReadLock, RereadLock, UnlinkLock, WritePid, Import, Bootstrap,
      CheckLock, ClaimLock, WaitForPort, ProbeServer, StartPolling, ExitBot, ReleaseLock
<1>3. ASSUME NEW b \in Bots, StopPolling(b) \/ KillBot(b) PROVE overlapped' = overlapped
  BY <1>3 DEF StopPolling, KillBot
<1>4. ServerChanges \/ UNCHANGED botVars => overlapped' = overlapped
  BY DEF ServerChanges, botVars
<1> QED  BY <1>1, <1>2, <1>3, <1>4, Zenon DEF BotNext

\* At most one process polls Telegram, for every number of starts, of crashes and
\* of files left behind, unless a process was started while another was in
\* acquire_early_singleton for the first time; BotProcess_race shows what happens
\* then.
THEOREM OnePollerUnlessOverlapped == BotSpec => []OnePoller
<1> DEFINE Known == BotTyping /\ (~overlapped => SerialInv)
<1>1. BotInit => Known  BY BotTyping_Init, Serial_Init
<1>2. Known /\ [BotNext]_botVars => Known'
  BY BotTyping_Step, Serial_Step, OverlapStays DEF BotTyping
<1>3. Known => OnePoller
  BY DEF SerialInv, NameIsOwners, PastTheLock, HasLock, Living, OnePoller, NeverTwoPollers, Running
<1> HIDE DEF Known
<1> QED  BY <1>1, <1>2, <1>3, PTL DEF BotSpec

-----------------------------------------------------------------------------
(* bot.lock: who is turned away, and how long a start takes.               *)

\* The second round of the early loop starts with the name free.
SecondRoundFindsNoFile ==
  \A b \in Bots :
    /\ botAt[b] \in {"unborn", "read", "reread", "unlink"} => rounds[b] = 0
    /\ botAt[b] = "reread" => seen[b] = Pid
    /\ botAt[b] = "open" /\ rounds[b] # 0 => rounds[b] = 1 /\ botFile = NoBot

LEMMA Round_Init == BotInit => SecondRoundFindsNoFile
  BY DEF BotInit, SecondRoundFindsNoFile

\* A start that ends in the early loop was met by a process that has the lock.
EndsByOwner ==
  \A b \in Bots : botAt[b] \in Early /\ botAt'[b] \in {"ended", "exit"} =>
    \E c \in Bots \ {b} : HasLock(c)

LEMMA Round_Step ==
  ASSUME Rounds >= 2, BotTyping, SerialInv, SecondRoundFindsNoFile, [BotNext]_botVars,
         ~overlapped'
  PROVE  SecondRoundFindsNoFile' /\ EndsByOwner
<1> DEFINE Goal == SecondRoundFindsNoFile' /\ EndsByOwner
<1> USE BotAssumption
    DEF BotTyping, BotTypeOK, BotRoundsLeft, SerialInv, OneClaiming, NameIsOwners, PastTheLock,
        CreatorHasName, TakesNobodys, HasLock, Claiming, Living, BotGoto, Early, Running, lockVars,
        SecondRoundFindsNoFile, EndsByOwner, Pid
<1>1. ASSUME NEW b \in Bots, Launch(b) PROVE Goal
  <2>1. \A c \in Bots : ~Claiming(c)  BY <1>1, Zenon DEF Launch
  <2>2. /\ botAt[b] = "unborn" /\ botAt' = [botAt EXCEPT ![b] = "open"]
        /\ UNCHANGED <<botFile, botContent, rounds, seen, acquired>>
    BY <1>1, Zenon DEF Launch
  <2> QED  BY <2>1, <2>2
<1>2. ASSUME NEW b \in Bots, OpenLock(b) PROVE Goal  BY <1>2 DEF OpenLock, TurnedAway
<1>3. ASSUME NEW b \in Bots, ReadLock(b) PROVE Goal
  BY <1>3 DEF ReadLock, Foreign, TurnedAway, LetIn
<1>4. ASSUME NEW b \in Bots, RereadLock(b) PROVE Goal  BY <1>4 DEF RereadLock
<1>5. ASSUME NEW b \in Bots, UnlinkLock(b) PROVE Goal  BY <1>5 DEF UnlinkLock
<1>6. ASSUME NEW b \in Bots, WritePid(b) PROVE Goal  BY <1>6 DEF WritePid, LetIn
<1>7. ASSUME NEW b \in Bots, Import(b) PROVE Goal  BY <1>7 DEF Import
<1>8. ASSUME NEW b \in Bots,
             \/ Bootstrap(b) \/ CheckLock(b) \/ StartPolling(b) \/ StopPolling(b) \/ ExitBot(b)
      PROVE  Goal
  BY <1>8 DEF Bootstrap, CheckLock, StartPolling, StopPolling, ExitBot
<1>9. ASSUME NEW b \in Bots, ClaimLock(b) PROVE Goal  BY <1>9 DEF ClaimLock
<1>10. ASSUME NEW b \in Bots, WaitForPort(b) \/ ProbeServer(b) PROVE Goal
  BY <1>10 DEF WaitForPort, ProbeServer, WaitOrFail
<1>11. ASSUME NEW b \in Bots, ReleaseLock(b) PROVE Goal  BY <1>11 DEF ReleaseLock
<1>12. ASSUME NEW b \in Bots, KillBot(b) PROVE Goal  BY <1>12 DEF KillBot
<1>13. CASE ServerChanges  BY <1>13 DEF ServerChanges
<1>14. CASE UNCHANGED botVars  BY <1>14 DEF botVars
<1> HIDE DEF SecondRoundFindsNoFile, EndsByOwner
<1> QED
  BY <1>1, <1>2, <1>3, <1>4, <1>5, <1>6, <1>7, <1>8, <1>9, <1>10, <1>11, <1>12, <1>13, <1>14,
     Zenon
  DEF BotNext, BotStep

\* Who is turned away is turned away by a process that has the lock.
TurnedAwayByOwner == [][~overlapped' => EndsByOwner]_botVars

\* As long as starts do not overlap, the file of a killed process never keeps a
\* start out: who ends in acquire_early_singleton, on the first pass or the second,
\* ends because another process has taken the lock and is still there.
THEOREM EndedByOwnerUnlessOverlapped ==
  ASSUME Rounds >= 2
  PROVE  BotSpec => TurnedAwayByOwner
<1> DEFINE Known == BotTyping /\ (~overlapped => SerialInv /\ SecondRoundFindsNoFile)
<1>1. BotInit => Known  BY BotTyping_Init, Serial_Init, Round_Init
<1>2. Known /\ [BotNext]_botVars => Known' /\ (~overlapped' => EndsByOwner)
  BY BotTyping_Step, Serial_Step, Round_Step, OverlapStays DEF BotTyping
<1> HIDE DEF Known
<1> QED  BY <1>1, <1>2, PTL DEF BotSpec, TurnedAwayByOwner

\* How far a process is from the end of its present pass or from its end.
Place(l) ==
  CASE l = "unborn"    -> 15
    [] l = "open"      -> 14
    [] l = "read"      -> 13
    [] l = "reread"    -> 12
    [] l = "unlink"    -> 11
    [] l = "write"     -> 10
    [] l \in {"imports", "bootstrap"} -> 9
    [] l = "check"     -> 8
    [] l = "claim"     -> 7
    [] l = "port"      -> 6
    [] l = "getme"     -> 5
    [] l = "start"     -> 4
    [] l = "polling"   -> 3
    [] l = "exit"      -> 2
    [] l = "release"   -> 1
    [] OTHER           -> 0

\* Its second pass through the loop is still to come.
FirstPass(b) == botAt[b] \in {"unborn", "imports"} \/ Claiming(b)

\* How many steps a bot process has left, at most.
BotStepsLeft(b) ==
  IF botAt[b] \in {"stale", "ended", "killed"} THEN 0
  ELSE Place(botAt[b]) + 4 * (Rounds - rounds[b]) + 2 * (Patience - waits[b])
       + IF FirstPass(b) THEN 4 * Rounds + 6 ELSE 0

LEMMA BotStepsLeftNat ==
  BotTyping => \A b \in Bots : BotStepsLeft(b) \in 0..(21 + 8*Rounds + 2*Patience)
  BY BotAssumption DEF BotTyping, BotTypeOK, BotStepsLeft, Place, Early, Running

\* One process moves forward, the others stay where they are.
BotFalls ==
  \E b \in Bots : /\ BotStepsLeft(b)' < BotStepsLeft(b)
                  /\ \A c \in Bots \ {b} : BotStepsLeft(c)' = BotStepsLeft(c)

LEMMA BotFallStep ==
  ASSUME BotTyping, BotNext
  PROVE  BotFalls \/ ServerChanges
<1> SUFFICES ASSUME NEW b \in Bots, Launch(b) \/ BotStep(b) \/ StopPolling(b) \/ KillBot(b)
             PROVE  BotFalls
  BY DEF BotNext
<1>0. /\ Rounds \in Nat /\ Patience \in Nat
      /\ rounds[b] \in 0..Rounds /\ waits[b] \in 0..Patience
  BY BotAssumption DEF BotTyping, BotTypeOK
<1>1. \A c \in Bots \ {b} :
        /\ botAt'[c] = botAt[c] /\ rounds'[c] = rounds[c] /\ waits'[c] = waits[c]
        /\ (c \in acquired' <=> c \in acquired)
  BY DEF BotTyping, BotTypeOK, BotGoto, Launch, BotStep, StopPolling, KillBot, OpenLock,
         ReadLock, RereadLock, UnlinkLock, WritePid, Import, Bootstrap, CheckLock, ClaimLock,
         WaitForPort, ProbeServer, StartPolling, ExitBot, ReleaseLock, WaitOrFail, lockVars,
         startVars
<1>2. \A c \in Bots \ {b} : BotStepsLeft(c)' = BotStepsLeft(c)
  BY <1>1 DEF BotStepsLeft, FirstPass, Claiming
<1> USE DEF BotTyping, BotTypeOK, BotRoundsLeft, BotGoto, lockVars, startVars
<1> SUFFICES BotStepsLeft(b)' < BotStepsLeft(b)  BY <1>2 DEF BotFalls
<1>a. /\ botAt[b] \notin {"stale", "ended", "killed"}
      /\ botAt'[b] # "imports" => (FirstPass(b)' => FirstPass(b))
      /\ botAt'[b] = "imports" => FirstPass(b)' /\ FirstPass(b)
  BY DEF FirstPass, Claiming, Launch, BotStep, StopPolling, KillBot, OpenLock, ReadLock,
         RereadLock, UnlinkLock, WritePid, Import, Bootstrap, CheckLock, ClaimLock, WaitForPort,
         ProbeServer, StartPolling, ExitBot, ReleaseLock, WaitOrFail, Living, Early, Running,
         LetIn, TurnedAway
<1>b. FirstPass(b)' => FirstPass(b)  BY <1>a
<1>3. CASE rounds'[b] = rounds[b] /\ waits'[b] = waits[b] /\ Place(botAt'[b]) < Place(botAt[b])
  <2>1. Place(botAt'[b]) \in Nat /\ Place(botAt[b]) \in Nat  BY DEF Place
  <2> QED  BY <1>0, <1>a, <1>b, <1>3, <2>1 DEF BotStepsLeft
<1>4. CASE rounds'[b] = rounds[b] + 1 /\ waits'[b] = waits[b]
           /\ botAt[b] \in {"reread", "unlink"} /\ botAt'[b] = "open"
  BY <1>0, <1>b, <1>4 DEF BotStepsLeft, Place
<1>5. CASE waits'[b] = waits[b] + 1 /\ rounds'[b] = rounds[b]
           /\ botAt[b] \in {"port", "getme"} /\ botAt'[b] = botAt[b]
  BY <1>0, <1>b, <1>5 DEF BotStepsLeft, Place
<1>6. CASE Launch(b) \/ StopPolling(b) \/ KillBot(b) \/ Bootstrap(b)
           \/ CheckLock(b) \/ ClaimLock(b) \/ StartPolling(b) \/ ExitBot(b) \/ ReleaseLock(b)
  BY <1>3, <1>6
  DEF Place, Launch, StopPolling, KillBot, Bootstrap, CheckLock, ClaimLock, StartPolling,
      ExitBot, ReleaseLock, Living, Early, Running
<1>7. CASE OpenLock(b) \/ ReadLock(b) \/ WritePid(b)
  BY <1>3, <1>7 DEF Place, OpenLock, ReadLock, WritePid, LetIn, TurnedAway
<1>8. CASE RereadLock(b) \/ UnlinkLock(b)
  BY <1>0, <1>3, <1>4, <1>8 DEF Place, RereadLock, UnlinkLock
<1>9. CASE WaitForPort(b) \/ ProbeServer(b)
  BY <1>0, <1>3, <1>5, <1>9 DEF Place, WaitForPort, ProbeServer, WaitOrFail
<1>10. CASE Import(b)
  <2>1. CASE botAt'[b] = "exit" /\ rounds'[b] = rounds[b]
    BY <1>3, <1>10, <2>1 DEF Place, Import
  <2>2. CASE botAt'[b] = "open" /\ rounds'[b] = 0
    <3>1. botAt[b] = "imports" /\ waits'[b] = waits[b] /\ acquired' = acquired
      BY <1>10 DEF Import
    <3>2. FirstPass(b) /\ ~FirstPass(b)'
      BY <2>2, <3>1 DEF FirstPass, Claiming, FirstOnly
    <3> QED  BY <1>0, <2>2, <3>1, <3>2 DEF BotStepsLeft, Place
  <2> QED  BY <1>10, <2>1, <2>2 DEF Import
<1> QED  BY <1>6, <1>7, <1>8, <1>9, <1>10 DEF BotStep

\* Only the server may change for ever.
OnlyServer ==
  UNCHANGED <<botFile, botContent, botAt, rounds, seen, acquired, overlapped, waits, launched>>

BotStepsRunOut == [][BotFalls \/ OnlyServer]_botVars

\* Neither the early loop nor the waits for the local server can keep a start
\* busy for ever: a natural number of its own falls with every step of a
\* process, and nobody else raises it, whatever the server does.
THEOREM StartsRunOut ==
  BotSpec =>
    /\ BotStepsRunOut
    /\ [](\A b \in Bots : BotStepsLeft(b) \in 0..(21 + 8*Rounds + 2*Patience))
<1>1. BotTyping => \A b \in Bots : BotStepsLeft(b) \in 0..(21 + 8*Rounds + 2*Patience)
  BY BotStepsLeftNat
<1>2. BotTyping /\ BotNext => BotFalls \/ OnlyServer
  BY BotFallStep DEF OnlyServer, ServerChanges, lockVars
<1> QED  BY <1>1, <1>2, BotTyping_Init, BotTyping_Step, PTL DEF BotSpec, BotStepsRunOut

-----------------------------------------------------------------------------
(* The bot process as a whole.                                             *)

\* What a behaviour of the instance is: one of every component, each of its steps
\* a step of the component or a rest.
LEMMA EveryStepIsAComponents ==
  /\ MCInit => Init /\ BotInit /\ GeminiInit /\ FactoryInit /\ PublicationInit /\ Studio!Init
  /\ [MCNext]_all =>
       /\ [Next]_vars /\ [BotNext]_botVars /\ [GeminiNext]_geminiVars
       /\ [FactoryNext]_factoryVars /\ [PublicationNext]_pubVars /\ [Studio!Next]_(Studio!vars)
<1>1. MCInit => Init /\ BotInit /\ GeminiInit /\ FactoryInit /\ PublicationInit /\ Studio!Init
  BY Zenon DEF MCInit
<1>2. UNCHANGED studioVars => UNCHANGED Studio!vars
  BY DEF studioVars, Studio!vars, Studio!store, Studio!leases, Studio!runners, Studio!worker,
         Studio!bounds
<1>3. ASSUME [MCNext]_all
      PROVE  /\ [Next]_vars /\ [BotNext]_botVars /\ [GeminiNext]_geminiVars
             /\ [FactoryNext]_factoryVars /\ [PublicationNext]_pubVars
             /\ [Studio!Next]_(Studio!vars)
  <2>1. CASE UNCHANGED all  BY <1>2, <2>1 DEF all
  <2>2. CASE WorkerLockNext  BY <1>2, <2>2 DEF WorkerLockNext, Only
  <2>3. CASE BotProcessNext  BY <1>2, <2>3 DEF BotProcessNext, Only
  <2>4. CASE GeminiCapacityNext  BY <1>2, <2>4 DEF GeminiCapacityNext, Only
  <2>5. CASE FactoryDeliveryNext  BY <1>2, <2>5 DEF FactoryDeliveryNext, Only
  <2>6. CASE PublishingNext  BY <1>2, <2>6 DEF PublishingNext, Only
  <2>7. CASE RenderingNext  BY <2>7 DEF RenderingNext, Only
  <2> QED  BY <1>3, <2>1, <2>2, <2>3, <2>4, <2>5, <2>6, <2>7 DEF MCNext
<1> QED  BY <1>1, <1>3

\* Each component behaves in the instance as it is specified by itself, so that
\* what is proved of it above and in its own module holds of the instance.
THEOREM InstanceIsEachComponent ==
  MCFairSpec =>
    Spec /\ BotSpec /\ GeminiSpec /\ FactorySpec /\ PublicationSpec /\ Studio!Spec
<1>1. MCInit /\ [][MCNext]_all =>
        Spec /\ BotSpec /\ GeminiSpec /\ FactorySpec /\ PublicationSpec /\ Studio!Spec
  BY EveryStepIsAComponents, PTL
  DEF Spec, BotSpec, GeminiSpec, FactorySpec, PublicationSpec, Studio!Spec
<1>2. MCFairSpec => MCInit /\ [][MCNext]_all  BY PTL DEF MCFairSpec
<1> QED  BY <1>1, <1>2, PTL

\* Every variable of the bot process keeps its type.
THEOREM InstanceTypes == MCFairSpec => []MCTypeOK
<1>1. TypeOK /\ BotTypeOK /\ GeminiTypeOK /\ FactoryTypeOK /\ PublicationTypeOK => MCTypeOK
  BY DEF MCTypeOK
<1> QED
  BY <1>1, InstanceIsEachComponent, LockTypes, BotTypes, GeminiTypes, FactoryTypes,
     PublicationTyped, PTL
=============================================================================
