------------------------- MODULE VideoRequest_proofs -------------------------
(***************************************************************************)
(* What the user sees of a request for a video, and what the database      *)
(* keeps of it, and how long a request can take, for any number of         *)
(* requests and failures.                                                  *)
(***************************************************************************)
EXTENDS VideoRequest, FiniteSetTheorems, TLAPS

-----------------------------------------------------------------------------
(* Where a request is.                                                     *)

\* Where flush goes on.
AfterFlush ==
  {"fulltext", "timeouttext", "failtext", "pairtext", "rejecttext", "heard", "finished"}

\* Inside _send_livedub_result, before anybody was told.
Unheard ==
  {"await", "check", "fail", "reserved", "oversize", "video", "clean", "mixed", "commit",
   "store", "rollback", "reject", "clear", "fulltext", "timeouttext", "failtext", "pairtext",
   "rejecttext", "heard", "raise"}

Helping == Unheard \cup {"send", "return"}

Flushing(L) == at = "flush" /\ self.then \in L

\* The rollback of a request that was stopped while it sent a companion.
Stopping == at = "rollback" /\ self.then = "stopped"

\* What RequestTypeOK says of the request under way.
ControlTypes ==
  /\ turn \in 0..Visits
  /\ at \in {"idle", "metadata", "client", "prepare", "toolarge", "analysis", "deliver",
             "extras", "end", "except", "error", "finally", "flush", "finished", "quicktext"}
             \cup Helping
  /\ self \in Locals
  /\ work \in {"none", "running", "video", "reserve", "nothing", "cancelled"}
  /\ outcome \in [Numbers -> {"none", "open", "done", "failed", "escaped", "crashed"}]
  /\ troubles \in 0..Troubles
  /\ rowId \in 0..Visits

\* The helper has a caller, and whoever was told is told nothing more.
Flow ==
  /\ at = "flush" => self.then \in AfterFlush
  /\ at \in Helping \cup {"flush"} => self.caller # "none"
  /\ at \in Unheard \/ Flushing(AfterFlush \ {"finished"}) => ~self.heard
  /\ at \notin {"idle", "finally"} =>
       turn \in Numbers /\ outcome[turn] = IF Stopping THEN "crashed" ELSE "open"
  /\ self.then = "stopped" => at \in {"rollback", "idle"}
  /\ \A r \in Numbers : r > turn => outcome[r] = "none"

\* What the helper has sent in this call.
SentShape ==
  /\ at \in {"await", "check", "oversize", "video"} => self.sent = {}
  /\ at \in {"clean", "reserved"} => self.sent = {"video"}
  /\ at = "mixed" => self.sent = {"video", "clean"}
  /\ at \in {"commit", "store"} => self.sent = {"video", "clean", "mixed"}
  /\ at = "rollback" =>
       self.sent \in {{"video"}, {"video", "clean"}, {"video", "clean", "mixed"}}
  /\ at = "reject" =>
       self.sent \in {{}, {"video"}, {"video", "clean"}, {"video", "clean", "mixed"}}

ControlInv == ControlTypes /\ Flow /\ SentShape

\* There are five kinds of message.
LEMMA KindsFinite == IsFiniteSet(Kinds)
<1>1. \A k : IsFiniteSet({k})  BY FS_Singleton
<1>2. IsFiniteSet({"video"} \cup {"clean"})  BY <1>1, FS_Union
<1>3. IsFiniteSet({"mixed"} \cup {"source"})  BY <1>1, FS_Union
<1>4. IsFiniteSet(({"video"} \cup {"clean"}) \cup ({"mixed"} \cup {"source"}))
    BY <1>2, <1>3, FS_Union
<1>5. IsFiniteSet((({"video"} \cup {"clean"}) \cup ({"mixed"} \cup {"source"})) \cup {"text"})
    BY <1>1, <1>4, FS_Union
<1>6. Kinds = (({"video"} \cup {"clean"}) \cup ({"mixed"} \cup {"source"})) \cup {"text"}
    BY DEF Kinds
<1> QED  BY <1>5, <1>6

\* What the user's chat keeps of the messages S that the code deletes.
LEMMA KeptFew ==
  ASSUME troubles \in Nat, NEW S \in SUBSET Kinds, DeleteSent(S)
  PROVE  \E n \in Nat : troubles + n <= Troubles /\ troubles' = troubles + n
<1>1. PICK kept \in SUBSET S : /\ troubles + Cardinality(kept) <= Troubles
                              /\ troubles' = troubles + Cardinality(kept)
  BY DEF DeleteSent
<1>2. IsFiniteSet(Kinds)  BY KindsFinite
<1>3. Cardinality(kept) \in Nat  BY <1>2, FS_Subset, FS_CardinalityType
<1> QED  BY <1>1, <1>3

\* Every step keeps the request where its flow allows it, and the helper's list of
\* what it has sent in the shape of the place where it is.
LEMMA Control_Step == ControlInv /\ [RequestNext]_requestVars => ControlInv'
<1> SUFFICES ASSUME ControlInv, [RequestNext]_requestVars PROVE ControlInv'  OBVIOUS
<1> USE VisitAssumption
    DEF ControlInv, ControlTypes, Flow, SentShape, Flushing, Stopping, AfterFlush, Unheard,
        Helping, Locals, Kinds, Callers, Numbers, GoTo, Trouble, Calm, ended, deferral, store, visible,
        End, Call, NextAfterClient, AfterSource, Send, Tell, FlushThen, Fresh
<1>0. CASE UNCHANGED requestVars  BY <1>0 DEF requestVars
<1>1. CASE Begin
  <2> USE <1>1 DEF Begin
  <2>1. ControlTypes'  OBVIOUS
  <2>2. Flow'  OBVIOUS
  <2>3. SentShape'  OBVIOUS
  <2> QED  BY <2>1, <2>2, <2>3
<1>2. CASE Metadata
  <2> USE <1>2 DEF Metadata
  <2>1. ControlTypes'  OBVIOUS
  <2>2. Flow'  OBVIOUS
  <2>3. SentShape'  OBVIOUS
  <2> QED  BY <2>1, <2>2, <2>3
<1>3. CASE StartDub
  <2> USE <1>3 DEF StartDub
  <2>1. ControlTypes'  OBVIOUS
  <2>2. Flow'  OBVIOUS
  <2>3. SentShape'  OBVIOUS
  <2> QED  BY <2>1, <2>2, <2>3
<1>4. CASE PrepareAudio
  <2> USE <1>4 DEF PrepareAudio
  <2>1. ControlTypes'  OBVIOUS
  <2>2. Flow'  OBVIOUS
  <2>3. SentShape'  OBVIOUS
  <2> QED  BY <2>1, <2>2, <2>3
<1>5. CASE AudioTooLarge
  <2> USE <1>5 DEF AudioTooLarge
  <2>1. ControlTypes'  OBVIOUS
  <2>2. Flow'  OBVIOUS
  <2>3. SentShape'  OBVIOUS
  <2> QED  BY <2>1, <2>2, <2>3
<1>6. CASE Analyse
  <2>0. /\ at = "analysis" /\ at' \in {"deliver", "except"} /\ self' = [self EXCEPT !.then = "fresh"]
        /\ UNCHANGED <<turn, outcome, rowId, work>>
        /\ Trouble \/ Calm
    BY ONLY <1>6, Zenon DEF Analyse, GoTo, ended, Trouble, Calm
  <2>1. self' \in Locals /\ self'.heard = self.heard  BY <2>0
  <2>2. troubles' \in 0..Troubles  BY <2>0 DEF Trouble, Calm
  <2>3. ControlTypes'  BY <2>0, <2>1, <2>2
  <2>4. Flow'  BY <2>0, <2>1
  <2>5. SentShape'  BY <2>0
  <2> QED  BY <2>3, <2>4, <2>5
<1>7. CASE DeliverSource
  <2> USE <1>7 DEF DeliverSource
  <2>1. ControlTypes'  OBVIOUS
  <2>2. Flow'  OBVIOUS
  <2>3. SentShape'  OBVIOUS
  <2> QED  BY <2>1, <2>2, <2>3
<1>8. CASE Extras
  <2> USE <1>8 DEF Extras
  <2>1. ControlTypes'  OBVIOUS
  <2>2. Flow'  OBVIOUS
  <2>3. SentShape'  OBVIOUS
  <2> QED  BY <2>1, <2>2, <2>3
<1>9. CASE SendAtTheEnd
  <2> USE <1>9 DEF SendAtTheEnd
  <2>1. ControlTypes'  OBVIOUS
  <2>2. Flow'  OBVIOUS
  <2>3. SentShape'  OBVIOUS
  <2> QED  BY <2>1, <2>2, <2>3
<1>10. CASE EnterSend
  <2> USE <1>10 DEF EnterSend
  <2>1. ControlTypes'  OBVIOUS
  <2>2. Flow'  OBVIOUS
  <2>3. SentShape'  OBVIOUS
  <2> QED  BY <2>1, <2>2, <2>3
<1>11. CASE AwaitDub
  <2> USE <1>11 DEF AwaitDub
  <2>1. ControlTypes'  
    <3>1. at' \in {"idle", "metadata", "client", "prepare", "toolarge", "analysis", "deliver",
                     "extras", "end", "except", "error", "finally", "flush", "finished", "quicktext"}
                    \cup Helping
      OBVIOUS
    <3>2. self' \in Locals  BY ZenonT(60)
    <3>3. outcome' \in [Numbers -> {"none", "open", "done", "failed", "escaped", "crashed"}]
      OBVIOUS
    <3>4. turn' \in 0..Visits /\ rowId' \in 0..Visits /\ troubles' \in 0..Troubles
      OBVIOUS
    <3> QED  BY <3>1, <3>2, <3>3, <3>4
  <2>2. Flow'  BY ZenonT(60)
  <2>3. SentShape'  OBVIOUS
  <2> QED  BY <2>1, <2>2, <2>3
<1>12. CASE CheckDub
  <2> USE <1>12 DEF CheckDub
  <2>1. ControlTypes'  OBVIOUS
  <2>2. Flow'  OBVIOUS
  <2>3. SentShape'  OBVIOUS
  <2> QED  BY <2>1, <2>2, <2>3
<1>13. CASE SendVideo
  <2> USE <1>13 DEF SendVideo
  <2>1. ControlTypes'  OBVIOUS
  <2>2. Flow'  OBVIOUS
  <2>3. SentShape'  OBVIOUS
  <2> QED  BY <2>1, <2>2, <2>3
<1>14. CASE SendClean
  <2> USE <1>14 DEF SendClean
  <2>1. ControlTypes'  OBVIOUS
  <2>2. Flow'  OBVIOUS
  <2>3. SentShape'  OBVIOUS
  <2> QED  BY <2>1, <2>2, <2>3
<1>15. CASE SendMixed
  <2> USE <1>15 DEF SendMixed
  <2>1. ControlTypes'  OBVIOUS
  <2>2. Flow'  OBVIOUS
  <2>3. SentShape'  OBVIOUS
  <2> QED  BY <2>1, <2>2, <2>3
<1>16. CASE Commit
  <2> USE <1>16 DEF Commit
  <2>1. ControlTypes'  OBVIOUS
  <2>2. Flow'  OBVIOUS
  <2>3. SentShape'  OBVIOUS
  <2> QED  BY <2>1, <2>2, <2>3
<1>17. CASE StoreId
  <2> USE <1>17 DEF StoreId
  <2>1. ControlTypes'  OBVIOUS
  <2>2. Flow'  OBVIOUS
  <2>3. SentShape'  OBVIOUS
  <2> QED  BY <2>1, <2>2, <2>3
<1>18. CASE Rollback
  <2> USE <1>18 DEF Rollback
  <2>1. ControlTypes'
    <3>1. troubles' \in 0..Troubles
      <4>1. self.sent \cap {"clean", "mixed"} \in SUBSET Kinds /\ troubles \in Nat  OBVIOUS
      <4>2. PICK n \in Nat : troubles + n <= Troubles /\ troubles' = troubles + n
        BY <4>1, KeptFew
      <4> QED  BY <4>2
    <3> QED  BY <3>1
  <2>2. Flow'  OBVIOUS
  <2>3. SentShape'  OBVIOUS
  <2> QED  BY <2>1, <2>2, <2>3
<1>19. CASE RejectVideo
  <2> USE <1>19 DEF RejectVideo
  <2>1. ControlTypes'
    <3>1. troubles' \in 0..Troubles
      <4>1. self.sent \cap {"video"} \in SUBSET Kinds /\ troubles \in Nat  OBVIOUS
      <4>2. PICK n \in Nat : troubles + n <= Troubles /\ troubles' = troubles + n
        BY <4>1, KeptFew
      <4> QED  BY <4>2
    <3> QED  BY <3>1
  <2>2. Flow'  OBVIOUS
  <2>3. SentShape'  OBVIOUS
  <2> QED  BY <2>1, <2>2, <2>3
<1>20. CASE ClearId
  <2> USE <1>20 DEF ClearId
  <2>1. ControlTypes'  OBVIOUS
  <2>2. Flow'  OBVIOUS
  <2>3. SentShape'  OBVIOUS
  <2> QED  BY <2>1, <2>2, <2>3
<1>21. CASE FlushFirst
  <2> USE <1>21 DEF FlushFirst
  <2>1. ControlTypes'  OBVIOUS
  <2>2. Flow'  OBVIOUS
  <2>3. SentShape'  OBVIOUS
  <2> QED  BY <2>1, <2>2, <2>3
<1>22. CASE FlushEnds
  <2> USE <1>22 DEF FlushEnds
  <2>1. ControlTypes'  OBVIOUS
  <2>2. Flow'  OBVIOUS
  <2>3. SentShape'  OBVIOUS
  <2> QED  BY <2>1, <2>2, <2>3
<1>23. CASE Oversize
  <2> USE <1>23 DEF Oversize
  <2>1. ControlTypes'  OBVIOUS
  <2>2. Flow'  OBVIOUS
  <2>3. SentShape'  OBVIOUS
  <2> QED  BY <2>1, <2>2, <2>3
<1>24. CASE Notice
  <2> USE <1>24 DEF Notice
  <2>1. ControlTypes'  OBVIOUS
  <2>2. Flow'  OBVIOUS
  <2>3. SentShape'  OBVIOUS
  <2> QED  BY <2>1, <2>2, <2>3
<1>25. CASE Heard
  <2> USE <1>25 DEF Heard
  <2>1. ControlTypes'  OBVIOUS
  <2>2. Flow'  OBVIOUS
  <2>3. SentShape'  OBVIOUS
  <2> QED  BY <2>1, <2>2, <2>3
<1>26. CASE Return
  <2> USE <1>26 DEF Return
  <2>1. ControlTypes'  BY ZenonT(60)
  <2>2. Flow'  BY ZenonT(60)
  <2>3. SentShape'  OBVIOUS
  <2> QED  BY <2>1, <2>2, <2>3
<1>27. CASE Raise
  <2> USE <1>27 DEF Raise
  <2>1. ControlTypes'  OBVIOUS
  <2>2. Flow'  OBVIOUS
  <2>3. SentShape'  OBVIOUS
  <2> QED  BY <2>1, <2>2, <2>3
<1>28. CASE Rescue
  <2> USE <1>28 DEF Rescue
  <2>1. ControlTypes'  OBVIOUS
  <2>2. Flow'  OBVIOUS
  <2>3. SentShape'  OBVIOUS
  <2> QED  BY <2>1, <2>2, <2>3
<1>29. CASE Report
  <2> USE <1>29 DEF Report
  <2>1. ControlTypes'  OBVIOUS
  <2>2. Flow'  OBVIOUS
  <2>3. SentShape'  OBVIOUS
  <2> QED  BY <2>1, <2>2, <2>3
<1>30. CASE Succeed
  <2> USE <1>30 DEF Succeed
  <2>1. ControlTypes'  OBVIOUS
  <2>2. Flow'  OBVIOUS
  <2>3. SentShape'  OBVIOUS
  <2> QED  BY <2>1, <2>2, <2>3
<1>31. CASE Finally
  <2> USE <1>31 DEF Finally
  <2>1. ControlTypes'  OBVIOUS
  <2>2. Flow'  OBVIOUS
  <2>3. SentShape'  OBVIOUS
  <2> QED  BY <2>1, <2>2, <2>3
<1>32. CASE Background
  <2> USE <1>32 DEF Background
  <2>1. ControlTypes'  OBVIOUS
  <2>2. Flow'  OBVIOUS
  <2>3. SentShape'  OBVIOUS
  <2> QED  BY <2>1, <2>2, <2>3
<1>33. CASE WaitTimeout
  <2> USE <1>33 DEF WaitTimeout
  <2>1. ControlTypes'  OBVIOUS
  <2>2. Flow'  OBVIOUS
  <2>3. SentShape'  OBVIOUS
  <2> QED  BY <2>1, <2>2, <2>3
<1>34. CASE Crash
  <2> USE <1>34 DEF Crash, TasksEnd
  <2>1. ControlTypes'  
    <3>1. at' \in {"idle", "metadata", "client", "prepare", "toolarge", "analysis", "deliver",
                     "extras", "end", "except", "error", "finally", "flush", "finished", "quicktext"}
                    \cup Helping
      OBVIOUS
    <3>2. self' \in Locals  OBVIOUS
    <3>3. outcome' \in [Numbers -> {"none", "open", "done", "failed", "escaped", "crashed"}]
      OBVIOUS
    <3>4. turn' \in 0..Visits /\ rowId' \in 0..Visits /\ troubles' \in 0..Troubles
      OBVIOUS
    <3> QED  BY <3>1, <3>2, <3>3, <3>4
  <2>2. Flow'  OBVIOUS
  <2>3. SentShape'  OBVIOUS
  <2> QED  BY <2>1, <2>2, <2>3
<1>35. ASSUME NEW r \in Numbers, TimerStep(r) PROVE ControlInv'  BY <1>35
                                                                    DEF TimerStep, TimerFires,
                                                                        TimerSends
<1>36. CASE StopSend
  <2> USE <1>36 DEF StopSend, TasksEnd
  <2>1. ControlTypes'
    <3>1. at' = "rollback" /\ self' \in Locals  OBVIOUS
    <3>2. outcome' \in [Numbers -> {"none", "open", "done", "failed", "escaped", "crashed"}]
      OBVIOUS
    <3>3. turn' \in 0..Visits /\ rowId' \in 0..Visits /\ troubles' \in 0..Troubles
      OBVIOUS
    <3>4. work' = "none"  OBVIOUS
    <3> QED  BY <3>1, <3>2, <3>3, <3>4
  <2>2. Flow'  OBVIOUS
  <2>3. SentShape'  OBVIOUS
  <2> QED  BY <2>1, <2>2, <2>3
<1>37. ASSUME NEW r \in Numbers, PushOut(r) PROVE ControlInv'  BY <1>37 DEF PushOut
<1> QED  BY <1>0, <1>1, <1>2, <1>3, <1>4, <1>5, <1>6, <1>7, <1>8, <1>9, <1>10, <1>11, <1>12,
            <1>13, <1>14, <1>15, <1>16, <1>17, <1>18, <1>19, <1>20, <1>21, <1>22, <1>23, <1>24,
            <1>25, <1>26, <1>27, <1>28, <1>29, <1>30, <1>31, <1>32, <1>33, <1>34, <1>35, <1>36,
            <1>37
            DEF RequestNext, RequestStep

-----------------------------------------------------------------------------
(* The deferred source MP3 and its timer.                                  *)

\* Only Begin goes on to the next request.
LEMMA TurnStays ==
  ASSUME ControlInv, RequestNext, ~Begin
  PROVE  turn' = turn
<1> USE DEF ended, End
<1>1. CASE Return
  <2>1. self.caller \in Callers \ {"none"} /\ self.heard \in BOOLEAN
    BY <1>1 DEF Return, ControlInv, ControlTypes, Flow, Helping, Locals
  <2> QED  BY <1>1, <2>1 DEF Return, Callers
<1>2. CASE \/ Metadata \/ StartDub \/ PrepareAudio \/ AudioTooLarge \/ Analyse
           \/ DeliverSource \/ Extras
  BY <1>2 DEF Metadata, StartDub, PrepareAudio, AudioTooLarge, Analyse, DeliverSource, Extras
<1>3. CASE SendAtTheEnd \/ EnterSend \/ AwaitDub \/ CheckDub \/ SendVideo \/ SendClean \/ SendMixed
  BY <1>3 DEF SendAtTheEnd, EnterSend, AwaitDub, CheckDub, SendVideo, SendClean, SendMixed
<1>4. CASE Commit \/ StoreId \/ Rollback \/ RejectVideo \/ ClearId \/ FlushFirst \/ FlushEnds
  BY <1>4 DEF Commit, StoreId, Rollback, RejectVideo, ClearId, FlushFirst, FlushEnds
<1>5. CASE Oversize \/ Notice \/ Heard \/ Raise \/ Rescue \/ Report \/ Succeed \/ Finally
  BY <1>5 DEF Oversize, Notice, Heard, Raise, Rescue, Report, Succeed, Finally
<1>6. CASE Background \/ WaitTimeout \/ Crash \/ StopSend \/ \E r \in Numbers : PushOut(r)
  BY <1>6 DEF Background, WaitTimeout, Crash, StopSend, PushOut
<1>7. CASE \E r \in Numbers : TimerStep(r)
  BY <1>7 DEF TimerStep, TimerFires, TimerSends
<1> QED  BY <1>1, <1>2, <1>3, <1>4, <1>5, <1>6, <1>7 DEF RequestNext, RequestStep

\* A timer runs just as long as an MP3 is held, and requests to come have none.
DeferralInv ==
  /\ mp3 \in [Numbers -> {"none", "held", "over"}]
  /\ timer \in [Numbers -> {"off", "armed", "sending"}]
  /\ missed \in [Numbers -> BOOLEAN]
  /\ \A r \in Numbers : mp3[r] = "held" <=> timer[r] # "off"
  /\ \A r \in Numbers : r > turn => mp3[r] = "none" /\ ~missed[r]

\* Every step that starts, sends, drops or loses the source MP3 keeps its timer in line.
LEMMA Deferral_Step == ControlInv /\ DeferralInv /\ [RequestNext]_requestVars => DeferralInv'
<1> SUFFICES ASSUME ControlInv, DeferralInv, [RequestNext]_requestVars PROVE DeferralInv'  OBVIOUS
<1>a. turn \in 0..Visits /\ (at \notin {"idle", "finally"} => turn \in Numbers)
  BY DEF ControlInv, ControlTypes, Flow
<1> USE VisitAssumption, <1>a DEF DeferralInv, Numbers, ended, deferral
<1>0. CASE UNCHANGED requestVars  BY <1>0 DEF requestVars
<1>1. CASE Begin  BY <1>1 DEF Begin
<1>2. CASE Metadata  BY <1>2 DEF Metadata, End
<1>3. CASE StartDub  BY <1>3 DEF StartDub, End
<1>4. CASE PrepareAudio  BY <1>4 DEF PrepareAudio
<1>5. CASE AudioTooLarge  BY <1>5 DEF AudioTooLarge
<1>6. CASE Analyse  BY <1>6 DEF Analyse
<1>7. CASE DeliverSource  BY <1>7 DEF DeliverSource, Defer
<1>8. CASE Extras  BY <1>8 DEF Extras
<1>9. CASE SendAtTheEnd  BY <1>9 DEF SendAtTheEnd
<1>10. CASE EnterSend  BY <1>10 DEF EnterSend
<1>11. CASE AwaitDub  BY <1>11 DEF AwaitDub, End
<1>12. CASE CheckDub  BY <1>12 DEF CheckDub
<1>13. CASE SendVideo  BY <1>13 DEF SendVideo
<1>14. CASE SendClean  BY <1>14 DEF SendClean
<1>15. CASE SendMixed  BY <1>15 DEF SendMixed
<1>16. CASE Commit  BY <1>16 DEF Commit, Cleanup
<1>17. CASE StoreId  BY <1>17 DEF StoreId
<1>18. CASE Rollback  BY <1>18 DEF Rollback
<1>19. CASE RejectVideo  BY <1>19 DEF RejectVideo
<1>20. CASE ClearId  BY <1>20 DEF ClearId
<1>21. CASE FlushFirst  BY <1>21 DEF FlushFirst
<1>22. CASE FlushEnds
  <2>1. /\ turn \in Numbers /\ turn' = turn
        /\ mp3' = [mp3 EXCEPT ![turn] = IF @ = "held" THEN "over" ELSE @]
        /\ timer' = [timer EXCEPT ![turn] = "off"]
        /\ missed' = missed \/ missed' = [missed EXCEPT ![turn] = TRUE]
    BY <1>22 DEF FlushEnds, Cleanup
  <2>2. mp3' \in [Numbers -> {"none", "held", "over"}]  BY <2>1
  <2>3. timer' \in [Numbers -> {"off", "armed", "sending"}]  BY <2>1
  <2>4. missed' \in [Numbers -> BOOLEAN]  BY <2>1
  <2>5. \A r \in Numbers : mp3'[r] = "held" <=> timer'[r] # "off"  BY <2>1
  <2>6. \A r \in Numbers : r > turn' => mp3'[r] = "none" /\ ~missed'[r]  BY <2>1
  <2> QED  BY <2>2, <2>3, <2>4, <2>5, <2>6
<1>23. CASE Oversize  BY <1>23 DEF Oversize
<1>24. CASE Notice  BY <1>24 DEF Notice
<1>25. CASE Heard  BY <1>25 DEF Heard
<1>26. CASE Return
  <2>1. ~Begin /\ RequestNext  BY <1>26 DEF Begin, Return, RequestNext, RequestStep
  <2>2. turn' = turn  BY <2>1, TurnStays
  <2> QED  BY <1>26, <2>2 DEF Return
<1>27. CASE Raise  BY <1>27 DEF Raise, End
<1>28. CASE Rescue  BY <1>28 DEF Rescue
<1>29. CASE Report  BY <1>29 DEF Report, End
<1>30. CASE Succeed  BY <1>30 DEF Succeed, End
<1>31. CASE Finally  BY <1>31 DEF Finally
<1>32. CASE Background  BY <1>32 DEF Background
<1>33. CASE WaitTimeout  BY <1>33 DEF WaitTimeout
<1>34. CASE Crash  BY <1>34 DEF Crash, TasksEnd
<1>35. ASSUME NEW r \in Numbers, TimerStep(r) PROVE DeferralInv'  BY ZenonT(60), <1>35
                                                                     DEF TimerStep, TimerFires,
                                                                         TimerSends
<1>36. CASE StopSend  BY <1>36 DEF StopSend, TasksEnd
<1>37. ASSUME NEW r \in Numbers, PushOut(r) PROVE DeferralInv'  BY <1>37 DEF PushOut
<1> QED  BY <1>0, <1>1, <1>2, <1>3, <1>4, <1>5, <1>6, <1>7, <1>8, <1>9, <1>10, <1>11, <1>12,
            <1>13, <1>14, <1>15, <1>16, <1>17, <1>18, <1>19, <1>20, <1>21, <1>22, <1>23, <1>24,
            <1>25, <1>26, <1>27, <1>28, <1>29, <1>30, <1>31, <1>32, <1>33, <1>34, <1>35, <1>36,
            <1>37
            DEF RequestNext, RequestStep

-----------------------------------------------------------------------------
(* The messages.                                                           *)

\* The kinds of message that only the helper sends.
Dub == {"video", "clean", "mixed"}

\* Where the messages of the present call are those of self.sent.
AfterVideo == {"clean", "mixed", "commit", "store", "rollback", "reserved"}

\* Requests to come have no message, and one that the code means to delete is there.
ChatInv ==
  /\ chat \in [Numbers -> [Kinds -> Nat]] /\ stray \in [Numbers -> Nat]
  /\ \A r \in Numbers : r > turn => stray[r] = 0 /\ \A k \in Kinds : chat[r][k] = 0
  /\ at \in AfterVideo => \A k \in self.sent : chat[turn][k] > 0
  /\ at = "reject" /\ "video" \in self.sent => chat[turn]["video"] > 0

\* One message more, of one kind and for one request.
LEMMA ShownEffect ==
  ASSUME NEW c \in [Numbers -> [Kinds -> Nat]], NEW r \in Numbers, NEW k \in Kinds
  PROVE  /\ Shown(c, r, k) \in [Numbers -> [Kinds -> Nat]]
         /\ \A s \in Numbers \ {r} : Shown(c, r, k)[s] = c[s]
         /\ \A j \in Kinds \ {k} : Shown(c, r, k)[r][j] = c[r][j]
         /\ Shown(c, r, k)[r][k] = IF k = "text" THEN 1 ELSE c[r][k] + 1
  BY DEF Shown, Kinds

\* Messages of the request under way are deleted, but for those that are counted
\* as there against the code's will.
LEMMA DeleteEffect ==
  ASSUME chat \in [Numbers -> [Kinds -> Nat]], stray \in [Numbers -> Nat], turn \in Numbers,
         NEW S \in SUBSET Kinds, \A k \in S : chat[turn][k] > 0, DeleteSent(S)
  PROVE  /\ chat' \in [Numbers -> [Kinds -> Nat]] /\ stray' \in [Numbers -> Nat]
         /\ \A r \in Numbers \ {turn} : chat'[r] = chat[r] /\ stray'[r] = stray[r]
         /\ \A k \in Kinds \ S : chat'[turn][k] = chat[turn][k]
         /\ stray'[turn] = 0 =>
              stray[turn] = 0 /\ \A k \in S : chat'[turn][k] = chat[turn][k] - 1
<1>1. PICK kept \in SUBSET S :
        /\ chat' = [chat EXCEPT ![turn] = [k \in Kinds |-> IF k \in S \ kept THEN @[k] - 1 ELSE @[k]]]
        /\ stray' = [stray EXCEPT ![turn] = @ + Cardinality(kept)]
  BY DEF DeleteSent
<1>2. IsFiniteSet(kept)  BY KindsFinite, FS_Subset
<1>3. Cardinality(kept) \in Nat /\ (Cardinality(kept) = 0 => kept = {})
  BY <1>2, FS_CardinalityType, FS_EmptySet
<1>4. \A k \in Kinds : chat'[turn][k] = IF k \in S \ kept THEN chat[turn][k] - 1 ELSE chat[turn][k]
  BY <1>1
<1>5. chat' \in [Numbers -> [Kinds -> Nat]]  BY <1>1
<1>6. stray' \in [Numbers -> Nat]  BY <1>1, <1>3
<1>7. \A r \in Numbers \ {turn} : chat'[r] = chat[r] /\ stray'[r] = stray[r]  BY <1>1
<1>8. stray'[turn] = stray[turn] + Cardinality(kept)  BY <1>1
<1> QED  BY <1>3, <1>4, <1>5, <1>6, <1>7, <1>8

Chats == [Numbers -> [Kinds -> Nat]]

\* From chat c to chat d, no message of a dub came or went and no MP3 went.
Kept(c, d) ==
  /\ d \in Chats
  /\ \A r \in Numbers, k \in Dub : d[r][k] = c[r][k]
  /\ \A r \in Numbers : d[r]["source"] >= c[r]["source"]
  /\ \A r \in Numbers : r > turn => d[r] = c[r]

StrayGrows ==
  /\ stray' \in [Numbers -> Nat]
  /\ \A r \in Numbers : stray'[r] >= stray[r] /\ (r > turn => stray'[r] = stray[r])

DubKept == Kept(chat, chat') /\ StrayGrows

\* One text or MP3 more leaves the dub's messages alone.
LEMMA ShownKept ==
  ASSUME turn \in Nat, NEW c \in Chats, NEW r \in Numbers, r <= turn,
         NEW k \in {"text", "source"}
  PROVE  Kept(c, Shown(c, r, k))
<1> DEFINE d == Shown(c, r, k)
<1>1. k \in Kinds /\ k \notin Dub  BY DEF Kinds, Dub
<1>2. /\ d \in Chats
      /\ \A s \in Numbers \ {r} : d[s] = c[s]
      /\ \A j \in Kinds \ {k} : d[r][j] = c[r][j]
      /\ d[r][k] = IF k = "text" THEN 1 ELSE c[r][k] + 1
  BY <1>1, ShownEffect DEF Chats
<1> HIDE DEF d
<1>3. \A s \in Numbers, j \in Dub : d[s][j] = c[s][j]  BY <1>1, <1>2 DEF Kinds, Dub
<1>4. \A s \in Numbers : d[s]["source"] >= c[s]["source"]
  <2> SUFFICES ASSUME NEW s \in Numbers PROVE d[s]["source"] >= c[s]["source"]  OBVIOUS
  <2>1. c[s]["source"] \in Nat  BY DEF Chats, Kinds
  <2>2. CASE s # r  BY <1>2, <2>1, <2>2
  <2>3. CASE s = r /\ k = "source"  BY <1>2, <2>1, <2>3
  <2>4. CASE s = r /\ k = "text"  BY <1>2, <2>1, <2>4 DEF Kinds
  <2> QED  BY <2>2, <2>3, <2>4
<1>5. \A s \in Numbers : s > turn => d[s] = c[s]  BY <1>2, VisitAssumption DEF Numbers
<1> QED  BY <1>2, <1>3, <1>4, <1>5 DEF Kept, d

\* So do several.
LEMMA KeptTwice ==
  ASSUME NEW b \in Chats, NEW c, NEW d, Kept(b, c), Kept(c, d)
  PROVE  Kept(b, d)
<1>1. \A r \in Numbers : /\ b[r]["source"] \in Nat /\ c[r]["source"] \in Nat
                         /\ d[r]["source"] \in Nat
  BY DEF Kept, Chats, Kinds
<1> QED  BY <1>1 DEF Kept

LEMMA KeptItself == \A c \in Chats : Kept(c, c)
  BY DEF Kept, Chats, Kinds

\* Only the helper's three sends, one of them perhaps cut short by a stop, and its
\* two deletions touch the dub's messages.
Delivering == SendVideo \/ SendClean \/ SendMixed \/ Rollback \/ RejectVideo \/ StopSend

LEMMA DubKept_Step ==
  ASSUME ControlInv, DeferralInv, chat \in Chats, stray \in [Numbers -> Nat],
         [RequestNext]_requestVars, ~Delivering
  PROVE  DubKept
<1>a. /\ turn \in Nat /\ (at \notin {"idle", "finally"} => turn \in Numbers)
      /\ Kept(chat, chat) /\ (stray' = stray => StrayGrows)
      /\ \A r \in Numbers : r <= turn =>
           Kept(chat, Shown(chat, r, "text")) /\ Kept(chat, Shown(chat, r, "source"))
  <2>1. turn \in Nat /\ (at \notin {"idle", "finally"} => turn \in Numbers)
    BY VisitAssumption DEF ControlInv, ControlTypes, Flow
  <2>2. stray' = stray => StrayGrows  BY DEF StrayGrows
  <2> QED  BY <2>1, <2>2, ShownKept, KeptItself
<1>b. ASSUME NEW r \in Numbers, r <= turn, stray' = [stray EXCEPT ![r] = @ + 1] PROVE StrayGrows
  BY <1>b, <1>a, VisitAssumption DEF StrayGrows, Numbers
<1>0. ASSUME UNCHANGED <<chat, stray>> PROVE DubKept
  BY <1>0, <1>a DEF DubKept
<1>1. ASSUME turn \in Numbers, stray' = stray,
             chat' \in {chat, Shown(chat, turn, "text"), Shown(chat, turn, "source")}
      PROVE  DubKept
  BY <1>1, <1>a DEF DubKept
<1>2. CASE \/ UNCHANGED requestVars \/ Begin \/ PrepareAudio \/ Analyse \/ Extras \/ SendAtTheEnd
           \/ EnterSend \/ AwaitDub \/ CheckDub \/ StoreId \/ ClearId \/ FlushFirst
  BY <1>2, <1>0 DEF requestVars, Begin, PrepareAudio, Analyse, Extras, SendAtTheEnd, EnterSend,
                    AwaitDub, CheckDub, StoreId, ClearId, FlushFirst, visible
<1>3. CASE \/ Heard \/ Return \/ Raise \/ Rescue \/ Succeed \/ Finally \/ Background
           \/ WaitTimeout \/ Crash \/ \E r \in Numbers : PushOut(r)
  BY <1>3, <1>0 DEF Heard, Return, Raise, Rescue, Succeed, Finally, Background, WaitTimeout, Crash,
                    PushOut, visible
<1>4. CASE Metadata \/ StartDub \/ AudioTooLarge \/ Oversize \/ Notice \/ Report
  <2>1. at \notin {"idle", "finally"}
    BY <1>4 DEF Metadata, StartDub, AudioTooLarge, Oversize, Notice, Report
  <2>2. stray' = stray /\ chat' \in {chat, Shown(chat, turn, "text")}
    BY <1>4 DEF Metadata, StartDub, AudioTooLarge, Oversize, Notice, Report, visible, Show, Tell
  <2> QED  BY <1>1, <1>a, <2>1, <2>2
<1>5. CASE DeliverSource
  <2>1. turn \in Numbers /\ turn <= turn  BY <1>5, <1>a DEF DeliverSource
  <2>2. CASE stray' = stray /\ chat' \in {chat, Shown(chat, turn, "source")}
    BY <1>1, <2>1, <2>2
  <2>3. CASE chat' = Shown(chat, turn, "source") /\ stray' = [stray EXCEPT ![turn] = @ + 1]
    BY <1>a, <1>b, <2>1, <2>3 DEF DubKept
  <2> QED  BY <1>5, <2>2, <2>3 DEF DeliverSource, visible, Show, MaybeShown
<1>6. CASE FlushEnds
  <2>1. turn \in Numbers /\ stray' = stray  BY <1>6, <1>a DEF FlushEnds
  <2>2. PICK c \in {chat, Shown(chat, turn, "source")} : chat' \in {c, Shown(c, turn, "source")}
    BY <1>6 DEF FlushEnds, Cleanup
  <2>3. Kept(chat, c) /\ c \in Chats  BY <1>a, <2>1 DEF Kept
  <2>4. Kept(c, Shown(c, turn, "source"))  BY <1>a, <2>1, <2>3, ShownKept
  <2>5. Kept(chat, chat')  BY <2>2, <2>3, <2>4, KeptTwice
  <2> QED  BY <1>a, <2>1, <2>5 DEF DubKept
<1>7. CASE Commit
  <2>1. turn \in Numbers /\ stray' = stray /\ chat' \in {chat, Shown(chat, turn, "source")}
    BY <1>7, <1>a DEF Commit, Cleanup
  <2> QED  BY <1>1, <2>1
<1>8. ASSUME NEW r \in Numbers, TimerStep(r) PROVE DubKept
  <2>1. r <= turn
    BY <1>8, <1>a, VisitAssumption DEF DeferralInv, TimerStep, TimerFires, TimerSends, Numbers
  <2>2. stray' = stray /\ chat' \in {chat, Shown(chat, r, "source")}
    BY <1>8 DEF TimerStep, TimerFires, TimerSends, visible
  <2> QED  BY <1>a, <2>1, <2>2 DEF DubKept
<1> QED  BY <1>2, <1>3, <1>4, <1>5, <1>6, <1>7, <1>8 DEF RequestNext, RequestStep, Delivering

\* Where messages of the present call are about to be added to or deleted, who
\* does neither has not come here.
LEMMA StayAfterVideo ==
  ASSUME ControlInv, [RequestNext]_requestVars, ~Delivering
  PROVE  /\ at' \in AfterVideo => at \in AfterVideo /\ self'.sent = self.sent /\ turn' = turn
         /\ at' = "reject" => at = "reject" /\ self'.sent = self.sent /\ turn' = turn
<1> USE DEF AfterVideo, GoTo, ended, FlushThen, Call, End
<1>a. /\ at = "flush" => self.then \in AfterFlush
      /\ self \in Locals
  BY DEF ControlInv, ControlTypes, Flow
<1>1. CASE \/ Metadata \/ StartDub \/ PrepareAudio \/ AudioTooLarge \/ Analyse
           \/ DeliverSource \/ Extras
  BY <1>1 DEF Metadata, StartDub, PrepareAudio, AudioTooLarge, Analyse, DeliverSource, Extras,
              NextAfterClient, AfterSource
<1>2. CASE UNCHANGED requestVars \/ Begin \/ SendAtTheEnd \/ EnterSend \/ AwaitDub \/ CheckDub
  BY <1>2 DEF requestVars, Begin, SendAtTheEnd, EnterSend, AwaitDub, CheckDub
<1>3. CASE Commit \/ StoreId \/ ClearId \/ FlushFirst
  BY <1>3 DEF Commit, StoreId, ClearId, FlushFirst
<1>4. CASE FlushEnds
  BY <1>4, <1>a DEF FlushEnds, AfterFlush
<1>5. CASE Oversize \/ Notice \/ Heard \/ Raise \/ Rescue \/ Report \/ Succeed \/ Finally
  BY <1>5 DEF Oversize, Notice, Tell, Heard, Raise, Rescue, Report, Succeed, Finally
<1>6. CASE Return
  <2>1. self.caller \in Callers \ {"none"} /\ self.heard \in BOOLEAN
    BY <1>6 DEF Return, ControlInv, ControlTypes, Flow, Helping, Locals
  <2> QED  BY <1>6, <2>1 DEF Return, Callers
<1>7. CASE \/ Background \/ WaitTimeout \/ Crash \/ \E r \in Numbers : PushOut(r)
           \/ \E r \in Numbers : TimerStep(r)
  BY <1>7 DEF Background, WaitTimeout, Crash, PushOut, TimerStep, TimerFires, TimerSends
<1> QED  BY <1>1, <1>2, <1>3, <1>4, <1>5, <1>6, <1>7 DEF RequestNext, RequestStep, Delivering

\* A message of the dub is sent and counted; or the call fails, and then it is
\* not there unless it is counted as there against the code's will.
LEMMA SendEffect ==
  ASSUME chat \in Chats, stray \in [Numbers -> Nat], turn \in Numbers, self \in Locals,
         NEW k \in Dub, NEW sent, NEW L, Send(k, sent, L)
  PROVE  /\ chat' \in Chats /\ stray' \in [Numbers -> Nat]
         /\ \A r \in Numbers \ {turn} : chat'[r] = chat[r] /\ stray'[r] = stray[r]
         /\ \A j \in Kinds \ {k} : chat'[turn][j] = chat[turn][j]
         /\ chat'[turn][k] >= chat[turn][k]
         /\ \/ /\ at' = sent /\ self' = [self EXCEPT !.sent = @ \cup {k}]
               /\ chat'[turn][k] = chat[turn][k] + 1 /\ stray' = stray
            \/ /\ at' \in L /\ self' = self
               /\ stray'[turn] = 0 => chat' = chat /\ stray' = stray
<1>1. k \in Kinds /\ k # "text"  BY DEF Dub, Kinds
<1>2. chat[turn][k] \in Nat /\ stray[turn] \in Nat  BY <1>1 DEF Chats
<1>3. CASE chat' = Shown(chat, turn, k)
  <2>1. /\ chat' \in Chats
        /\ \A r \in Numbers \ {turn} : chat'[r] = chat[r]
        /\ \A j \in Kinds \ {k} : chat'[turn][j] = chat[turn][j]
        /\ chat'[turn][k] = chat[turn][k] + 1
    <3> DEFINE d == Shown(chat, turn, k)
    <3>1. /\ d \in Chats
          /\ \A r \in Numbers \ {turn} : d[r] = chat[r]
          /\ \A j \in Kinds \ {k} : d[turn][j] = chat[turn][j]
          /\ d[turn][k] = IF k = "text" THEN 1 ELSE chat[turn][k] + 1
      BY ZenonT(60), <1>1, ShownEffect DEF Chats
    <3>2. chat' = d  BY <1>3
    <3> HIDE DEF d
    <3> QED  BY <1>1, <3>1, <3>2
  <2>2. CASE /\ at' = sent /\ self' = [self EXCEPT !.sent = @ \cup {k}] /\ stray' = stray
    BY <1>2, <2>1, <2>2
  <2>3. CASE /\ at' \in L /\ self' = self /\ stray' = [stray EXCEPT ![turn] = @ + 1]
    <3>1. stray'[turn] # 0 /\ stray' \in [Numbers -> Nat]
          /\ \A r \in Numbers \ {turn} : stray'[r] = stray[r]
      BY <1>2, <2>3
    <3> QED  BY <1>2, <2>1, <2>3, <3>1
  <2>4. CASE UNCHANGED <<chat, stray>>  BY <1>2, <2>1, <2>4
  <2> QED  BY <1>3, <2>2, <2>3, <2>4 DEF Send, Show, MaybeShown, GoTo, visible
<1>4. CASE chat' # Shown(chat, turn, k)
  <2>1. UNCHANGED <<chat, stray>> /\ at' \in L /\ self' = self
    BY <1>4 DEF Send, Show, MaybeShown, visible
  <2> QED  BY <1>2, <2>1
<1> QED  BY <1>3, <1>4

\* A send that a stop cuts short has left nothing, unless that is counted.
LEMMA StopEffect ==
  ASSUME ControlInv, chat \in Chats, stray \in [Numbers -> Nat], StopSend
  PROVE  /\ turn \in Numbers /\ turn' = turn /\ at' = "rollback"
         /\ self'.sent = self.sent /\ self'.heard = self.heard /\ self'.offered = self.offered
         /\ chat' \in Chats /\ stray' \in [Numbers -> Nat]
         /\ \A r \in Numbers \ {turn} : chat'[r] = chat[r] /\ stray'[r] = stray[r]
         /\ \A k \in Dub : chat'[turn][k] >= chat[turn][k]
         /\ chat'[turn]["source"] = chat[turn]["source"]
         /\ stray'[turn] = 0 => chat' = chat /\ stray' = stray
<1>1. /\ turn \in Numbers /\ turn' = turn /\ at' = "rollback" /\ at \in {"clean", "mixed"}
      /\ self' = [self EXCEPT !.then = "stopped"] /\ self \in Locals
  BY DEF StopSend, ControlInv, ControlTypes, Flow, GoTo
<1>2. self'.sent = self.sent /\ self'.heard = self.heard /\ self'.offered = self.offered
  BY <1>1 DEF Locals
<1>3. CASE UNCHANGED <<chat, stray>>
  <2>1. \A k \in Dub : chat[turn][k] \in Nat  BY <1>1 DEF Chats, Dub, Kinds
  <2> QED  BY <1>1, <1>2, <1>3, <2>1
<1>4. CASE chat' = Shown(chat, turn, at) /\ stray' = [stray EXCEPT ![turn] = @ + 1]
  <2>0. PICK l \in {"clean", "mixed"} : at = l  BY <1>1
  <2>1. l \in Kinds /\ l # "text" /\ "source" \in Kinds \ {l} /\ Dub \subseteq Kinds
    BY DEF Kinds, Dub
  <2> DEFINE d == Shown(chat, turn, l)
  <2>2. /\ d \in Chats
        /\ \A r \in Numbers \ {turn} : d[r] = chat[r]
        /\ \A j \in Kinds \ {l} : d[turn][j] = chat[turn][j]
        /\ d[turn][l] = IF l = "text" THEN 1 ELSE chat[turn][l] + 1
    <3>1. turn \in Numbers /\ l \in Kinds /\ chat \in [Numbers -> [Kinds -> Nat]]
      BY <1>1, <2>1 DEF Chats
    <3> QED  BY ONLY <3>1, ShownEffect, ZenonT(60) DEF Chats
  <2>3. chat' = d  BY <1>4, <2>0
  <2> HIDE DEF d
  <2>4. \A k \in Dub : chat[turn][k] \in Nat  BY <1>1 DEF Chats, Dub, Kinds
  <2>5. \A k \in Dub : chat'[turn][k] >= chat[turn][k]
    <3> SUFFICES ASSUME NEW k \in Dub PROVE chat'[turn][k] >= chat[turn][k]  OBVIOUS
    <3>1. CASE k = l  BY <2>1, <2>2, <2>3, <2>4, <3>1
    <3>2. CASE k # l  BY <2>1, <2>2, <2>3, <2>4, <3>2
    <3> QED  BY <3>1, <3>2
  <2>6. /\ stray' \in [Numbers -> Nat] /\ stray'[turn] # 0
        /\ \A r \in Numbers \ {turn} : stray'[r] = stray[r]
    BY <1>1, <1>4
  <2> QED  BY <1>1, <1>2, <2>1, <2>2, <2>3, <2>5, <2>6
<1> QED  BY <1>3, <1>4 DEF StopSend, MaybeShown, visible

\* No step makes the code delete a message that is not there.
LEMMA Chat_Step == ControlInv /\ ChatInv /\ DeferralInv /\ [RequestNext]_requestVars => ChatInv'
<1> SUFFICES ASSUME ControlInv, ChatInv, DeferralInv, [RequestNext]_requestVars PROVE ChatInv'
  OBVIOUS
<1>a. /\ turn \in Nat /\ Numbers \subseteq Nat
      /\ at \notin {"idle", "finally"} => turn \in Numbers
      /\ self \in Locals /\ SentShape
  BY VisitAssumption DEF ControlInv, ControlTypes, Flow, Numbers
<1>b. chat \in Chats /\ stray \in [Numbers -> Nat]  BY DEF ChatInv, Chats
<1>1. CASE ~Delivering
  <2>1. DubKept  BY <1>1, <1>b, DubKept_Step
  <2>2. turn' \in Nat /\ turn' >= turn
    <3>1. CASE Begin  BY <1>a, <3>1 DEF Begin
    <3>2. CASE RequestNext /\ ~Begin  BY <1>a, <3>2, TurnStays
    <3>3. CASE UNCHANGED requestVars  BY <1>a, <3>3 DEF requestVars
    <3> QED  BY <3>1, <3>2, <3>3
  <2>3. \A r \in Numbers : r > turn' => stray'[r] = 0 /\ \A k \in Kinds : chat'[r][k] = 0
    <3> SUFFICES ASSUME NEW r \in Numbers, r > turn'
                 PROVE  stray'[r] = 0 /\ \A k \in Kinds : chat'[r][k] = 0
      OBVIOUS
    <3>1. r > turn  BY <1>a, <2>2
    <3>2. chat'[r] = chat[r] /\ stray'[r] = stray[r]
      BY <2>1, <3>1 DEF DubKept, Kept, StrayGrows
    <3> QED  BY <3>1, <3>2 DEF ChatInv
  <2>4. at' \in AfterVideo => \A k \in self'.sent : chat'[turn'][k] > 0
    <3> SUFFICES ASSUME at' \in AfterVideo, NEW k \in self'.sent PROVE chat'[turn'][k] > 0  OBVIOUS
    <3>1. at \in AfterVideo /\ turn' = turn /\ k \in self.sent  BY <1>1, StayAfterVideo
    <3>2. k \in Dub /\ turn \in Numbers
      BY <1>a, <3>1 DEF AfterVideo, SentShape, Dub
    <3> QED  BY <2>1, <3>1, <3>2 DEF ChatInv, DubKept, Kept
  <2>5. at' = "reject" /\ "video" \in self'.sent => chat'[turn']["video"] > 0
    <3> SUFFICES ASSUME at' = "reject", "video" \in self'.sent PROVE chat'[turn']["video"] > 0
      OBVIOUS
    <3>1. at = "reject" /\ turn' = turn /\ "video" \in self.sent  BY <1>1, StayAfterVideo
    <3>2. "video" \in Dub /\ turn \in Numbers  BY <1>a, <3>1 DEF Dub
    <3> QED  BY <2>1, <3>1, <3>2 DEF ChatInv, DubKept, Kept
  <2> QED  BY <2>1, <2>3, <2>4, <2>5 DEF ChatInv, DubKept, Kept, StrayGrows, Chats
<1>2. ASSUME turn \in Numbers, turn' = turn, chat' \in Chats, stray' \in [Numbers -> Nat],
             \A r \in Numbers \ {turn} : chat'[r] = chat[r] /\ stray'[r] = stray[r],
             at' \in AfterVideo => \A k \in self'.sent : chat'[turn][k] > 0,
             at' = "reject" /\ "video" \in self'.sent => chat'[turn]["video"] > 0
      PROVE  ChatInv'
  BY <1>2, <1>a DEF ChatInv, Chats
<1>3. CASE SendVideo
  <2>1. /\ turn \in Numbers /\ turn' = turn /\ "video" \in Dub /\ self.sent = {}
    BY <1>3, <1>a DEF SendVideo, ended, Dub, SentShape
  <2>2. chat[turn]["video"] \in Nat  BY <1>b, <2>1 DEF Chats, Kinds
  <2>3. ASSUME NEW sent, NEW L, Send("video", sent, L), sent # "reject" PROVE ChatInv'
    <3>1. at' \in AfterVideo => \A k \in self'.sent : chat'[turn][k] > 0
      BY <1>a, <1>b, <2>1, <2>2, <2>3, SendEffect DEF AfterVideo, Locals
    <3>2. at' = "reject" /\ "video" \in self'.sent => chat'[turn]["video"] > 0
      BY <1>a, <1>b, <2>1, <2>2, <2>3, SendEffect DEF Locals
    <3> QED  BY <1>a, <1>b, <1>2, <2>1, <2>3, <3>1, <3>2, SendEffect
  <2>4. PICK sent \in {"reserved", "clean"}, L \in {{"reject"}, {"video", "fail"}} :
          Send("video", sent, L)
    BY <1>3 DEF SendVideo
  <2> QED  BY <2>3, <2>4
<1>4. CASE SendClean
  <2>1. /\ turn \in Numbers /\ turn' = turn /\ "clean" \in Dub /\ at = "clean"
        /\ self.sent = {"video"} /\ chat[turn]["video"] > 0
    BY <1>4, <1>a DEF SendClean, ended, Dub, SentShape, ChatInv, AfterVideo
  <2>2. CASE at' = "reject" /\ UNCHANGED <<self, chat, stray>>
    BY <1>b, <1>2, <2>1, <2>2 DEF AfterVideo
  <2>3. CASE Send("clean", "mixed", {"rollback"})
    <3>1. chat[turn]["clean"] \in Nat  BY <1>b, <2>1 DEF Chats, Kinds
    <3>2. chat'[turn]["video"] = chat[turn]["video"] /\ chat'[turn]["clean"] >= chat[turn]["clean"]
      BY <1>a, <1>b, <2>1, <2>3, SendEffect DEF Kinds
    <3>3. \/ at' = "mixed" /\ self'.sent = {"video", "clean"} /\ chat'[turn]["clean"] > 0
          \/ at' = "rollback" /\ self'.sent = {"video"}
      BY <1>a, <1>b, <2>1, <2>3, <3>1, SendEffect DEF Locals
    <3>4. \A k \in self'.sent : chat'[turn][k] > 0  BY <2>1, <3>2, <3>3
    <3> QED  BY <1>a, <1>b, <1>2, <2>1, <2>3, <3>3, <3>4, SendEffect
  <2> QED  BY <1>4, <2>2, <2>3 DEF SendClean, GoTo, visible
<1>5. CASE SendMixed
  <2>1. /\ turn \in Numbers /\ turn' = turn /\ "mixed" \in Dub /\ at = "mixed"
        /\ self.sent = {"video", "clean"} /\ chat[turn]["video"] > 0 /\ chat[turn]["clean"] > 0
        /\ Send("mixed", "commit", {"rollback"})
    BY <1>5, <1>a DEF SendMixed, ended, Dub, SentShape, ChatInv, AfterVideo
  <2>2. chat[turn]["mixed"] \in Nat  BY <1>b, <2>1 DEF Chats, Kinds
  <2>3. chat'[turn]["video"] = chat[turn]["video"] /\ chat'[turn]["clean"] = chat[turn]["clean"]
    BY <1>a, <1>b, <2>1, SendEffect DEF Kinds
  <2>4. \/ at' = "commit" /\ self'.sent = {"video", "clean", "mixed"} /\ chat'[turn]["mixed"] > 0
        \/ at' = "rollback" /\ self'.sent = {"video", "clean"}
    BY <1>a, <1>b, <2>1, <2>2, SendEffect DEF Locals
  <2>5. \A k \in self'.sent : chat'[turn][k] > 0  BY <2>1, <2>3, <2>4
  <2> QED  BY <1>a, <1>b, <1>2, <2>1, <2>4, <2>5, SendEffect
<1>6. CASE Rollback
  <2> DEFINE S == self.sent \cap {"clean", "mixed"}
  <2>1. /\ turn \in Numbers /\ turn' = turn /\ S \in SUBSET Kinds /\ DeleteSent(S)
        /\ \A k \in self.sent : chat[turn][k] > 0
        /\ self'.sent = self.sent /\ at' \notin AfterVideo
    BY <1>6, <1>a
       DEF Rollback, ended, SentShape, ChatInv, AfterVideo, FlushThen, GoTo, Kinds, Locals
  <2>2. \A k \in S : chat[turn][k] > 0  BY <2>1
  <2>3. "video" \in Kinds \ S  BY DEF Kinds
  <2> HIDE DEF S
  <2>4. /\ chat' \in Chats /\ stray' \in [Numbers -> Nat]
        /\ \A r \in Numbers \ {turn} : chat'[r] = chat[r] /\ stray'[r] = stray[r]
        /\ chat'[turn]["video"] = chat[turn]["video"]
    BY <1>b, <2>1, <2>2, <2>3, DeleteEffect DEF Chats
  <2> QED  BY <1>2, <2>1, <2>4
<1>7. CASE RejectVideo
  <2> DEFINE S == self.sent \cap {"video"}
  <2>1. /\ turn \in Numbers /\ turn' = turn /\ S \in SUBSET Kinds /\ DeleteSent(S)
        /\ \A k \in S : chat[turn][k] > 0
        /\ at' = "clear"
    BY <1>7, <1>a DEF RejectVideo, ended, ChatInv, GoTo, Kinds
  <2> HIDE DEF S
  <2>4. /\ chat' \in Chats /\ stray' \in [Numbers -> Nat]
        /\ \A r \in Numbers \ {turn} : chat'[r] = chat[r] /\ stray'[r] = stray[r]
    BY <1>b, <2>1, DeleteEffect DEF Chats
  <2> QED  BY <1>2, <2>1, <2>4 DEF AfterVideo
<1>8. CASE StopSend
  <2>1. /\ at \in AfterVideo /\ self.sent \in SUBSET Dub
        /\ \A k \in self.sent : chat[turn][k] > 0 /\ chat[turn][k] \in Nat
    <3>1. turn \in Numbers /\ at \in {"clean", "mixed"}  BY <1>8, <1>b, StopEffect DEF StopSend
    <3> QED  BY <1>a, <1>b, <3>1 DEF SentShape, ChatInv, AfterVideo, Dub, Chats, Kinds
  <2>2. /\ turn \in Numbers /\ turn' = turn /\ at' = "rollback" /\ self'.sent = self.sent
        /\ chat' \in Chats /\ stray' \in [Numbers -> Nat]
        /\ \A r \in Numbers \ {turn} : chat'[r] = chat[r] /\ stray'[r] = stray[r]
        /\ \A k \in Dub : chat'[turn][k] >= chat[turn][k]
    BY <1>8, <1>b, StopEffect
  <2>3. \A k \in self'.sent : chat'[turn][k] > 0
    <3> SUFFICES ASSUME NEW k \in self.sent PROVE chat'[turn][k] > 0  BY <2>2
    <3>1. chat'[turn][k] \in Nat  BY <2>1, <2>2 DEF Chats, Kinds, Dub
    <3>2. chat'[turn][k] >= chat[turn][k] /\ chat[turn][k] > 0 /\ chat[turn][k] \in Nat
      BY <2>1, <2>2
    <3> QED  BY <3>1, <3>2
  <2> QED  BY <1>2, <2>2, <2>3
<1> QED  BY <1>1, <1>3, <1>4, <1>5, <1>6, <1>7, <1>8 DEF Delivering

-----------------------------------------------------------------------------
(* Pair or nothing.                                                        *)

\* The user sees both companions or none, none without the video, each once.
Paired(r) ==
  /\ chat[r]["clean"] = chat[r]["mixed"]
  /\ chat[r]["clean"] <= chat[r]["video"] /\ chat[r]["video"] <= 1

Nothing == \A k \in Dub : chat[turn][k] = 0

OnlySent(S) == \A k \in Dub : chat[turn][k] = IF k \in self.sent \cap S THEN 1 ELSE 0

\* Where the user is told of the dub.
Telling == {"pairtext", "heard"}

\* The present request has shown something of the dub, or will say that it has.
Known == self.heard \/ at \in AfterVideo \cup {"reject"} \cup Telling \/ Flushing(Telling)

\* Unless a message is there against the code's will, the user sees exactly what
\* the present call has sent; a call that told nobody has left nothing behind.
ExactlySent ==
  at \notin {"idle", "finally"} /\ stray[turn] = 0 =>
    /\ self.heard => Paired(turn)
    /\ at \in AfterVideo => OnlySent(Dub)
    /\ at = "reject" => OnlySent({"video"})
    /\ at \in Telling \/ Flushing(Telling) => Paired(turn)
    /\ Known \/ Nothing

MessageInv == ExactlySent /\ PairOrNothing

\* How a request comes to tell of the dub when it neither sends nor deletes.
LEMMA Tellings ==
  ASSUME ControlInv, RequestNext, ~Delivering, ~Begin, at' \notin {"idle", "finally"}
  PROVE  /\ at \notin {"idle", "finally"}
         /\ self'.heard => self.heard \/ at = "heard"
         /\ at' \in Telling \/ Flushing(Telling)' =>
              \/ at \in Telling \cup {"reserved", "commit", "store"} \/ Flushing(Telling)
              \/ ~Known
         /\ Known => Known'
<1> USE DEF Known, Telling, AfterVideo, Flushing, GoTo, FlushThen, Call, End, ended
<1>a. /\ at = "flush" => self.then \in AfterFlush
      /\ self \in Locals
      /\ at \in Unheard \/ Flushing(AfterFlush \ {"finished"}) => ~self.heard
  BY DEF ControlInv, ControlTypes, Flow
<1>1. CASE \/ Metadata \/ StartDub \/ PrepareAudio \/ AudioTooLarge \/ Analyse
           \/ DeliverSource \/ Extras
  BY <1>1, <1>a DEF Metadata, StartDub, PrepareAudio, AudioTooLarge, Analyse, DeliverSource, Extras,
              NextAfterClient, AfterSource, Locals
<1>2. CASE SendAtTheEnd \/ EnterSend \/ CheckDub
  BY <1>2, <1>a DEF SendAtTheEnd, EnterSend, CheckDub, Locals
<1>3. CASE AwaitDub \/ WaitTimeout
  BY <1>3, <1>a DEF AwaitDub, WaitTimeout, Locals, Unheard
<1>4. CASE Commit \/ StoreId \/ ClearId \/ FlushFirst
  BY <1>4, <1>a DEF Commit, StoreId, ClearId, FlushFirst, Locals, Unheard
<1>5. CASE FlushEnds
  BY <1>5, <1>a DEF FlushEnds, AfterFlush
<1>6. CASE Oversize \/ Notice \/ Heard
  BY <1>6, <1>a DEF Oversize, Notice, Tell, Heard, Unheard, Locals
<1>7. CASE Raise \/ Rescue \/ Report \/ Succeed \/ Finally
  BY <1>7, <1>a DEF Raise, Rescue, Report, Succeed, Finally, Locals
<1>8. CASE Return
  <2>1. self.caller \in Callers \ {"none"} /\ self.heard \in BOOLEAN
    BY <1>8 DEF Return, ControlInv, ControlTypes, Flow, Helping, Locals
  <2> QED  BY <1>8, <2>1, <1>a DEF Return, Callers, Locals
<1>9. CASE \/ Background \/ Crash \/ \E r \in Numbers : PushOut(r)
           \/ \E r \in Numbers : TimerStep(r)
  BY <1>9, <1>a DEF Background, Crash, PushOut, TimerStep, TimerFires, TimerSends
<1> QED  BY <1>1, <1>2, <1>3, <1>4, <1>5, <1>6, <1>7, <1>8, <1>9
            DEF RequestNext, RequestStep, Delivering

\* Where a request is when it ends.
LEMMA Closing ==
  ASSUME ControlInv, RequestNext, NEW r \in Numbers, Closed(r)', ~Closed(r)
  PROVE  /\ r = turn /\ ~Delivering /\ at \notin {"idle", "finally", "flush"}
         /\ at \notin AfterVideo \cup {"reject"} \cup Telling
<1> USE DEF Closed, End, ended, AfterVideo, Telling, GoTo, Delivering
<1>a. outcome \in [Numbers -> {"none", "open", "done", "failed", "escaped", "crashed"}]
  BY DEF ControlInv, ControlTypes
<1>1. CASE Metadata \/ StartDub \/ AwaitDub \/ Raise \/ Report \/ Succeed
  BY <1>1, <1>a
     DEF Metadata, StartDub, AwaitDub, Raise, Report, Succeed, SendVideo, SendClean, SendMixed,
         Rollback, RejectVideo, StopSend
<1>2. CASE Return
  <2>1. self.caller \in Callers \ {"none"} /\ self.heard \in BOOLEAN
    BY <1>2 DEF Return, ControlInv, ControlTypes, Flow, Helping, Locals
  <2>2. /\ at = "return"
        /\ outcome' \in {outcome, [outcome EXCEPT ![turn] = "done"],
                         [outcome EXCEPT ![turn] = "failed"]}
    BY <1>2, <2>1 DEF Return, Callers
  <2> QED  BY <1>a, <2>2 DEF SendVideo, SendClean, SendMixed, Rollback, RejectVideo, StopSend
<1>3. CASE \/ PrepareAudio \/ AudioTooLarge \/ Analyse \/ DeliverSource \/ Extras \/ SendAtTheEnd
           \/ EnterSend \/ CheckDub \/ SendVideo \/ SendClean \/ SendMixed \/ Commit
  BY <1>3 DEF PrepareAudio, AudioTooLarge, Analyse, DeliverSource, Extras, SendAtTheEnd,
              EnterSend, CheckDub, SendVideo, SendClean, SendMixed, Commit
<1>4. CASE \/ StoreId \/ Rollback \/ RejectVideo \/ ClearId \/ FlushFirst \/ FlushEnds \/ Oversize
           \/ Notice \/ Heard \/ Rescue \/ Finally
  BY <1>4 DEF StoreId, Rollback, RejectVideo, ClearId, FlushFirst, FlushEnds, Oversize, Notice,
              Heard, Rescue, Finally
<1>5. CASE Begin \/ Crash \/ StopSend
  BY <1>5, <1>a DEF Begin, Crash, StopSend, TasksEnd
<1>6. CASE \/ Background \/ WaitTimeout \/ \E s \in Numbers : PushOut(s)
           \/ \E s \in Numbers : TimerStep(s)
  BY <1>6 DEF Background, WaitTimeout, PushOut, TimerStep, TimerFires, TimerSends
<1> QED  BY <1>1, <1>2, <1>3, <1>4, <1>5, <1>6 DEF RequestNext, RequestStep

\* The invariant survives a step that leaves the dub's messages alone.
LEMMA Message_Others ==
  ASSUME ControlInv, DeferralInv, ChatInv, MessageInv, [RequestNext]_requestVars, ~Delivering
  PROVE  MessageInv'
<1>a. /\ turn \in Nat /\ Numbers \subseteq Nat
      /\ at \notin {"idle", "finally"} => turn \in Numbers
      /\ chat \in Chats /\ stray \in [Numbers -> Nat]
  BY VisitAssumption DEF ControlInv, ControlTypes, Flow, Numbers, ChatInv, Chats
<1>b. DubKept  BY <1>a, DubKept_Step
<1>c. \A r \in Numbers : /\ stray'[r] = 0 => stray[r] = 0
                         /\ Paired(r) => Paired(r)'
                         /\ \A k \in Dub : chat'[r][k] = chat[r][k]
  <2>1. \A r \in Numbers : \A k \in Dub : chat'[r][k] = chat[r][k]
    BY <1>b DEF DubKept, Kept
  <2>2. \A r \in Numbers : stray'[r] = 0 => stray[r] = 0
    BY <1>a, <1>b DEF DubKept, StrayGrows
  <2> QED  BY <2>1, <2>2 DEF Paired, Dub
<1>d. Nothing /\ turn \in Numbers => Paired(turn)  BY DEF Nothing, Paired, Dub
<1>0. CASE UNCHANGED requestVars
  BY <1>0
     DEF requestVars, MessageInv, ExactlySent, PairOrNothing, Closed, Paired, Nothing, OnlySent,
              Known, Flushing
<1>1. ASSUME RequestNext, NEW r \in Numbers, Closed(r)', stray'[r] = 0 PROVE Paired(r)'
  <2>1. CASE Closed(r)
    BY <1>c, <1>1, <2>1 DEF MessageInv, PairOrNothing, Paired
  <2>2. CASE ~Closed(r)
    <3>1. /\ r = turn /\ at \notin {"idle", "finally", "flush"}
          /\ at \notin AfterVideo \cup {"reject"} \cup Telling
      BY <1>1, <2>2, Closing
    <3>2. self.heard \/ Nothing
      BY <1>1, <1>c, <3>1 DEF MessageInv, ExactlySent, Known, Flushing
    <3>3. Paired(turn)  BY <1>1, <1>c, <1>d, <3>1, <3>2 DEF MessageInv, ExactlySent
    <3> QED  BY <1>c, <3>1, <3>3
  <2> QED  BY <2>1, <2>2
<1>2. CASE Begin
  <2>1. /\ turn' \in Numbers /\ turn' > turn /\ at' = "metadata" /\ ~self'.heard
    BY <1>2, <1>a, VisitAssumption DEF Begin, Numbers, GoTo, Fresh, ControlInv, ControlTypes
  <2>2. Nothing'  BY <1>c, <2>1 DEF Nothing, ChatInv, Dub, Kinds
  <2> QED  BY <1>1, <1>2, <2>1, <2>2
           DEF MessageInv, ExactlySent, AfterVideo, Telling, Flushing, RequestNext, PairOrNothing, Paired
<1>3. CASE RequestNext /\ ~Begin
  <2>1. turn' = turn  BY <1>3, TurnStays
  <2>2. SUFFICES ASSUME at' \notin {"idle", "finally"}, stray'[turn'] = 0
        PROVE  /\ self'.heard => Paired(turn)'
               /\ at' \in AfterVideo => OnlySent(Dub)'
               /\ at' = "reject" => OnlySent({"video"})'
               /\ at' \in Telling \/ Flushing(Telling)' => Paired(turn)'
               /\ (Known \/ Nothing)'
    BY <1>1, <1>3 DEF MessageInv, ExactlySent, PairOrNothing, Paired
  <2>3. turn \in Numbers /\ at \notin {"idle", "finally"} /\ stray[turn] = 0
    BY <1>3, <1>a, <1>c, <2>1, <2>2, Tellings
  <2>4. /\ self.heard => Paired(turn)
        /\ at \in AfterVideo => OnlySent(Dub)
        /\ at = "reject" => OnlySent({"video"})
        /\ at \in Telling \/ Flushing(Telling) => Paired(turn)
        /\ Known \/ Nothing
    BY <2>3 DEF MessageInv, ExactlySent
  <2>5. Paired(turn) => Paired(turn)'  BY <1>c, <2>1, <2>3 DEF Paired
  <2>6. at \in {"reserved", "commit", "store"} => Paired(turn)
    BY <2>4 DEF AfterVideo, OnlySent, Dub, Paired, ControlInv, SentShape
  <2>7. self'.heard => Paired(turn)'
    BY <1>3, <2>2, <2>4, <2>5, Tellings DEF Telling
  <2>8. at' \in AfterVideo => OnlySent(Dub)'
    BY <1>c, <2>1, <2>3, <2>4, StayAfterVideo DEF OnlySent, Dub
  <2>9. at' = "reject" => OnlySent({"video"})'
    BY <1>c, <2>1, <2>3, <2>4, StayAfterVideo DEF OnlySent, Dub
  <2>10. at' \in Telling \/ Flushing(Telling)' => Paired(turn)'
    BY <1>3, <1>d, <2>2, <2>3, <2>4, <2>5, <2>6, Tellings DEF Telling
  <2>11. (Known \/ Nothing)'
    <3>1. CASE Known  BY <1>3, <2>2, <3>1, Tellings
    <3>2. CASE Nothing  BY <1>c, <2>1, <2>3, <3>2 DEF Nothing, Dub
    <3> QED  BY <2>4, <3>1, <3>2
  <2> QED  BY <2>7, <2>8, <2>9, <2>10, <2>11
<1> QED  BY <1>0, <1>2, <1>3

\* And the helper's sends and deletions.
LEMMA Message_Delivering ==
  ASSUME ControlInv, ChatInv, MessageInv, RequestNext, Delivering
  PROVE  MessageInv'
<1>a. /\ turn \in Numbers /\ turn' = turn
      /\ outcome' \in {outcome, [outcome EXCEPT ![turn] = "crashed"]}
      /\ at \notin {"idle", "finally", "flush"}
      /\ chat \in Chats /\ stray \in [Numbers -> Nat] /\ self \in Locals /\ SentShape
      /\ outcome[turn] \in {"open", "crashed"} /\ ~self.heard
      /\ outcome \in [Numbers -> {"none", "open", "done", "failed", "escaped", "crashed"}]
  BY DEF Delivering, SendVideo, SendClean, SendMixed, Rollback, RejectVideo, StopSend, TasksEnd,
         ended, ControlInv, ControlTypes, Flow, Unheard, ChatInv, Chats
<1>b. /\ stray[turn] = 0 /\ at \in AfterVideo => OnlySent(Dub)
      /\ stray[turn] = 0 /\ at = "reject" => OnlySent({"video"})
      /\ stray[turn] = 0 /\ at = "video" => Nothing
  BY <1>a DEF MessageInv, ExactlySent, Known, AfterVideo, Telling, Flushing
<1>c. /\ chat[turn]["video"] \in Nat /\ chat[turn]["clean"] \in Nat /\ chat[turn]["mixed"] \in Nat
      /\ stray[turn] \in Nat
  BY <1>a DEF Chats, Kinds
<1>1. ASSUME \A r \in Numbers \ {turn} : chat'[r] = chat[r] /\ stray'[r] = stray[r]
      PROVE  PairOrNothing'
  BY <1>1, <1>a DEF MessageInv, PairOrNothing, Closed
<1>2. ASSUME stray'[turn] = 0, at' \in AfterVideo, OnlySent(Dub)', ~self'.heard  PROVE ExactlySent'
  BY <1>2, <1>a DEF ExactlySent, Known, AfterVideo, Telling, Flushing
<1>3. ASSUME stray'[turn] = 0, at' = "reject", OnlySent({"video"})', ~self'.heard  PROVE ExactlySent'
  BY <1>3, <1>a DEF ExactlySent, Known, AfterVideo, Telling, Flushing
<1>4. ASSUME at' \in {"video", "fail", "clear"}, Nothing', ~self'.heard  PROVE ExactlySent'
  BY <1>4, <1>a DEF ExactlySent, Known, AfterVideo, Telling, Flushing
<1>5. ASSUME stray'[turn] # 0  PROVE ExactlySent'
  BY <1>5, <1>a DEF ExactlySent
<1>6. CASE SendVideo
  <2>1. "video" \in Dub /\ at = "video" /\ self.sent = {}
    BY <1>6, <1>a DEF SendVideo, Dub, SentShape
  <2>2. PICK sent \in {"reserved", "clean"}, L \in {{"reject"}, {"video", "fail"}} :
          Send("video", sent, L)
    BY <1>6 DEF SendVideo
  <2>3. /\ \A r \in Numbers \ {turn} : chat'[r] = chat[r] /\ stray'[r] = stray[r]
        /\ \A j \in Kinds \ {"video"} : chat'[turn][j] = chat[turn][j]
        /\ \/ /\ at' = sent /\ self' = [self EXCEPT !.sent = @ \cup {"video"}]
              /\ chat'[turn]["video"] = chat[turn]["video"] + 1 /\ stray' = stray
           \/ /\ at' \in L /\ self' = self
              /\ stray'[turn] = 0 => chat' = chat /\ stray' = stray
    BY <1>a, <2>1, <2>2, SendEffect
  <2>4. CASE stray'[turn] = 0 /\ at' = sent /\ self' = [self EXCEPT !.sent = @ \cup {"video"}]
    <3>1. self'.sent = {"video"} /\ ~self'.heard  BY <1>a, <2>1, <2>4 DEF Locals
    <3>2. /\ chat'[turn]["video"] = 1 /\ chat'[turn]["clean"] = 0 /\ chat'[turn]["mixed"] = 0
      BY <1>b, <1>c, <2>1, <2>2, <2>3, <2>4 DEF Nothing, Dub, Kinds
    <3>3. OnlySent(Dub)'  BY <1>a, <3>1, <3>2 DEF OnlySent, Dub
    <3>4. at' \in AfterVideo  BY <2>2, <2>4 DEF AfterVideo
    <3> QED  BY <1>1, <1>2, <2>3, <2>4, <3>1, <3>3, <3>4 DEF MessageInv
  <2>5. CASE stray'[turn] = 0 /\ at' \in L /\ self' = self /\ chat' = chat /\ stray' = stray
    <3>1. Nothing' /\ Nothing  BY <1>a, <1>b, <2>1, <2>5 DEF Nothing
    <3>2. OnlySent({"video"})'  BY <1>a, <2>1, <2>5, <3>1 DEF OnlySent, Nothing
    <3>3. ExactlySent'  BY <1>a, <1>3, <1>4, <2>2, <2>5, <3>1, <3>2
    <3> QED  BY <1>1, <2>3, <3>3 DEF MessageInv
  <2> QED  BY <1>1, <1>5, <2>3, <2>4, <2>5 DEF MessageInv
<1>7. CASE SendClean
  <2>1. "clean" \in Dub /\ at = "clean" /\ self.sent = {"video"}
    BY <1>7, <1>a DEF SendClean, Dub, SentShape
  <2>0. stray[turn] = 0 =>
          chat[turn]["video"] = 1 /\ chat[turn]["clean"] = 0 /\ chat[turn]["mixed"] = 0
    BY <1>b, <2>1 DEF OnlySent, Dub, AfterVideo
  <2>2. CASE at' = "reject" /\ UNCHANGED <<self, chat, stray>>
    <3>1. stray[turn] = 0 => OnlySent({"video"})'
      BY <1>a, <2>0, <2>1, <2>2 DEF OnlySent, Dub
    <3> QED  BY <1>a, <1>1, <1>3, <1>5, <2>2, <3>1 DEF MessageInv
  <2>3. CASE Send("clean", "mixed", {"rollback"})
    <3>1. /\ \A r \in Numbers \ {turn} : chat'[r] = chat[r] /\ stray'[r] = stray[r]
          /\ \A j \in Kinds \ {"clean"} : chat'[turn][j] = chat[turn][j]
          /\ \/ /\ at' = "mixed" /\ self' = [self EXCEPT !.sent = @ \cup {"clean"}]
                /\ chat'[turn]["clean"] = chat[turn]["clean"] + 1 /\ stray' = stray
             \/ /\ at' = "rollback" /\ self' = self
                /\ stray'[turn] = 0 => chat' = chat /\ stray' = stray
      BY <1>a, <2>1, <2>3, SendEffect
    <3>2. CASE stray'[turn] = 0 /\ at' = "mixed" /\ self' = [self EXCEPT !.sent = @ \cup {"clean"}]
      <4>1. self'.sent = {"video", "clean"} /\ ~self'.heard  BY <1>a, <2>1, <3>2 DEF Locals
      <4>2. /\ chat'[turn]["video"] = 1 /\ chat'[turn]["clean"] = 1 /\ chat'[turn]["mixed"] = 0
        BY <1>c, <2>0, <3>1, <3>2 DEF Kinds
      <4>3. OnlySent(Dub)'  BY <1>a, <4>1, <4>2 DEF OnlySent, Dub
      <4> QED  BY <1>1, <1>2, <3>1, <3>2, <4>1, <4>3 DEF MessageInv, AfterVideo
    <3>3. CASE stray'[turn] = 0 /\ at' = "rollback" /\ self' = self /\ chat' = chat /\ stray' = stray
      <4>1. OnlySent(Dub)'  BY <1>a, <2>0, <2>1, <3>3 DEF OnlySent, Dub
      <4> QED  BY <1>a, <1>1, <1>2, <3>1, <3>3, <4>1 DEF MessageInv, AfterVideo
    <3> QED  BY <1>1, <1>5, <3>1, <3>2, <3>3 DEF MessageInv
  <2> QED  BY <1>7, <2>2, <2>3 DEF SendClean, GoTo, visible
<1>8. CASE SendMixed
  <2>1. "mixed" \in Dub /\ at = "mixed" /\ self.sent = {"video", "clean"}
    BY <1>8, <1>a DEF SendMixed, Dub, SentShape
  <2>2. stray[turn] = 0 =>
          chat[turn]["video"] = 1 /\ chat[turn]["clean"] = 1 /\ chat[turn]["mixed"] = 0
    BY <1>b, <2>1 DEF OnlySent, Dub, AfterVideo
  <2>3. /\ \A r \in Numbers \ {turn} : chat'[r] = chat[r] /\ stray'[r] = stray[r]
        /\ \A j \in Kinds \ {"mixed"} : chat'[turn][j] = chat[turn][j]
        /\ \/ /\ at' = "commit" /\ self' = [self EXCEPT !.sent = @ \cup {"mixed"}]
              /\ chat'[turn]["mixed"] = chat[turn]["mixed"] + 1 /\ stray' = stray
           \/ /\ at' = "rollback" /\ self' = self
              /\ stray'[turn] = 0 => chat' = chat /\ stray' = stray
    BY <1>8, <1>a, <2>1, SendEffect DEF SendMixed
  <2>4. CASE stray'[turn] = 0 /\ at' = "commit" /\ self' = [self EXCEPT !.sent = @ \cup {"mixed"}]
    <3>1. self'.sent = {"video", "clean", "mixed"} /\ ~self'.heard  BY <1>a, <2>1, <2>4 DEF Locals
    <3>2. /\ chat'[turn]["video"] = 1 /\ chat'[turn]["clean"] = 1 /\ chat'[turn]["mixed"] = 1
      BY <1>c, <2>2, <2>3, <2>4 DEF Kinds
    <3>3. OnlySent(Dub)'  BY <1>a, <3>1, <3>2 DEF OnlySent, Dub
    <3> QED  BY <1>1, <1>2, <2>3, <2>4, <3>1, <3>3 DEF MessageInv, AfterVideo
  <2>5. CASE stray'[turn] = 0 /\ at' = "rollback" /\ self' = self /\ chat' = chat /\ stray' = stray
    <3>1. OnlySent(Dub)'  BY <1>a, <2>1, <2>2, <2>5 DEF OnlySent, Dub
    <3> QED  BY <1>a, <1>1, <1>2, <2>3, <2>5, <3>1 DEF MessageInv, AfterVideo
  <2> QED  BY <1>1, <1>5, <2>3, <2>4, <2>5 DEF MessageInv
<1>9. CASE Rollback
  <2> DEFINE S == self.sent \cap {"clean", "mixed"}
  <2>1. /\ S \in SUBSET Kinds /\ DeleteSent(S)
        /\ at = "rollback" /\ \A k \in self.sent : chat[turn][k] > 0
        /\ "video" \in self.sent /\ self.sent \in SUBSET Kinds
    BY <1>9, <1>a DEF Rollback, SentShape, ChatInv, AfterVideo, Kinds
  <2>2. /\ self'.sent = self.sent /\ ~self'.heard
        /\ at' \in {"reject", "pairtext", "idle"} \/ (at' = "flush" /\ self'.then = "pairtext")
    <3>1. \/ at' \in {"reject", "idle"} /\ self' = self
          \/ at' = "pairtext" /\ self' = self
          \/ at' = "flush" /\ self' = [self EXCEPT !.then = "pairtext"]
      BY ONLY <1>9, Zenon DEF Rollback, FlushThen, GoTo
    <3> QED  BY <1>a, <3>1 DEF Locals
  <2>3. /\ \A k \in S : chat[turn][k] > 0
        /\ \A k \in {"clean", "mixed"} : k \in self.sent <=> k \in S
    BY <2>1
  <2>4. "video" \in Kinds \ S  BY DEF Kinds
  <2> HIDE DEF S
  <2>5. /\ \A r \in Numbers \ {turn} : chat'[r] = chat[r] /\ stray'[r] = stray[r]
        /\ \A k \in Kinds \ S : chat'[turn][k] = chat[turn][k]
        /\ stray'[turn] = 0 =>
             stray[turn] = 0 /\ \A k \in S : chat'[turn][k] = chat[turn][k] - 1
    BY <1>a, <2>1, <2>3, DeleteEffect DEF Chats
  <2>6. CASE stray'[turn] = 0
    <3>1. OnlySent(Dub)  BY <1>b, <2>1, <2>5, <2>6 DEF AfterVideo
    <3>2. chat'[turn]["video"] = 1
      BY <2>1, <2>4, <2>5, <3>1 DEF OnlySent, Dub
    <3>3. \A k \in {"clean", "mixed"} : chat'[turn][k] = 0
      <4> SUFFICES ASSUME NEW k \in {"clean", "mixed"} PROVE chat'[turn][k] = 0  OBVIOUS
      <4>1. CASE k \in S
        <5>1. chat[turn][k] = 1  BY <2>3, <3>1, <4>1 DEF OnlySent, Dub
        <5> QED  BY <2>5, <2>6, <4>1, <5>1
      <4>2. CASE k \notin S
        <5>1. chat[turn][k] = 0  BY <2>3, <3>1, <4>2 DEF OnlySent, Dub
        <5> QED  BY <2>5, <4>2, <5>1 DEF Kinds
      <4> QED  BY <4>1, <4>2
    <3>4. Paired(turn)'  BY <1>a, <3>2, <3>3 DEF Paired
    <3>5. OnlySent({"video"})'  BY <1>a, <2>1, <2>2, <3>2, <3>3 DEF OnlySent, Dub
    <3>6. CASE at' = "reject"  BY <1>1, <1>3, <2>2, <2>5, <2>6, <3>5, <3>6 DEF MessageInv
    <3>7. CASE at' = "pairtext" \/ (at' = "flush" /\ self'.then = "pairtext")
      BY <1>1, <2>2, <2>5, <3>4, <3>7
         DEF MessageInv, ExactlySent, Known, AfterVideo, Telling, Flushing
    <3>8. CASE at' = "idle"  BY <1>1, <2>5, <3>8 DEF MessageInv, ExactlySent
    <3> QED  BY <2>2, <3>6, <3>7, <3>8
  <2> QED  BY <1>1, <1>5, <2>5, <2>6 DEF MessageInv
<1>10. CASE RejectVideo
  <2> DEFINE S == self.sent \cap {"video"}
  <2>1. /\ S \in SUBSET Kinds /\ DeleteSent(S)
        /\ \A k \in S : chat[turn][k] > 0
        /\ at = "reject" /\ at' = "clear" /\ ~self'.heard
    BY <1>10, <1>a DEF RejectVideo, ChatInv, GoTo, Kinds
  <2>2. S \in SUBSET {"video"}  OBVIOUS
  <2>3. stray[turn] = 0 => \A k \in Dub : chat[turn][k] = IF k \in S THEN 1 ELSE 0
    BY <1>b, <2>1 DEF OnlySent
  <2> HIDE DEF S
  <2>4. /\ \A r \in Numbers \ {turn} : chat'[r] = chat[r] /\ stray'[r] = stray[r]
        /\ \A k \in Kinds \ S : chat'[turn][k] = chat[turn][k]
        /\ stray'[turn] = 0 =>
             stray[turn] = 0 /\ \A k \in S : chat'[turn][k] = chat[turn][k] - 1
    BY <1>a, <2>1, DeleteEffect DEF Chats
  <2>5. CASE stray'[turn] = 0
    <3>1. \A k \in Dub : chat'[turn][k] = 0
      <4> SUFFICES ASSUME NEW k \in Dub PROVE chat'[turn][k] = 0  OBVIOUS
      <4>1. CASE k \in S  BY <2>3, <2>4, <2>5, <4>1
      <4>2. CASE k \notin S  BY <2>3, <2>4, <2>5, <4>2 DEF Dub, Kinds
      <4> QED  BY <4>1, <4>2
    <3>2. Nothing'  BY <1>a, <3>1 DEF Nothing
    <3> QED  BY <1>1, <1>4, <2>1, <2>4, <3>2 DEF MessageInv
  <2> QED  BY <1>1, <1>5, <2>4, <2>5 DEF MessageInv
<1>11. CASE StopSend
  <2>1. /\ at' = "rollback" /\ self'.sent = self.sent /\ ~self'.heard /\ at \in AfterVideo
        /\ \A r \in Numbers \ {turn} : chat'[r] = chat[r] /\ stray'[r] = stray[r]
        /\ stray'[turn] = 0 => chat' = chat /\ stray' = stray
    BY <1>11, <1>a, StopEffect DEF StopSend, AfterVideo
  <2>2. CASE stray'[turn] = 0
    <3>1. OnlySent(Dub)'  BY <1>a, <1>b, <2>1, <2>2 DEF OnlySent
    <3> QED  BY <1>1, <1>2, <2>1, <2>2, <3>1 DEF MessageInv, AfterVideo
  <2> QED  BY <1>1, <1>5, <2>1, <2>2 DEF MessageInv
<1> QED  BY <1>6, <1>7, <1>8, <1>9, <1>10, <1>11 DEF Delivering

\* No step of any task breaks what is said of the messages.
LEMMA Message_Step ==
  ControlInv /\ DeferralInv /\ ChatInv /\ MessageInv /\ [RequestNext]_requestVars => MessageInv'
<1>1. Delivering /\ UNCHANGED requestVars => RequestNext  BY DEF Delivering, RequestNext,
                                                             RequestStep
<1> QED  BY <1>1, Message_Others, Message_Delivering

-----------------------------------------------------------------------------
(* The source MP3.                                                         *)

\* The pair of request r stays.
PairStays(r) == r = turn => at \in {"store", "heard", "idle"} \/ self.heard

\* A source MP3 that is neither held nor missed was sent, or replaced by a pair
\* that nothing will delete any more.
SourceInv ==
  \A r \in Numbers : mp3[r] = "over" =>
    chat[r]["source"] > 0 \/ missed[r] \/ (chat[r]["clean"] > 0 /\ PairStays(r))

\* Once a pair stays, it stays, and the helper sends or deletes nothing more.
LEMMA PairStays_Step ==
  ASSUME ControlInv, [RequestNext]_requestVars, NEW r \in Numbers, r <= turn, PairStays(r)
  PROVE  PairStays(r)' /\ (Delivering => r # turn)
<1> USE DEF PairStays, GoTo, FlushThen, Call, End, ended
<1>a. /\ self \in Locals /\ turn \in Nat
      /\ at \in Unheard \/ Flushing(AfterFlush \ {"finished"}) => ~self.heard
  BY VisitAssumption DEF ControlInv, ControlTypes, Flow
<1>0. ASSUME r # turn, RequestNext PROVE r # turn'
  <2>1. CASE Begin  BY <1>0, <1>a, <2>1, VisitAssumption DEF Begin, Numbers
  <2>2. CASE ~Begin  BY <1>0, <2>2, TurnStays
  <2> QED  BY <2>1, <2>2
<1>1. CASE r # turn  BY <1>0, <1>1, <1>a DEF requestVars
<1>2. CASE r = turn
  <2> USE <1>2, <1>a DEF Unheard
  <2>1. CASE \/ Metadata \/ StartDub \/ PrepareAudio \/ AudioTooLarge \/ Analyse
             \/ DeliverSource \/ Extras
    BY <2>1 DEF Metadata, StartDub, PrepareAudio, AudioTooLarge, Analyse, DeliverSource, Extras,
                NextAfterClient, AfterSource, Locals, Delivering, SendVideo, SendClean,
                SendMixed, Rollback, RejectVideo, StopSend
  <2>2. CASE SendAtTheEnd \/ EnterSend \/ CheckDub \/ AwaitDub \/ WaitTimeout
    BY <2>2
       DEF SendAtTheEnd, EnterSend, CheckDub, AwaitDub, WaitTimeout, Locals, Delivering,
           SendVideo, SendClean, SendMixed, Rollback, RejectVideo, StopSend
  <2>3. CASE Commit \/ StoreId \/ ClearId \/ FlushFirst
    BY <2>3
       DEF Commit, StoreId, ClearId, FlushFirst, Locals, Delivering, SendVideo, SendClean,
           SendMixed, Rollback, RejectVideo, StopSend
  <2>4. CASE FlushEnds \/ Oversize \/ Notice \/ Heard
    BY <2>4
       DEF FlushEnds, Oversize, Notice, Tell, Heard, Locals, Delivering, SendVideo, SendClean,
           SendMixed, Rollback, RejectVideo, StopSend
  <2>5. CASE Raise \/ Rescue \/ Report \/ Succeed \/ Finally
    BY <2>5
       DEF Raise, Rescue, Report, Succeed, Finally, Locals, Delivering, SendVideo, SendClean,
           SendMixed, Rollback, RejectVideo, StopSend
  <2>6. CASE Return
    <3>1. self.caller \in Callers \ {"none"} /\ self.heard \in BOOLEAN
      BY <2>6 DEF Return, ControlInv, ControlTypes, Flow, Helping, Locals
    <3> QED  BY <2>6, <3>1
                DEF Return, Callers, Locals, Delivering, SendVideo, SendClean, SendMixed,
                    Rollback, RejectVideo, StopSend
  <2>7. ~Delivering  BY DEF Delivering, SendVideo, SendClean, SendMixed, Rollback, RejectVideo, StopSend
  <2>8. CASE UNCHANGED requestVars \/ Begin
    BY <2>7, <2>8 DEF requestVars, Begin
  <2>9. CASE \/ Background \/ Crash \/ \E s \in Numbers : PushOut(s)
             \/ \E s \in Numbers : TimerStep(s)
    BY <2>7, <2>9 DEF Background, Crash, PushOut, TimerStep, TimerFires, TimerSends
  <2> QED  BY <2>1, <2>2, <2>3, <2>4, <2>5, <2>6, <2>7, <2>8, <2>9
              DEF RequestNext, RequestStep, Delivering
<1> QED  BY <1>1, <1>2

\* How a held MP3 comes to an end.
LEMMA Ending ==
  ASSUME ControlInv, DeferralInv, chat \in Chats, [RequestNext]_requestVars, NEW r \in Numbers
  PROVE  /\ missed[r] => missed'[r]
         /\ mp3'[r] = "over" /\ mp3[r] # "over" =>
              \/ chat'[r]["source"] > 0 \/ missed'[r]
              \/ Commit /\ r = turn /\ turn' = turn /\ at' \in {"store", "heard"}
<1> USE DEF deferral
<1>a. /\ mp3 \in [Numbers -> {"none", "held", "over"}] /\ missed \in [Numbers -> BOOLEAN]
      /\ at \notin {"idle", "finally"} => turn \in Numbers
  BY DEF DeferralInv, ControlInv, Flow
<1>b. \A c \in Chats, s \in Numbers : /\ Shown(c, s, "source")[s]["source"] > 0
                                      /\ Shown(c, s, "source") \in Chats
  <2>1. SUFFICES ASSUME NEW c \in Chats, NEW s \in Numbers
                 PROVE  Shown(c, s, "source")[s]["source"] > 0 /\ Shown(c, s, "source") \in Chats
    OBVIOUS
  <2>2. "source" \in Kinds /\ c[s]["source"] \in Nat  BY DEF Chats, Kinds
  <2>3. /\ Shown(c, s, "source")[s]["source"] = c[s]["source"] + 1
        /\ Shown(c, s, "source") \in Chats
    BY ZenonT(60), <2>2, ShownEffect DEF Chats
  <2> QED  BY <2>2, <2>3
<1>1. CASE \/ UNCHANGED requestVars \/ Begin \/ Metadata \/ StartDub \/ PrepareAudio
           \/ AudioTooLarge \/ Analyse \/ Extras \/ SendAtTheEnd \/ EnterSend
  BY <1>1 DEF requestVars, Begin, Metadata, StartDub, PrepareAudio, AudioTooLarge, Analyse, Extras,
              SendAtTheEnd, EnterSend
<1>2. CASE \/ AwaitDub \/ CheckDub \/ SendVideo \/ SendClean \/ SendMixed \/ StoreId \/ Rollback
           \/ RejectVideo \/ ClearId \/ FlushFirst \/ Oversize \/ Notice \/ Heard
  BY <1>2 DEF AwaitDub, CheckDub, SendVideo, SendClean, SendMixed, StoreId, Rollback,
              RejectVideo, ClearId, FlushFirst, Oversize, Notice, Heard
<1>3. CASE \/ Return \/ Raise \/ Rescue \/ Report \/ Succeed \/ Finally \/ Background \/ WaitTimeout
  BY <1>3 DEF Return, Raise, Rescue, Report, Succeed, Finally, Background, WaitTimeout
<1>4. CASE DeliverSource
  BY <1>4, <1>a DEF DeliverSource, Defer
<1>5. CASE FlushEnds
  <2>1. turn \in Numbers  BY <1>5, <1>a DEF FlushEnds
  <2>2. /\ mp3' = [mp3 EXCEPT ![turn] = IF @ = "held" THEN "over" ELSE @]
        /\ \/ missed' = missed /\ chat' \in {Shown(chat, turn, "source"),
                                             Shown(Shown(chat, turn, "source"), turn, "source")}
           \/ missed' = [missed EXCEPT ![turn] = TRUE]
           \/ mp3[turn] = "over" /\ missed' = missed
    BY <1>5 DEF FlushEnds, Cleanup
  <2>3. chat' \in {Shown(chat, turn, "source"), Shown(Shown(chat, turn, "source"), turn, "source")}
          => chat'[turn]["source"] > 0
    BY <1>b, <2>1
  <2> QED  BY <1>a, <2>1, <2>2, <2>3
<1>6. CASE Commit
  <2>1. /\ turn \in Numbers /\ turn' = turn /\ missed' = missed
        /\ \/ mp3' = mp3
           \/ /\ mp3' = [mp3 EXCEPT ![turn] = IF @ = "held" THEN "over" ELSE @]
              /\ at' \in {"store", "heard"}
    BY <1>6, <1>a DEF Commit, Cleanup, GoTo, ended
  <2> QED  BY <1>6, <1>a, <2>1
<1>7. CASE Crash \/ StopSend \/ \E s \in Numbers : PushOut(s)
  BY <1>7, <1>a DEF Crash, StopSend, TasksEnd, PushOut
<1>8. ASSUME NEW s \in Numbers, TimerStep(s)
      PROVE  /\ missed[r] => missed'[r]
             /\ mp3'[r] = "over" /\ mp3[r] # "over" => chat'[r]["source"] > 0 \/ missed'[r]
  BY <1>8, <1>a, <1>b DEF TimerStep, TimerFires, TimerSends
<1> QED  BY <1>1, <1>2, <1>3, <1>4, <1>5, <1>6, <1>7, <1>8 DEF RequestNext, RequestStep

\* What a delivering step leaves alone.
LEMMA OthersKept ==
  ASSUME ControlInv, ChatInv, Delivering, NEW r \in Numbers
  PROVE  /\ chat'[r]["source"] = chat[r]["source"]
         /\ r # turn => chat'[r] = chat[r]
<1>a. /\ turn \in Numbers /\ chat \in Chats /\ chat \in [Numbers -> [Kinds -> Nat]]
      /\ stray \in [Numbers -> Nat] /\ self \in Locals /\ SentShape
      /\ {"video", "clean", "mixed"} = Dub /\ "source" \in Kinds \ Dub
  BY DEF Delivering, SendVideo, SendClean, SendMixed, Rollback, RejectVideo, StopSend,
         ControlInv, ControlTypes, Flow, ChatInv, Chats, Dub, Kinds
<1>1. ASSUME NEW k \in Dub, NEW sent, NEW L, Send(k, sent, L)
      PROVE  /\ chat'[r]["source"] = chat[r]["source"] /\ (r # turn => chat'[r] = chat[r])
  BY <1>a, <1>1, SendEffect
<1>2. ASSUME NEW S \in SUBSET Dub, S \in SUBSET Kinds, \A k \in S : chat[turn][k] > 0, DeleteSent(S)
      PROVE  /\ chat'[r]["source"] = chat[r]["source"] /\ (r # turn => chat'[r] = chat[r])
  BY <1>a, <1>2, DeleteEffect
<1>3. CASE SendVideo \/ SendClean \/ SendMixed
  <2>1. UNCHANGED chat \/ \E k \in Dub : \E sent, L : Send(k, sent, L)
    BY <1>3, <1>a DEF SendVideo, SendClean, SendMixed, visible
  <2> QED  BY <1>1, <2>1
<1>4. CASE Rollback
  <2> DEFINE S == self.sent \cap {"clean", "mixed"}
  <2>1. S \in SUBSET Dub /\ S \in SUBSET Kinds /\ DeleteSent(S) /\ \A k \in S : chat[turn][k] > 0
    BY <1>4, <1>a DEF Rollback, ChatInv, AfterVideo, Kinds
  <2> HIDE DEF S
  <2> QED  BY <1>2, <2>1
<1>5. CASE RejectVideo
  <2> DEFINE S == self.sent \cap {"video"}
  <2>1. S \in SUBSET Dub /\ S \in SUBSET Kinds /\ DeleteSent(S) /\ \A k \in S : chat[turn][k] > 0
    BY <1>5, <1>a DEF RejectVideo, ChatInv, Kinds
  <2> HIDE DEF S
  <2> QED  BY <1>2, <2>1
<1>6. CASE StopSend  BY <1>6, <1>a, StopEffect
<1> QED  BY <1>3, <1>4, <1>5, <1>6 DEF Delivering

\* No step loses both the source MP3 and the pair that took its place.
LEMMA Source_Step ==
  ControlInv /\ DeferralInv /\ ChatInv /\ SourceInv /\ [RequestNext]_requestVars => SourceInv'
<1> SUFFICES ASSUME ControlInv, DeferralInv, ChatInv, SourceInv, [RequestNext]_requestVars,
                    NEW r \in Numbers, mp3'[r] = "over"
             PROVE  chat'[r]["source"] > 0 \/ missed'[r] \/ (chat'[r]["clean"] > 0 /\ PairStays(r)')
  BY DEF SourceInv
<1>a. /\ chat \in Chats /\ stray \in [Numbers -> Nat]
      /\ chat[r]["source"] \in Nat /\ chat[r]["clean"] \in Nat
  BY DEF ChatInv, Chats, Kinds
<1>1. /\ missed[r] => missed'[r]
      /\ mp3[r] # "over" =>
              \/ chat'[r]["source"] > 0 \/ missed'[r]
              \/ Commit /\ r = turn /\ turn' = turn /\ at' \in {"store", "heard"}
  BY <1>a, Ending
<1>2. ~Delivering => DubKept  BY <1>a, DubKept_Step
<1>3. chat[r]["source"] > 0 => chat'[r]["source"] > 0
  <2>1. CASE Delivering  BY <2>1, OthersKept
  <2>2. CASE ~Delivering
    <3>1. chat'[r]["source"] >= chat[r]["source"] /\ chat'[r]["source"] \in Nat
      BY <1>2, <2>2 DEF DubKept, Kept, Chats, Kinds
    <3> QED  BY <1>a, <3>1
  <2> QED  BY <2>1, <2>2
<1>4. ~Delivering => chat'[r]["clean"] = chat[r]["clean"]
  BY <1>2 DEF DubKept, Kept, Dub
<1>5. CASE mp3[r] # "over"
  <2>1. Commit /\ r = turn => ~Delivering /\ chat[r]["clean"] > 0
    BY DEF Commit, ChatInv, AfterVideo, ControlInv, SentShape, Delivering, SendVideo, SendClean,
           SendMixed, Rollback, RejectVideo, StopSend
  <2> QED  BY <1>1, <1>4, <1>5, <2>1 DEF PairStays
<1>6. CASE mp3[r] = "over" /\ chat[r]["clean"] > 0 /\ PairStays(r)
  <2>1. r <= turn
    BY <1>6, VisitAssumption DEF DeferralInv, ControlInv, ControlTypes, Numbers
  <2>2. PairStays(r)' /\ (Delivering => r # turn)  BY <1>6, <2>1, PairStays_Step
  <2>3. chat'[r]["clean"] > 0  BY <1>4, <1>6, <2>2, OthersKept
  <2> QED  BY <2>2, <2>3
<1> QED  BY <1>1, <1>3, <1>5, <1>6 DEF SourceInv

-----------------------------------------------------------------------------
(* The file id.                                                            *)

\* The request has stored its file id.
Stored == at \in {"heard", "idle"} \/ self.heard

\* A row names a pair that is in the cache, or was pushed out, or is just being
\* rejected by the request that offered it; the request's own id is stored last.
IdInv ==
  /\ pairs \in SUBSET Numbers /\ stale \in SUBSET Numbers /\ analysed \in BOOLEAN
  /\ rowId <= turn
  /\ rowId = turn /\ turn # 0 => Stored
  /\ at = "store" => turn \in pairs \cup stale
  /\ rowId # 0 /\ rowId \notin pairs \cup stale =>
       at \in {"reject", "clear"} /\ rowId = self.offered

\* The actions on the file id and its pair, and the ways to them.
Storing ==
  \/ Begin \/ SendVideo \/ SendClean \/ SendMixed \/ Commit \/ StoreId \/ Rollback
  \/ RejectVideo \/ ClearId \/ Crash \/ StopSend \/ \E r \in Numbers : PushOut(r)

LEMMA Settling ==
  ASSUME ControlInv, [RequestNext]_requestVars, ~Storing, analysed \in BOOLEAN
  PROVE  /\ UNCHANGED <<rowId, pairs, stale>> /\ analysed' \in BOOLEAN
         /\ self'.offered = self.offered
         /\ at' = "store" => at = "store"
         /\ Stored => Stored'
         /\ at \in {"reject", "clear"} => at' = at
<1> USE DEF Stored, Flushing, GoTo, FlushThen, Call, End, store
<1>a. /\ at = "flush" => self.then \in AfterFlush
      /\ self \in Locals
      /\ at \in Unheard \/ Flushing(AfterFlush \ {"finished"}) => ~self.heard
  BY VisitAssumption DEF ControlInv, ControlTypes, Flow
<1>1. CASE Metadata \/ StartDub \/ PrepareAudio \/ AudioTooLarge \/ Analyse
  <2>1. CASE Metadata  BY <1>a, <2>1 DEF Metadata
  <2>2. CASE StartDub
    <3>1. /\ at = "client" /\ at' \in {"send", "prepare", "finally"}
          /\ UNCHANGED <<rowId, pairs, stale, analysed>>
          /\ \E s \in {self, [self EXCEPT !.mode = "rus"]} :
               self' \in {s, [s EXCEPT !.caller = "quick"]}
      BY ONLY <2>2, Zenon DEF StartDub, NextAfterClient, Call, GoTo, End, store
    <3>2. self'.offered = self.offered /\ self'.heard = self.heard  BY <1>a, <3>1 DEF Locals
    <3> QED  BY <1>a, <3>1, <3>2
  <2>3. CASE PrepareAudio  BY <1>a, <2>3 DEF PrepareAudio, Locals
  <2>4. CASE AudioTooLarge  BY <1>a, <2>4 DEF AudioTooLarge, Locals
  <2>5. CASE Analyse
    <3>1. /\ at = "analysis" /\ at' \in {"deliver", "except"} /\ UNCHANGED <<rowId, pairs, stale>>
          /\ self' = [self EXCEPT !.then = "fresh"]
          /\ analysed' \in {analysed, TRUE}
      BY <2>5 DEF Analyse
    <3>2. analysed' \in BOOLEAN  BY <3>1, Zenon
    <3>3. self'.offered = self.offered /\ self'.heard = self.heard  BY <1>a, <3>1 DEF Locals
    <3> QED  BY <1>a, <3>1, <3>2, <3>3
  <2> QED  BY <1>1, <2>1, <2>2, <2>3, <2>4, <2>5
<1>2. CASE DeliverSource \/ Extras \/ SendAtTheEnd \/ EnterSend \/ CheckDub
  BY <1>2, <1>a DEF DeliverSource, Extras, AfterSource, SendAtTheEnd, EnterSend, CheckDub, Locals
<1>3. CASE AwaitDub \/ WaitTimeout
  <2>1. CASE AwaitDub
    <3>1. /\ at = "await" /\ at' \in {"check", "return", "finally", "flush", "fulltext"}
          /\ \E s \in {self, [self EXCEPT !.noticed = TRUE]} :
               self' \in {s, [s EXCEPT !.then = "fulltext"]}
          /\ UNCHANGED <<rowId, pairs, stale, analysed>>
      BY <2>1 DEF AwaitDub
    <3>2. self'.offered = self.offered /\ self'.heard = self.heard  BY <1>a, <3>1 DEF Locals
    <3> QED  BY <1>a, <3>1, <3>2 DEF Unheard
  <2>2. CASE WaitTimeout  BY <1>a, <2>2 DEF WaitTimeout, Locals, Unheard
  <2> QED  BY <1>3, <2>1, <2>2
<1>4. CASE FlushFirst
  BY <1>4, <1>a DEF FlushFirst, Locals, Unheard
<1>5. CASE FlushEnds
  BY <1>5, <1>a DEF FlushEnds, AfterFlush
<1>6. CASE Oversize \/ Notice \/ Heard
  BY <1>6, <1>a DEF Oversize, Notice, Tell, Heard, Unheard, Locals
<1>7. CASE Raise \/ Rescue \/ Report \/ Succeed \/ Finally
  BY <1>7, <1>a DEF Raise, Rescue, Report, Succeed, Finally, Locals
<1>8. CASE Return
  <2>1. self.caller \in Callers \ {"none"} /\ self.heard \in BOOLEAN
    BY <1>8 DEF Return, ControlInv, ControlTypes, Flow, Helping, Locals
  <2>2. /\ at = "return" /\ at' \in {"finally", "quicktext", "end", "flush", "finished", "error"}
        /\ self' \in {self, [self EXCEPT !.then = "finished"]}
        /\ UNCHANGED <<rowId, pairs, stale, analysed>>
    BY <1>8, <2>1 DEF Return, Callers
  <2>3. self'.offered = self.offered /\ self'.heard = self.heard  BY <1>a, <2>2 DEF Locals
  <2> QED  BY <1>a, <2>2, <2>3
<1>9. CASE UNCHANGED requestVars \/ Background \/ \E r \in Numbers : TimerStep(r)
  BY <1>9, <1>a DEF requestVars, Background, TimerStep, TimerFires, TimerSends
<1> QED  BY <1>1, <1>2, <1>3, <1>4, <1>5, <1>6, <1>7, <1>8, <1>9
            DEF RequestNext, RequestStep, Storing

\* No step leaves a file id without its pair, but for what the cache pushes out
\* and for a rejection that does not reach the row.
LEMMA Id_Step == ControlInv /\ IdInv /\ [RequestNext]_requestVars => IdInv'
<1> SUFFICES ASSUME ControlInv, IdInv, [RequestNext]_requestVars PROVE IdInv'  OBVIOUS
<1>a. /\ turn \in Nat /\ Numbers \subseteq Nat /\ 0 \notin Numbers
      /\ at \notin {"idle", "finally"} => turn \in Numbers
      /\ self \in Locals /\ self.offered \in {0} \cup Numbers /\ rowId \in Nat
      /\ self.heard \in BOOLEAN
      /\ at \in Unheard => ~self.heard
      /\ rowId <= turn
      /\ pairs \in SUBSET Numbers /\ stale \in SUBSET Numbers /\ analysed \in BOOLEAN
  BY VisitAssumption DEF ControlInv, ControlTypes, Flow, Numbers, Locals, IdInv
<1>b. self.offered # 0 => self.offered \in Numbers  BY <1>a
<1>c. at \in {"commit", "store", "rollback", "reject", "clear"} =>
        turn \in Numbers /\ ~Stored /\ rowId # turn
  BY <1>a DEF IdInv, Stored, Unheard
<1>d. at \notin {"reject", "clear"} /\ rowId # 0 => rowId \in pairs \cup stale
  BY DEF IdInv
<1> USE DEF GoTo, ended, store, Cached, VideoId
<1>1. CASE ~Storing
  <2>1. ~Begin  BY <1>1 DEF Storing
  <2>2. turn' = turn  BY <1>a, <2>1, TurnStays DEF requestVars
  <2>3. /\ UNCHANGED <<rowId, pairs, stale>> /\ analysed' \in BOOLEAN
        /\ self'.offered = self.offered
        /\ at' = "store" => at = "store"
        /\ Stored => Stored'
        /\ at \in {"reject", "clear"} => at' = at
    BY <1>1, <1>a, Settling
  <2> QED  BY <1>a, <2>2, <2>3 DEF IdInv
<1>2. CASE Begin
  <2>1. /\ at = "idle" /\ at' = "metadata" /\ turn' = turn + 1
        /\ UNCHANGED <<rowId, pairs, stale, analysed>>
    BY <1>2 DEF Begin
  <2> QED  BY <1>a, <1>d, <2>1 DEF IdInv
<1>3. CASE SendVideo \/ SendClean \/ SendMixed
  <2>1. /\ at \in {"video", "clean", "mixed"} /\ turn' = turn
        /\ UNCHANGED <<rowId, pairs, stale, analysed>>
        /\ at' \in {"reserved", "clean", "reject", "video", "fail", "mixed", "rollback", "commit"}
    BY <1>3 DEF SendVideo, SendClean, SendMixed, Send
  <2>2. rowId # turn \/ turn = 0  BY <1>a, <2>1 DEF IdInv, Stored, Unheard
  <2> QED  BY <1>a, <1>d, <2>1, <2>2 DEF IdInv
<1>4. CASE Commit
  <2>1. /\ at = "commit" /\ turn' = turn /\ self' = self /\ UNCHANGED <<rowId, stale, analysed>>
        /\ at' \in {"heard", "store", "rollback"}
        /\ pairs' \in {pairs, pairs \cup {turn}}
        /\ at' = "store" => pairs' = pairs \cup {turn}
    BY <1>4 DEF Commit
  <2> QED  BY <1>a, <1>c, <1>d, <2>1 DEF IdInv
<1>5. CASE StoreId
  <2>1. /\ at = "store" /\ at' = "heard" /\ turn' = turn /\ self' = self
        /\ UNCHANGED <<stale, analysed>>
        /\ \/ rowId' = turn /\ pairs' = pairs
           \/ rowId' = rowId /\ pairs' = pairs \ {turn}
    BY <1>5 DEF StoreId
  <2>2. turn \in pairs \cup stale /\ Stored'  BY <2>1 DEF IdInv, Stored
  <2>3. CASE rowId' = turn /\ pairs' = pairs  BY <1>a, <1>c, <2>1, <2>2, <2>3 DEF IdInv
  <2>4. CASE rowId' = rowId /\ pairs' = pairs \ {turn}
    BY <1>a, <1>c, <1>d, <2>1, <2>2, <2>4 DEF IdInv
  <2> QED  BY <2>1, <2>3, <2>4
<1>6. CASE Rollback
  <2>1. /\ at = "rollback" /\ turn' = turn /\ UNCHANGED <<rowId, analysed>>
        /\ pairs' = pairs \ {IF self.offered # 0 THEN self.offered ELSE turn}
    BY <1>6 DEF Rollback
  <2>2. CASE at' = "reject" /\ self.offered # 0 /\ self' = self /\ stale' = stale
    BY <1>a, <1>c, <1>d, <2>1, <2>2 DEF IdInv
  <2>3. CASE at' \in {"flush", "pairtext"} /\ self.offered = 0 /\ stale' = stale
    BY <1>a, <1>c, <1>d, <2>1, <2>3 DEF IdInv
  <2>4. CASE at' = "idle" /\ Outlives
    <3>1. stale' = IF self.offered # 0 THEN stale \cup {self.offered} ELSE stale
      BY <2>4 DEF Outlives
    <3> QED  BY <1>a, <1>b, <1>c, <1>d, <2>1, <2>4, <3>1 DEF IdInv
  <2> QED  BY <1>6, <2>2, <2>3, <2>4 DEF Rollback, FlushThen
<1>7. CASE RejectVideo
  <2>1. /\ at = "reject" /\ at' = "clear" /\ turn' = turn /\ self' = self
        /\ UNCHANGED <<rowId, pairs, stale, analysed>>
    BY <1>7 DEF RejectVideo
  <2> QED  BY <1>a, <1>c, <2>1 DEF IdInv
<1>8. CASE ClearId
  <2>1. /\ at = "clear" /\ turn' = turn /\ UNCHANGED <<pairs, analysed>>
        /\ at' \in {"flush", "rejecttext"}
        /\ \/ rowId' = 0 /\ stale' = stale
           \/ rowId' = rowId /\ stale' = IF self.offered # 0 THEN stale \cup {self.offered} ELSE stale
    BY <1>8 DEF ClearId, FlushThen, Outlives
  <2>2. CASE rowId' = 0 /\ stale' = stale  BY <1>a, <1>c, <2>1, <2>2 DEF IdInv
  <2>3. CASE rowId' = rowId /\ stale' = IF self.offered # 0 THEN stale \cup {self.offered} ELSE stale
    <3>1. rowId' # 0 => rowId' \in pairs' \cup stale'  BY <2>1, <2>3 DEF IdInv
    <3>2. stale' \in SUBSET Numbers  BY <1>a, <1>b, <2>3
    <3> QED  BY <1>a, <1>c, <2>1, <2>3, <3>1, <3>2 DEF IdInv
  <2> QED  BY <2>1, <2>2, <2>3
<1>9. CASE Crash
  <2>1. /\ at # "idle" /\ at' = "idle" /\ turn' = turn /\ UNCHANGED <<rowId, pairs, analysed>>
        /\ stale' = IF at \in {"reject", "clear"} /\ self.offered # 0
                      THEN stale \cup {self.offered} ELSE stale
    BY <1>9 DEF Crash, Outlives
  <2>2. Stored'  BY <2>1 DEF Stored
  <2> QED  BY <1>a, <1>b, <2>1, <2>2 DEF IdInv
<1>10. CASE StopSend
  <2>1. /\ at \in {"clean", "mixed"} /\ at' = "rollback" /\ turn' = turn
        /\ UNCHANGED <<rowId, pairs, stale, analysed>>
    BY <1>10 DEF StopSend
  <2>2. rowId # turn \/ turn = 0  BY <1>a, <2>1 DEF IdInv, Stored, Unheard
  <2> QED  BY <1>a, <1>d, <2>1, <2>2 DEF IdInv
<1>11. ASSUME NEW r \in Numbers, PushOut(r) PROVE IdInv'
  <2>1. /\ pairs' = pairs \ {r} /\ stale' = stale \cup {r}
        /\ UNCHANGED <<at, self, turn, rowId, analysed>>
    BY <1>11 DEF PushOut
  <2>2. Stored => Stored'  BY <2>1 DEF Stored
  <2> QED  BY <1>a, <2>1, <2>2 DEF IdInv
<1> QED  BY <1>1, <1>2, <1>3, <1>4, <1>5, <1>6, <1>7, <1>8, <1>9, <1>10, <1>11 DEF Storing

-----------------------------------------------------------------------------
(* Theorems.                                                               *)

RequestInv == ControlInv /\ DeferralInv /\ ChatInv /\ MessageInv /\ SourceInv /\ IdInv

\* The invariant holds before the first request.
LEMMA Request_Init == RequestInit => RequestInv
<1> SUFFICES ASSUME RequestInit PROVE RequestInv  OBVIOUS
<1> USE VisitAssumption DEF RequestInit, Numbers, Kinds
<1>1. ControlInv
  BY DEF ControlInv, ControlTypes, Flow, SentShape, Fresh, Locals, Callers, Helping, Unheard,
     Flushing, AfterFlush
<1>2. DeferralInv  BY DEF DeferralInv
<1>3. ChatInv  BY DEF ChatInv, AfterVideo
<1>4. MessageInv  BY DEF MessageInv, ExactlySent, PairOrNothing, Closed
<1>5. SourceInv  BY DEF SourceInv
<1>6. IdInv
  <2>1. turn = 0 /\ rowId = 0 /\ at = "idle" /\ pairs = {} /\ stale = {} /\ analysed = FALSE
    OBVIOUS
  <2>2. analysed \in BOOLEAN  BY ONLY <2>1, Zenon
  <2> QED  BY <2>1, <2>2 DEF IdInv
<1> QED  BY <1>1, <1>2, <1>3, <1>4, <1>5, <1>6 DEF RequestInv

\* The inductive invariant of requests for one video: where the request is, what
\* it has sent, what the user sees of it and what the row and the cache keep.
THEOREM RequestInductive == RequestSpec => []RequestInv
<1>1. RequestInv /\ [RequestNext]_requestVars => RequestInv'
  BY Control_Step, Deferral_Step, Chat_Step, Message_Step, Source_Step, Id_Step DEF RequestInv
<1> QED  BY <1>1, Request_Init, PTL DEF RequestSpec

\* Type correctness; a timer runs just as long as the source MP3 is held
\* (SourceAudioDeferral).
THEOREM RequestTyped == RequestSpec => []RequestTypeOK
<1>1. RequestInv => RequestTypeOK
  BY DEF RequestInv, RequestTypeOK, ControlInv, ControlTypes, DeferralInv, ChatInv, IdInv,
         Helping, Unheard
<1> QED  BY <1>1, RequestInductive, PTL

\* What the user sees when a request has ended is all or nothing, however often
\* _send_livedub_result was called and whichever of its calls failed.
THEOREM RequestPairOrNothing == RequestSpec => []PairOrNothing
<1>1. RequestInv => PairOrNothing  BY DEF RequestInv, MessageInv
<1> QED  BY <1>1, RequestInductive, PTL

\* The source MP3 that SourceAudioDeferral holds back reaches the user, or the
\* dub's pair does, unless the send of the MP3 failed.
THEOREM RequestSourceOrPair == RequestSpec => []SourceOrPair
<1>1. RequestInv => SourceOrPair  BY DEF RequestInv, SourceInv, SourceOrPair
<1> QED  BY <1>1, RequestInductive, PTL

\* The row's livedub_file_id names a video whose two companions are in the companion
\* cache, except while the request that found them missing is about to clear the
\* row, when newer pairs pushed them out of the cache (save_recoverable_cache), or
\* when the rejection did not reach the row because of a failure, a crash or a stop.
THEOREM RequestIdMeansPair == RequestSpec => []IdMeansPair
<1>1. RequestInv => IdMeansPair
  <2> SUFFICES ASSUME RequestInv, rowId # 0, rowId \notin pairs, rowId \notin stale
               PROVE  rowId < turn /\ at \in {"reject", "clear"} /\ self.offered # 0
    BY DEF IdMeansPair
  <2>1. rowId \in Nat /\ turn \in Nat
    BY VisitAssumption DEF RequestInv, ControlInv, ControlTypes
  <2>2. at \in {"reject", "clear"} /\ rowId = self.offered  BY DEF RequestInv, IdInv
  <2>3. rowId <= turn /\ rowId # turn
    BY <2>2 DEF RequestInv, IdInv, Stored, ControlInv, Flow, Unheard
  <2> QED  BY <2>1, <2>2, <2>3
<1> QED  BY <1>1, RequestInductive, PTL

-----------------------------------------------------------------------------
(* The end of a request.                                                   *)

\* How far the helper is from its return.
HelperAhead ==
  CASE at = "send" -> 14
    [] at = "await" -> 13
    [] at = "check" -> 12
    [] at = "video" -> 11
    [] at = "clean" -> 10
    [] at = "mixed" -> 9
    [] at = "commit" -> 8
    [] at = "store" -> 7
    [] at = "rollback" -> 6
    [] at \in {"reject", "oversize"} -> 5
    [] at \in {"clear", "fail", "reserved"} -> 4
    [] at = "flush" -> 3
    [] at \in {"fulltext", "timeouttext", "failtext", "pairtext", "rejecttext"} -> 2
    [] at = "heard" -> 1
    [] OTHER -> 0

\* How far its caller is from the end of the request, once the helper is over.
CallerAhead ==
  CASE self.caller = "except" -> 4
    [] self.caller = "end" -> 20
    [] OTHER -> 36

\* How many steps the request under way has left at most, without those that a
\* failure makes it repeat.
StepsAhead ==
  CASE at = "idle" -> 0
    [] at = "finally" -> 1
    [] at \in {"error", "quicktext", "finished"} -> 2
    [] Flushing({"finished"}) -> 3
    [] at = "except" -> 19
    [] at = "end" -> 35
    [] at \in {"extras", "toolarge"} -> 51
    [] at = "deliver" -> 52
    [] at = "analysis" -> 53
    [] at = "prepare" -> 54
    [] at = "client" -> 55
    [] at = "metadata" -> 56
    [] OTHER -> CallerAhead + HelperAhead

\* Nearer to the end, or a failure makes the request repeat a send.
Nearer ==
  \/ StepsAhead' < StepsAhead
  \/ StepsAhead' = StepsAhead /\ troubles' > troubles

\* Each step of the request brings it nearer to its end, and no timer, no background
\* task and no other video puts it off.
RequestAdvances ==
  /\ RequestStep \/ WaitTimeout \/ Crash \/ StopSend => Nearer
  /\ Background \/ (\E r \in Numbers : TimerStep(r) \/ PushOut(r)) => StepsAhead' = StepsAhead

RequestsAdvance == [][RequestAdvances]_requestVars

\* Every step that the request takes itself.
LEMMA Nearer_Step ==
  ControlInv /\ (RequestStep \/ WaitTimeout \/ Crash \/ StopSend) => Nearer
<1> SUFFICES ASSUME ControlInv, RequestStep \/ WaitTimeout \/ Crash \/ StopSend PROVE Nearer
  OBVIOUS
<1> USE VisitAssumption
    DEF ControlInv, ControlTypes, Flow, Flushing, Stopping, AfterFlush, Unheard, Helping, Locals,
        Callers, GoTo, Trouble, Calm, End, Call, NextAfterClient, AfterSource, Send, Tell, FlushThen,
        Nearer, StepsAhead, CallerAhead, HelperAhead
<1>1. CASE Metadata  BY <1>1 DEF Metadata
<1>2. CASE StartDub  BY <1>2 DEF StartDub
<1>3. CASE PrepareAudio  BY <1>3 DEF PrepareAudio
<1>4. CASE AudioTooLarge  BY <1>4 DEF AudioTooLarge
<1>5. CASE Analyse
  <2>1. at = "analysis" /\ at' \in {"deliver", "except"}  BY ONLY <1>5, Zenon DEF Analyse, GoTo
  <2> QED  BY ONLY <2>1 DEF Nearer, StepsAhead, Flushing
<1>6. CASE DeliverSource  BY <1>6 DEF DeliverSource
<1>7. CASE Extras  BY <1>7 DEF Extras
<1>8. CASE SendAtTheEnd  BY <1>8 DEF SendAtTheEnd
<1>9. CASE EnterSend  BY <1>9 DEF EnterSend
<1>10. CASE AwaitDub
  <2> USE <1>10 DEF AwaitDub
  <2>1. CASE work \in {"video", "reserve"}  BY <2>1
  <2>2. CASE work = "cancelled"  BY <2>2
  <2>3. CASE work = "nothing" /\ self.mode = "eng" /\ ~self.noticed
    <3>1. /\ at = "await" /\ at' \in {"flush", "fulltext"}
          /\ self'.caller = self.caller /\ (at' = "flush" => self'.then = "fulltext")
      BY <2>3
    <3> QED  BY ONLY <3>1 DEF Nearer, StepsAhead, Flushing, CallerAhead, HelperAhead
  <2>4. CASE work = "nothing" /\ ~(self.mode = "eng" /\ ~self.noticed)  BY <2>4
  <2> QED  BY <2>1, <2>2, <2>3, <2>4
<1>11. CASE CheckDub  BY <1>11 DEF CheckDub
<1>12. CASE SendVideo  BY <1>12 DEF SendVideo
<1>13. CASE SendClean  BY <1>13 DEF SendClean
<1>14. CASE SendMixed  BY <1>14 DEF SendMixed
<1>15. CASE Commit  BY <1>15 DEF Commit
<1>16. CASE StoreId  BY <1>16 DEF StoreId
<1>17. CASE Rollback  BY <1>17 DEF Rollback
<1>18. CASE RejectVideo  BY <1>18 DEF RejectVideo
<1>19. CASE ClearId  BY <1>19 DEF ClearId
<1>20. CASE FlushFirst  BY <1>20 DEF FlushFirst
<1>21. CASE FlushEnds  BY <1>21 DEF FlushEnds
<1>22. CASE Oversize  BY <1>22 DEF Oversize
<1>23. CASE Notice  BY <1>23 DEF Notice
<1>24. CASE Heard  BY <1>24 DEF Heard
<1>25. CASE Return
  <2> USE <1>25 DEF Return
  <2>1. CASE self.caller = "quick"
    <3>1. CASE self.heard  BY <2>1, <3>1
    <3>2. CASE ~self.heard  BY <2>1, <3>2
    <3> QED  BY <3>1, <3>2
  <2>2. CASE self.caller = "toolarge"  BY <2>2
  <2>3. CASE self.caller = "extras"  BY <2>3
  <2>4. CASE self.caller = "end"  BY <2>4
  <2>5. CASE self.caller = "hit"  BY <2>5
  <2>6. CASE self.caller = "except"  BY <2>6
  <2>7. at = "return" /\ self.caller \in Callers \ {"none"}  OBVIOUS
  <2> QED  BY <2>1, <2>2, <2>3, <2>4, <2>5, <2>6, <2>7
<1>26. CASE Raise  BY <1>26 DEF Raise
<1>27. CASE Rescue  BY <1>27 DEF Rescue
<1>28. CASE Report  BY <1>28 DEF Report
<1>29. CASE Succeed  BY <1>29 DEF Succeed
<1>30. CASE Finally  BY <1>30 DEF Finally
<1>31. CASE WaitTimeout  BY <1>31 DEF WaitTimeout
<1>32. CASE Crash  BY <1>32 DEF Crash
<1>33. CASE StopSend  BY <1>33 DEF StopSend
<1> QED  BY <1>1, <1>2, <1>3, <1>4, <1>5, <1>6, <1>7, <1>8, <1>9, <1>10, <1>11, <1>12, <1>13, <1>14,
            <1>15, <1>16, <1>17, <1>18, <1>19, <1>20, <1>21, <1>22, <1>23, <1>24, <1>25, <1>26,
            <1>27, <1>28, <1>29, <1>30, <1>31, <1>32, <1>33 DEF RequestStep

\* The background task, the timers and other videos' pairs leave the request where it is.
LEMMA Others_Step ==
  Background \/ (\E r \in Numbers : TimerStep(r) \/ PushOut(r)) => StepsAhead' = StepsAhead
<1>1. Background \/ (\E r \in Numbers : TimerStep(r) \/ PushOut(r)) => UNCHANGED <<at, self>>
  BY DEF Background, PushOut, TimerStep, TimerFires, TimerSends
<1>2. UNCHANGED <<at, self>> => StepsAhead' = StepsAhead
  BY DEF StepsAhead, Flushing, CallerAhead, HelperAhead
<1> QED  BY <1>1, <1>2

\* A request for a video takes at most 56 steps, and one more for each failure,
\* whatever fails and however often _send_livedub_result is called.
THEOREM VisitsRunOut == RequestSpec => RequestsAdvance /\ [](StepsAhead \in 0..56)
<1>1. ControlInv /\ [RequestNext]_requestVars => [RequestAdvances]_requestVars
  BY Nearer_Step, Others_Step DEF RequestAdvances
<1>2. StepsAhead \in 0..56
  <2>1. HelperAhead \in 0..14  BY DEF HelperAhead
  <2>2. CallerAhead \in 0..36  BY DEF CallerAhead
  <2> QED  BY <2>1, <2>2 DEF StepsAhead
<1>3. RequestInv => ControlInv  BY DEF RequestInv
<1> QED  BY <1>1, <1>2, <1>3, RequestInductive, PTL DEF RequestSpec, RequestsAdvance
=============================================================================
