---------------------------- MODULE VideoRequest ----------------------------
(***************************************************************************)
(* One request for a video, from its metadata to the finally block         *)
(* (process_single_video of pipelines/main_pipeline.py and the stages it   *)
(* calls): the source MP3, the LiveDub video and its two MP3 companions,   *)
(* the caches they leave behind, and what the user sees of all this.       *)
(* Requests for one video follow one another (VideoLock).                  *)
(*                                                                         *)
(* In mode ENG Full the source MP3 is held back until the outcome of the   *)
(* dub is known; a task of its own sends it when that takes too long.  The *)
(* dub is made by a background task.  A step is one call of Telegram, of   *)
(* the database or of the companion cache.  The k-th request's video has   *)
(* the file id k.                                                          *)
(***************************************************************************)
EXTENDS Naturals, FiniteSets

CONSTANTS
  Visits,       \* bound: requests for the video
  Troubles      \* bound: failed calls and crashes

ASSUME VisitAssumption == Visits \in Nat \ {0} /\ Troubles \in Nat

VARIABLES
  turn,         \* the request that is under way, or the last one
  at,           \* where it is
  self,         \* its local variables
  work,         \* the background task that makes the dub
  mp3,          \* per request, the deferred source MP3: none, held or over
  timer,        \* per request, the task that sends it at last
  rowId,        \* livedub_file_id of the video's row, 0 for none
  pairs,        \* file ids with both companions in the companion cache
  stale,        \* history: file ids whose pair the cache pushed out, or that a
                \* request rejected without clearing the row
  analysed,     \* does the row hold an analysis
  chat,         \* per request, how many messages of each kind the user sees
  stray,        \* per request, messages visible against the code's will
  missed,       \* per request, has a send of the deferred MP3 failed
  outcome,      \* per request, how it ended
  troubles      \* failures so far

requestVars == <<turn, at, self, work, mp3, timer, rowId, pairs, stale, analysed,
                 chat, stray, missed, outcome, troubles>>

Numbers == 1..Visits
Kinds   == {"video", "clean", "mixed", "source", "text"}
Callers == {"none", "quick", "toolarge", "extras", "end", "hit", "except"}
Locals  == [mode : {"rus", "eng", "quick"}, offered : 0..Visits, caller : Callers,
            then : {"none", "hit", "fresh", "fulltext", "timeouttext", "failtext", "pairtext",
                    "rejecttext", "heard", "finished", "stopped"}, heard : BOOLEAN, noticed : BOOLEAN, sent : SUBSET Kinds]

RequestTypeOK ==
  /\ turn \in 0..Visits
  /\ at \in {"idle", "metadata", "client", "prepare", "toolarge", "analysis", "deliver",
             "extras", "end", "except", "error", "finally", "send", "await", "check",
             "fail", "reserved", "oversize", "video", "clean", "mixed", "commit", "store",
             "rollback", "reject", "clear", "flush", "fulltext", "timeouttext", "failtext", "pairtext",
             "rejecttext", "heard", "return", "raise", "finished", "quicktext"}
  /\ self \in Locals
  /\ work \in {"none", "running", "video", "reserve", "nothing", "cancelled"}
  /\ mp3 \in [Numbers -> {"none", "held", "over"}]
  /\ timer \in [Numbers -> {"off", "armed", "sending"}]
  /\ \A r \in Numbers : mp3[r] = "held" <=> timer[r] # "off"
  /\ rowId \in 0..Visits /\ pairs \in SUBSET Numbers /\ stale \in SUBSET Numbers /\ analysed \in BOOLEAN
  /\ chat \in [Numbers -> [Kinds -> Nat]]
  /\ stray \in [Numbers -> Nat] /\ missed \in [Numbers -> BOOLEAN]
  /\ outcome \in [Numbers -> {"none", "open", "done", "failed", "escaped", "crashed"}]
  /\ troubles \in 0..Troubles

Fresh(m, id) == [mode |-> m, offered |-> id, caller |-> "none", then |-> "none",
                 heard |-> FALSE, noticed |-> FALSE, sent |-> {}]

RequestInit ==
  /\ turn = 0 /\ at = "idle" /\ self = Fresh("rus", 0) /\ work = "none"
  /\ mp3 = [r \in Numbers |-> "none"] /\ timer = [r \in Numbers |-> "off"]
  /\ rowId = 0 /\ pairs = {} /\ stale = {} /\ analysed = FALSE
  /\ chat = [r \in Numbers |-> [k \in Kinds |-> 0]]
  /\ stray = [r \in Numbers |-> 0] /\ missed = [r \in Numbers |-> FALSE]
  /\ outcome = [r \in Numbers |-> "none"] /\ troubles = 0

deferral == <<mp3, timer, missed>>
store    == <<rowId, pairs, stale, analysed>>
visible    == <<chat, stray>>
ended    == <<turn, outcome>>

-----------------------------------------------------------------------------
(* Calls of Telegram, which may fail.                                      *)

GoTo(l) == at' = l

Trouble == troubles < Troubles /\ troubles' = troubles + 1
Calm    == UNCHANGED troubles

\* Of the texts it matters whether there is any.
Shown(c, r, k) == [c EXCEPT ![r][k] = IF k = "text" THEN 1 ELSE @ + 1]

Show(k) == chat' = Shown(chat, turn, k) /\ UNCHANGED stray

\* A call that reports an error may have been carried out.
MaybeShown(k) ==
  \/ UNCHANGED visible
  \/ chat' = Shown(chat, turn, k) /\ stray' = [stray EXCEPT ![turn] = @ + 1]

\* A media message is sent, or the call fails and the code goes on with one of L.
Send(k, sent, L) ==
  \/ Show(k) /\ GoTo(sent) /\ self' = [self EXCEPT !.sent = @ \cup {k}] /\ Calm
  \/ Trouble /\ at' \in L /\ UNCHANGED self /\ MaybeShown(k)

\* A text for the user.
Tell(told, failed) ==
  \/ Show("text") /\ GoTo(told) /\ Calm
  \/ Trouble /\ GoTo(failed) /\ UNCHANGED visible

-----------------------------------------------------------------------------
(* SourceAudioDeferral.                                                    *)

\* Mutant: the timer is not cancelled.
CleanupKeepsTimer(c) ==
  /\ mp3' = [mp3 EXCEPT ![turn] = IF @ = "held" THEN "over" ELSE @]
  /\ chat' = c /\ UNCHANGED timer

\* _cleanup: the MP3 is dropped and its timer cancelled, which may come too
\* late to stop a send that it has begun.
Cleanup(c) ==
  /\ mp3' = [mp3 EXCEPT ![turn] = IF @ = "held" THEN "over" ELSE @]
  /\ timer' = [timer EXCEPT ![turn] = "off"]
  /\ \/ chat' = c
     \/ timer[turn] = "sending" /\ chat' = Shown(c, turn, "source")

\* flush, called by a pipeline that goes on with l afterwards.
FlushThen(s, l) ==
  \/ mp3[turn] = "held" /\ GoTo("flush") /\ self' = [s EXCEPT !.then = l]
  \/ mp3[turn] # "held" /\ GoTo(l) /\ self' = s

\* Its send ends; the arguments were read before it began, but the file may be
\* gone when the timer was faster.
FlushEnds ==
  /\ at = "flush" /\ GoTo(self.then)
  /\ \/ Cleanup(Shown(chat, turn, "source")) /\ Calm /\ UNCHANGED missed
     \/ Cleanup(chat) /\ Trouble /\ missed' = [missed EXCEPT ![turn] = TRUE]
     \/ mp3[turn] = "over" /\ Cleanup(chat) /\ Calm /\ UNCHANGED missed
  /\ UNCHANGED <<self, work, store, stray, ended>>

\* _timeout_flush of any request wakes up and reads the arguments.
TimerFires(r) ==
  /\ timer[r] = "armed" /\ timer' = [timer EXCEPT ![r] = "sending"]
  /\ UNCHANGED <<at, self, work, mp3, missed, store, visible, ended, troubles>>

TimerSends(r) ==
  /\ timer[r] = "sending" /\ timer' = [timer EXCEPT ![r] = "off"]
  /\ mp3' = [mp3 EXCEPT ![r] = "over"]
  /\ \/ chat' = Shown(chat, r, "source") /\ Calm /\ UNCHANGED missed
     \/ Trouble /\ missed' = [missed EXCEPT ![r] = TRUE] /\ UNCHANGED chat
  /\ UNCHANGED <<at, self, work, store, stray, ended>>

\* Mutant: the MP3 is dropped without a look at the dub.
DeferForgets ==
  /\ mp3' = [mp3 EXCEPT ![turn] = "over"] /\ UNCHANGED <<timer, missed>>

\* send_or_defer of ENG Full: a copy is kept and the timer started.
Defer ==
  /\ mp3' = [mp3 EXCEPT ![turn] = "held"] /\ timer' = [timer EXCEPT ![turn] = "armed"]
  /\ UNCHANGED missed

Deferring == self.mode = "eng" /\ (self.offered # 0 \/ work # "none")

-----------------------------------------------------------------------------
(* process_single_video up to the delivery of the source MP3.              *)

\* The user's mode, and the file id of a dub that was sent before, if its row
\* can be read and its version is the current one.
Begin ==
  /\ at = "idle" /\ turn < Visits /\ turn' = turn + 1
  /\ GoTo("metadata") /\ work' = "none"
  /\ \E m \in {"rus", "eng", "quick"} : \E id \in {0, rowId} :
       self' = Fresh(m, IF m = "rus" THEN 0 ELSE id)
  /\ outcome' = [outcome EXCEPT ![turn'] = "open"]
  /\ UNCHANGED <<deferral, store, visible, troubles>>

End(o) == at' = "finally" /\ outcome' = [outcome EXCEPT ![turn] = o] /\ UNCHANGED turn

\* _send_livedub_result is called by c.
Call(s, c) == GoTo("send") /\ self' = [s EXCEPT !.caller = c]

\* Metadata from yt-dlp; a live stream, a long video or a full disk is refused.
Metadata ==
  /\ at = "metadata"
  /\ \/ GoTo("client") /\ UNCHANGED <<visible, ended, troubles>>
     \/ Show("text") /\ End("failed") /\ Calm
     \/ Trouble /\ GoTo("error") /\ UNCHANGED <<visible, ended>>
  /\ UNCHANGED <<self, work, deferral, store>>

NextAfterClient(s) ==
  \/ s.mode = "quick" /\ Call(s, "quick")
  \/ s.mode # "quick" /\ GoTo("prepare") /\ self' = s

\* The background task is created when a dub has to be made and there is a
\* client for it; without one ENG Full goes on as RUS and ENG Quick gives up.
StartDub ==
  /\ at = "client"
  /\ \/ /\ self.mode = "rus" \/ self.offered # 0
        /\ NextAfterClient(self) /\ UNCHANGED <<work, visible, ended>>
     \/ /\ self.mode # "rus" /\ self.offered = 0
        /\ work' = "running" /\ NextAfterClient(self) /\ UNCHANGED <<visible, ended>>
     \/ /\ self.mode = "eng" /\ self.offered = 0
        /\ Show("text") /\ NextAfterClient([self EXCEPT !.mode = "rus"]) /\ UNCHANGED <<work, ended>>
     \/ /\ self.mode = "quick" /\ self.offered = 0
        /\ Show("text") /\ End("failed") /\ UNCHANGED <<self, work>>
  /\ UNCHANGED <<deferral, store, troubles>>

\* load_cache, the cover and prepare_audio.
PrepareAudio ==
  /\ at = "prepare"
  /\ \/ analysed /\ GoTo("deliver") /\ self' = [self EXCEPT !.then = "hit"] /\ Calm
     \/ GoTo("analysis") /\ UNCHANGED self /\ Calm
     \/ GoTo("toolarge") /\ UNCHANGED self /\ Calm
     \/ Trouble /\ GoTo("except") /\ UNCHANGED self
  /\ UNCHANGED <<work, deferral, store, visible, ended>>

\* fail_audio_too_large.
AudioTooLarge ==
  /\ at = "toolarge"
  /\ \/ Show("text") /\ Call(self, "toolarge") /\ Calm
     \/ Trouble /\ GoTo("except") /\ UNCHANGED <<self, visible>>
  /\ UNCHANGED <<work, deferral, store, ended>>

\* Analysis, pages and caption; their result is saved unless Gemini gave none.
Analyse ==
  /\ at = "analysis" /\ self' = [self EXCEPT !.then = "fresh"]
  /\ \/ GoTo("deliver") /\ analysed' \in {analysed, TRUE} /\ Calm
     \/ Trouble /\ GoTo("except") /\ UNCHANGED analysed
  /\ UNCHANGED <<work, deferral, rowId, pairs, stale, visible, ended>>

AfterSource ==
  IF self.then = "hit" THEN Call(self, "hit") ELSE GoTo("extras") /\ UNCHANGED self

\* deliver_result and deliver_cached_result: the source MP3 is deferred or sent;
\* a send that fails is repeated, or the last time.
DeliverSource ==
  /\ at = "deliver"
  /\ \/ Deferring /\ Defer /\ AfterSource /\ UNCHANGED visible /\ Calm
     \/ ~Deferring /\ Show("source") /\ AfterSource /\ UNCHANGED deferral /\ Calm
     \/ /\ ~Deferring /\ Trouble /\ at' \in {"deliver", "except"}
        /\ UNCHANGED <<self, deferral>> /\ MaybeShown("source")
     \/ Deferring /\ Trouble /\ GoTo("except") /\ UNCHANGED <<self, deferral, visible>>
  /\ UNCHANGED <<work, store, ended>>

\* run_extras waits for the dub in ENG Full, to cut it instead of the original.
Extras ==
  /\ at = "extras"
  /\ \/ self.mode = "eng" /\ work # "none" /\ Call(self, "extras") /\ Calm
     \/ ~(self.mode = "eng" /\ work # "none") /\ GoTo("end") /\ UNCHANGED self /\ Calm
     \/ Trouble /\ GoTo("except") /\ UNCHANGED self
  /\ UNCHANGED <<work, deferral, store, visible, ended>>

SendAtTheEnd ==
  /\ at = "end"
  /\ \/ Call(self, "end") /\ Calm
     \/ Trouble /\ GoTo("except") /\ UNCHANGED self
  /\ UNCHANGED <<work, deferral, store, visible, ended>>

-----------------------------------------------------------------------------
(* _send_livedub_result.                                                   *)

\* Nothing is to be done, or done already; or the card cannot be prepared.
EnterSend ==
  /\ at = "send"
  /\ \/ /\ self.heard \/ (self.offered = 0 /\ work = "none")
        /\ GoTo("return") /\ Calm
     \/ /\ ~self.heard /\ (self.offered # 0 \/ work # "none")
        /\ GoTo(IF self.offered # 0 THEN "video" ELSE "await") /\ Calm
     \/ ~self.heard /\ Trouble /\ GoTo("raise")
  /\ self' = [self EXCEPT !.sent = {}]
  /\ UNCHANGED <<work, deferral, store, visible, ended>>

\* The background task ends; it catches its own exceptions.
Background ==
  /\ work = "running" /\ work' \in {"video", "reserve", "nothing"}
  /\ UNCHANGED <<at, self, deferral, store, visible, ended, troubles>>

\* wait_for returns what the task made; a task that was cancelled by an earlier
\* wait_for raises CancelledError, which no except branch catches.
AwaitDub ==
  /\ at = "await"
  /\ \/ work \in {"video", "reserve"} /\ GoTo("check") /\ UNCHANGED <<self, outcome>>
     \/ /\ work = "nothing"
        /\ IF self.mode = "eng" /\ ~self.noticed
           THEN FlushThen([self EXCEPT !.noticed = TRUE], "fulltext")
           ELSE GoTo("return") /\ UNCHANGED self
        /\ UNCHANGED outcome
     \/ work = "cancelled" /\ End("escaped") /\ UNCHANGED self
  /\ UNCHANGED <<turn, work, deferral, store, visible, troubles>>

\* Mutant: the wait is not limited.
NoWaitLimit ==
  /\ at = "await" /\ work = "cancelled" /\ FlushThen(self, "timeouttext")
  /\ UNCHANGED <<work, deferral, store, visible, ended, troubles>>

\* After 1800 seconds.
WaitTimeout ==
  /\ at = "await" /\ work = "running" /\ work' = "cancelled"
  /\ FlushThen(self, "timeouttext")
  /\ UNCHANGED <<deferral, store, visible, ended, troubles>>

\* QA, the file's name and its size.
CheckDub ==
  /\ at = "check"
  /\ \/ at' \in {"video", "oversize"} /\ Calm
     \/ Trouble /\ GoTo("fail")
  /\ UNCHANGED <<self, work, deferral, store, visible, ended>>

Cached == self.offered # 0

\* The new video (once more without its cover), or the one of the file id.
SendVideo ==
  /\ at = "video"
  /\ Send("video", IF ~Cached /\ work = "reserve" THEN "reserved" ELSE "clean",
          IF Cached THEN {"reject"} ELSE {"video", "fail"})
  /\ UNCHANGED <<work, deferral, store, ended>>

\* The file id under which the companions of this video are cached.
VideoId == IF Cached THEN self.offered ELSE turn

\* The MP3 companions, clean first; a cached pair has to be complete.
SendClean ==
  /\ at = "clean"
  /\ \/ Cached /\ VideoId \notin pairs /\ GoTo("reject") /\ Calm /\ UNCHANGED <<self, visible>>
     \/ (Cached => VideoId \in pairs) /\ Send("clean", "mixed", {"rollback"})
  /\ UNCHANGED <<work, deferral, store, ended>>

SendMixed ==
  /\ at = "mixed" /\ Send("mixed", "commit", {"rollback"})
  /\ UNCHANGED <<work, deferral, store, ended>>

\* The pair is complete: a new one enters the cache, and the source MP3 is
\* discarded.
Commit ==
  /\ at = "commit"
  /\ \/ Cached /\ GoTo("heard") /\ Cleanup(chat) /\ Calm /\ UNCHANGED pairs
     \/ ~Cached /\ GoTo("store") /\ pairs' = pairs \cup {turn} /\ Cleanup(chat) /\ Calm
     \/ ~Cached /\ Trouble /\ GoTo("rollback") /\ UNCHANGED <<pairs, mp3, timer, chat>>
  /\ UNCHANGED <<self, work, missed, rowId, stale, analysed, stray, ended>>

\* save_recoverable_cache keeps the newest 500 entries: pairs of other videos push
\* one of this video out.
PushOut(id) ==
  /\ id \in pairs /\ pairs' = pairs \ {id} /\ stale' = stale \cup {id}
  /\ UNCHANGED <<at, self, work, deferral, rowId, analysed, visible, ended, troubles>>

\* adb_set_livedub_file_id; if it fails the companions are forgotten.
StoreId ==
  /\ at = "store" /\ GoTo("heard")
  /\ \/ rowId' = turn /\ Calm /\ UNCHANGED pairs
     \/ Trouble /\ pairs' = pairs \ {turn} /\ UNCHANGED rowId
  /\ UNCHANGED <<self, work, deferral, stale, analysed, visible, ended>>

\* The row keeps the file id that it offered, though its pair was rejected.
Outlives == stale' = IF Cached THEN stale \cup {self.offered} ELSE stale

\* Mutant: the companions that were sent stay.
KeepSent(S) == UNCHANGED <<chat, stray, troubles>>

\* delete_message_best_effort of the messages S, each of which may fail.
DeleteSent(S) ==
  \E kept \in SUBSET S :
    /\ troubles + Cardinality(kept) <= Troubles
    /\ troubles' = troubles + Cardinality(kept)
    /\ chat' = [chat EXCEPT ![turn] = [k \in Kinds |-> IF k \in S \ kept THEN @[k] - 1 ELSE @[k]]]
    /\ stray' = [stray EXCEPT ![turn] = @ + Cardinality(kept)]

\* The companions that were sent are deleted and their cache entry dropped.
Rollback ==
  /\ at = "rollback"
  /\ DeleteSent(self.sent \cap {"clean", "mixed"})
  /\ pairs' = pairs \ {VideoId}
  /\ \/ self.then # "stopped" /\ Cached /\ GoTo("reject") /\ UNCHANGED <<self, stale>>
     \/ self.then # "stopped" /\ ~Cached /\ FlushThen(self, "pairtext") /\ UNCHANGED stale
     \/ self.then = "stopped" /\ GoTo("idle") /\ UNCHANGED self /\ Outlives
  /\ UNCHANGED <<work, deferral, rowId, analysed, ended>>

\* A cached pair that could not be sent: its video is deleted, too.
RejectVideo ==
  /\ at = "reject" /\ GoTo("clear")
  /\ DeleteSent(self.sent \cap {"video"})
  /\ UNCHANGED <<self, work, deferral, store, ended>>

\* Mutant: the rejected file id stays in the row.
KeepId ==
  /\ at = "clear" /\ FlushThen(self, "rejecttext")
  /\ UNCHANGED <<work, deferral, store, visible, ended, troubles>>

\* Its file id leaves the row.
ClearId ==
  /\ at = "clear" /\ FlushThen(self, "rejecttext")
  /\ \/ rowId' = 0 /\ Calm /\ UNCHANGED stale
     \/ Trouble /\ Outlives /\ UNCHANGED rowId
  /\ UNCHANGED <<work, deferral, pairs, analysed, visible, ended>>

-----------------------------------------------------------------------------
(* Its notices and its ends.                                               *)

\* The MP3 is sent because of a failure, or of a reserve without a dub.
FlushFirst ==
  /\ \/ at = "fail" /\ FlushThen(self, "failtext")
     \/ at = "reserved" /\ FlushThen(self, "heard")
  /\ UNCHANGED <<work, deferral, store, visible, ended, troubles>>

\* reject_oversized_livedub_video: the text comes first here.
Oversize ==
  /\ at = "oversize"
  /\ \/ Show("text") /\ FlushThen(self, "heard") /\ Calm
     \/ Trouble /\ GoTo("fail") /\ UNCHANGED <<self, visible>>
  /\ UNCHANGED <<work, deferral, store, ended>>

\* Only the notice of a timeout raises when it cannot be sent.
Notice ==
  /\ \/ at = "fulltext" /\ Tell("heard", "return")
     \/ at = "timeouttext" /\ Tell("heard", "raise")
     \/ at = "failtext" /\ Tell("return", "return")
     \/ at \in {"pairtext", "rejecttext"} /\ Tell("heard", "heard")
  /\ UNCHANGED <<self, work, deferral, store, ended>>

Heard ==
  /\ at = "heard" /\ GoTo("return") /\ self' = [self EXCEPT !.heard = TRUE]
  /\ UNCHANGED <<work, deferral, store, visible, ended, troubles>>

-----------------------------------------------------------------------------
(* Its callers go on, and the request ends.                                *)

Return ==
  /\ at = "return"
  /\ CASE self.caller = "quick" /\ self.heard      -> End("done") /\ UNCHANGED self
       [] self.caller = "quick" /\ ~self.heard     -> GoTo("quicktext") /\ UNCHANGED <<self, ended>>
       [] self.caller = "toolarge"                 -> End("failed") /\ UNCHANGED self
       [] self.caller = "extras"                   -> GoTo("end") /\ UNCHANGED <<self, ended>>
       [] self.caller = "end"                      -> FlushThen(self, "finished") /\ UNCHANGED ended
       [] self.caller = "hit"                      -> End("done") /\ UNCHANGED self
       [] self.caller = "except"                   -> GoTo("error") /\ UNCHANGED <<self, ended>>
  /\ UNCHANGED <<work, deferral, store, visible, troubles>>

\* An exception of the helper: only the early return and the except branch
\* catch it on the spot.
Raise ==
  /\ at = "raise"
  /\ CASE self.caller = "toolarge" -> End("failed")
       [] self.caller = "except"   -> GoTo("error") /\ UNCHANGED ended
       [] OTHER                    -> GoTo("except") /\ UNCHANGED ended
  /\ UNCHANGED <<self, work, deferral, store, visible, troubles>>

\* The except branch delivers the dub before it reports the error.
Rescue ==
  /\ at = "except" /\ Call(self, "except")
  /\ UNCHANGED <<work, deferral, store, visible, ended, troubles>>

Report ==
  /\ at \in {"error", "quicktext"} /\ End("failed")
  /\ \/ Show("text") /\ Calm
     \/ Trouble /\ UNCHANGED visible
  /\ UNCHANGED <<self, work, deferral, store>>

Succeed ==
  /\ at = "finished" /\ End("done")
  /\ UNCHANGED <<self, work, deferral, store, visible, troubles>>

\* cleanup_pipeline_resources, and the video's lock is released.
Finally ==
  /\ at = "finally" /\ GoTo("idle")
  /\ work' = IF work = "running" THEN "cancelled" ELSE work
  /\ UNCHANGED <<self, deferral, store, visible, ended, troubles>>

\* The end of the process is the end of all its tasks.
TasksEnd ==
  /\ work' = "none"
  /\ outcome' = [outcome EXCEPT ![turn] = "crashed"]
  /\ missed' = [r \in Numbers |-> missed[r] \/ mp3[r] = "held"]
  /\ mp3' = [r \in Numbers |-> IF mp3[r] = "held" THEN "over" ELSE mp3[r]]
  /\ timer' = [r \in Numbers |-> "off"]

\* The process dies; the database and the companion cache are files.
Crash ==
  /\ at # "idle" /\ Trouble /\ GoTo("idle") /\ TasksEnd
  /\ IF at \in {"reject", "clear"} THEN Outlives ELSE UNCHANGED stale
  /\ UNCHANGED <<turn, self, rowId, pairs, analysed, visible>>

\* The bot is stopped while a companion is sent: CancelledError is answered by the
\* rollback, but by no except branch of the stages.  Elsewhere a stop leaves what
\* a crash does.
StopSend ==
  /\ at \in {"clean", "mixed"} /\ (Cached /\ at = "clean" => VideoId \in pairs)
  /\ Trouble /\ GoTo("rollback") /\ self' = [self EXCEPT !.then = "stopped"]
  /\ MaybeShown(at) /\ TasksEnd
  /\ UNCHANGED <<turn, store>>

RequestStep ==
  \/ Metadata \/ StartDub \/ PrepareAudio \/ AudioTooLarge \/ Analyse \/ DeliverSource
  \/ Extras \/ SendAtTheEnd \/ EnterSend \/ AwaitDub \/ CheckDub \/ SendVideo
  \/ SendClean \/ SendMixed \/ Commit \/ StoreId \/ Rollback \/ RejectVideo \/ ClearId
  \/ FlushFirst \/ FlushEnds \/ Oversize \/ Notice \/ Heard \/ Return \/ Raise
  \/ Rescue \/ Report \/ Succeed \/ Finally

TimerStep(r) == TimerFires(r) \/ TimerSends(r)

RequestNext ==
  \/ Begin \/ RequestStep \/ Background \/ WaitTimeout \/ Crash \/ StopSend
  \/ \E r \in Numbers : PushOut(r)
  \/ \E r \in Numbers : TimerStep(r)

RequestSpec == RequestInit /\ [][RequestNext]_requestVars

\* The event loop runs every task, and a sleep ends; what the background task
\* waits for may never come.
RequestFairness ==
  /\ WF_requestVars(RequestStep) /\ WF_requestVars(WaitTimeout)
  /\ \A r \in Numbers : WF_requestVars(TimerStep(r))

RequestFairSpec == RequestSpec /\ RequestFairness

-----------------------------------------------------------------------------
(* Properties.                                                             *)

Closed(r) == outcome[r] \in {"done", "failed", "escaped"}

\* What the user sees when a request has ended is all or nothing: both
\* companions or none, and none without the video; each of them once, however
\* often the helper was called.  Only a message that Telegram kept although the
\* code tried to delete it, or that it reported as failed, is an exception.
PairOrNothing ==
  \A r \in Numbers : Closed(r) /\ stray[r] = 0 =>
    /\ chat[r]["clean"] = chat[r]["mixed"]
    /\ chat[r]["clean"] <= chat[r]["video"] /\ chat[r]["video"] <= 1

\* The source MP3 that ENG Full holds back reaches the user, or the dub's pair
\* does, unless the send of the MP3 failed.
SourceOrPair ==
  \A r \in Numbers : mp3[r] = "over" /\ Closed(r) =>
    chat[r]["source"] > 0 \/ chat[r]["clean"] > 0 \/ missed[r]

\* A file id without its companions is not offered again: while one is in the row,
\* its request is about to clear the row, unless newer pairs pushed the companions
\* out of the cache or the rejection could not be written to the row.
IdMeansPair ==
  rowId # 0 /\ rowId \notin pairs =>
    \/ rowId < turn /\ at \in {"reject", "clear"} /\ self.offered # 0
    \/ rowId \in stale

\* Every request ends, and a source MP3 that was held back is not held for ever:
\* the outcome of the dub or the timer decides.  There always comes a moment when
\* no request is under way and no MP3 is held.
EveryVisitSettles ==
  []<>(\A r \in Numbers : outcome[r] # "open" /\ mp3[r] # "held")

\* The helper may be called again after it failed: no request leaves
\* process_single_video by an exception that its except branch does not see.
HelperIsRepeatable == \A r \in Numbers : outcome[r] # "escaped"
=============================================================================
