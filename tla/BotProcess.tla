------------------------------ MODULE BotProcess ------------------------------
(***************************************************************************)
(* The bot as a process of the operating system: the lock file bot.lock,   *)
(* the wait for the local Bot API server, polling, and the end.            *)
(* bot_new.py takes the lock by an exclusive create before it starts any   *)
(* helper (services/process_singleton.py), and the pre-main bootstrap      *)
(* calls the same function again (services/runtime_manifest.py), which     *)
(* usually finds the process's own pid; run_bot_async looks at the file    *)
(* once more, much later, and overwrites it (main.py).                     *)
(*                                                                         *)
(* A step is one file operation or one stage of the start.  A file that    *)
(* lost its name is still written through a descriptor opened before.      *)
(***************************************************************************)
EXTENDS Naturals, FiniteSets

CONSTANTS
  Bots,       \* processes ever started, named by their pids
  NoBot,      \* no file, or no pid in it
  Starts,     \* bound: processes that are started
  Rounds,     \* bound of the loop of acquire_early_singleton
  Patience    \* bound of the waits for the local server

ASSUME BotAssumption ==
  NoBot \notin Bots /\ Starts \in Nat /\ Rounds \in Nat \ {0} /\ Patience \in Nat

VARIABLES
  botFile,    \* who created the file that bears the name, or NoBot
  botContent, \* for each creator, the pid in its file, or NoBot
  botAt,      \* where each process is
  rounds,     \* rounds of the early loop used
  seen,       \* the pid that was read there
  acquired,   \* the processes whose _EARLY_LOCK_ACQUIRED is set: they took the lock
  overlapped, \* history: was a process started while another was to take it
  server,     \* the local Bot API server: no port, a port, or it answers getMe
  waits,      \* failed waits for the server
  launched    \* has the process tried to start the server

botVars == <<botFile, botContent, botAt, rounds, seen, acquired, overlapped, server, waits, launched>>

Early   == {"open", "read", "reread", "unlink", "write"}
Running == {"imports", "bootstrap", "check", "claim", "port", "getme", "start", "polling", "exit", "release"}
\* In the loop for the first time.
Claiming(b) == botAt[b] \in Early /\ b \notin acquired
Living  == {b \in Bots : botAt[b] \in Early \cup Running}

BotTypeOK ==
  /\ botFile \in Bots \cup {NoBot}
  /\ botContent \in [Bots -> Bots \cup {NoBot}]
  /\ botAt \in [Bots -> {"unborn", "stale", "ended", "killed"} \cup Early \cup Running]
  /\ rounds \in [Bots -> 0..Rounds]
  /\ seen \in [Bots -> Bots \cup {NoBot}]
  /\ acquired \in SUBSET Bots /\ overlapped \in BOOLEAN
  /\ server \in {"down", "port", "ready"}
  /\ waits \in [Bots -> 0..Patience]
  /\ launched \in [Bots -> BOOLEAN]

\* Perhaps a process was killed before and left its file behind.
BotInit ==
  /\ botFile \in Bots \cup {NoBot}
  /\ botContent = [b \in Bots |-> IF b = botFile THEN b ELSE NoBot]
  /\ botAt = [b \in Bots |-> IF b = botFile THEN "stale" ELSE "unborn"]
  /\ rounds = [b \in Bots |-> 0] /\ seen = [b \in Bots |-> NoBot]
  /\ acquired = {} /\ overlapped = FALSE
  /\ server \in {"down", "port", "ready"} /\ waits = [b \in Bots |-> 0]
  /\ launched = [b \in Bots |-> FALSE]

BotGoto(b, l) == botAt' = [botAt EXCEPT ![b] = l]

lockVars  == <<botFile, botContent, rounds, seen, acquired, overlapped>>
startVars == <<server, waits, launched>>

\* What a reader of the file finds: a file that is gone or empty has no pid.
Pid == IF botFile = NoBot THEN NoBot ELSE botContent[botFile]

\* Mutant: the probe of a pid fails, which counts as a dead process.
ForeignNever(b, p) == FALSE

\* _pid_is_running of another process.
Foreign(b, p) == p \in Living \ {b}

-----------------------------------------------------------------------------
(* acquire_early_singleton, by bot_new.py and by bootstrap_pre_main.       *)

Launch(b) ==
  /\ botAt[b] = "unborn" /\ BotGoto(b, "open")
  /\ Cardinality({c \in Bots : botAt[c] \notin {"unborn", "stale"}}) < Starts
  /\ overlapped' = (overlapped \/ \E c \in Bots : Claiming(c))
  /\ UNCHANGED <<botFile, botContent, rounds, seen, acquired, startVars>>

\* False: sys.exit(2), or a RuntimeBootstrapError that leads to it; whoever has
\* taken the lock before still has release_early_singleton to run at the exit.
TurnedAway(b) == IF b \in acquired THEN "exit" ELSE "ended"

\* True: the program goes on.
LetIn(b) == IF b \in acquired THEN "bootstrap" ELSE "imports"

\* os.open with O_CREAT | O_EXCL, or the end of the loop.
OpenLock(b) ==
  /\ botAt[b] = "open"
  /\ \/ rounds[b] = Rounds /\ BotGoto(b, TurnedAway(b)) /\ UNCHANGED <<botFile, botContent>>
     \/ /\ rounds[b] < Rounds /\ botFile = NoBot /\ BotGoto(b, "write")
        /\ botFile' = b /\ botContent' = [botContent EXCEPT ![b] = NoBot]
     \/ rounds[b] < Rounds /\ botFile # NoBot /\ BotGoto(b, "read") /\ UNCHANGED <<botFile, botContent>>
  /\ UNCHANGED <<rounds, seen, acquired, overlapped, startVars>>

\* The process's own pid is fine; another one that runs is not.
ReadLock(b) ==
  /\ botAt[b] = "read"
  /\ seen' = [seen EXCEPT ![b] = Pid]
  /\ BotGoto(b, IF Pid = b THEN LetIn(b) ELSE IF Foreign(b, Pid) THEN TurnedAway(b) ELSE "reread")
  /\ acquired' = IF Pid = b THEN acquired \cup {b} ELSE acquired
  /\ UNCHANGED <<botFile, botContent, rounds, overlapped, startVars>>

\* The pid is read again before the file is removed.
RereadLock(b) ==
  /\ botAt[b] = "reread"
  /\ \/ Pid = seen[b] /\ BotGoto(b, "unlink") /\ UNCHANGED rounds
     \/ /\ Pid # seen[b] /\ BotGoto(b, "open")
        /\ rounds' = [rounds EXCEPT ![b] = @ + 1]
  /\ UNCHANGED <<botFile, botContent, seen, acquired, overlapped, startVars>>

UnlinkLock(b) ==
  /\ botAt[b] = "unlink"
  /\ botFile' = NoBot /\ rounds' = [rounds EXCEPT ![b] = @ + 1] /\ BotGoto(b, "open")
  /\ UNCHANGED <<botContent, seen, acquired, overlapped, startVars>>

WritePid(b) ==
  /\ botAt[b] = "write"
  /\ botContent' = [botContent EXCEPT ![b] = b] /\ BotGoto(b, LetIn(b))
  /\ acquired' = acquired \cup {b}
  /\ UNCHANGED <<botFile, rounds, seen, overlapped, startVars>>

-----------------------------------------------------------------------------
(* The start, up to polling.                                               *)

\* The helpers are provided, which takes seconds, and bootstrap_pre_main calls
\* acquire_early_singleton anew; or one of them fails.
Import(b) ==
  /\ botAt[b] = "imports"
  /\ \/ BotGoto(b, "open") /\ rounds' = [rounds EXCEPT ![b] = 0]
     \/ BotGoto(b, "exit") /\ UNCHANGED rounds
  /\ UNCHANGED <<botFile, botContent, seen, acquired, overlapped, startVars>>

\* The rest of the bootstrap: main is imported, the database is migrated.
Bootstrap(b) ==
  /\ botAt[b] = "bootstrap"
  /\ BotGoto(b, "check") \/ BotGoto(b, "exit")
  /\ UNCHANGED <<lockVars, startVars>>

\* _acquire_singleton_lock: somebody else's file is a conflict.
CheckLock(b) ==
  /\ botAt[b] = "check"
  /\ BotGoto(b, IF Foreign(b, Pid) THEN "exit" ELSE "claim")
  /\ UNCHANGED <<lockVars, startVars>>

\* write_text: the file of that name, created if there is none.
ClaimLock(b) ==
  /\ botAt[b] = "claim" /\ BotGoto(b, "port")
  /\ botFile' = (IF botFile = NoBot THEN b ELSE botFile)
  /\ botContent' = [botContent EXCEPT ![botFile'] = b]
  /\ UNCHANGED <<rounds, seen, acquired, overlapped, startVars>>

\* Mutant: the wait is not bounded.
WaitForEver(b, l) == BotGoto(b, l) /\ UNCHANGED waits

\* One more failed wait, or the RuntimeError after the last one.
WaitOrFail(b, l) ==
  \/ waits[b] < Patience /\ waits' = [waits EXCEPT ![b] = @ + 1] /\ BotGoto(b, l)
  \/ waits[b] = Patience /\ BotGoto(b, "exit") /\ UNCHANGED waits

\* The port does not answer: the server is started once, which may help.
WaitForPort(b) ==
  /\ botAt[b] = "port"
  /\ \/ /\ server # "down" /\ BotGoto(b, "getme")
        /\ UNCHANGED startVars
     \/ /\ server = "down" /\ WaitOrFail(b, "port")
        /\ launched' = [launched EXCEPT ![b] = TRUE]
        /\ server' \in (IF launched[b] THEN {"down"} ELSE {"down", "port"})
  /\ UNCHANGED lockVars

\* /getMe: a cloud fallback, where a proxy for it is set, ends the wait.
ProbeServer(b) ==
  /\ botAt[b] = "getme"
  /\ \/ server = "ready" /\ BotGoto(b, "start") /\ UNCHANGED waits
     \/ server # "ready" /\ WaitOrFail(b, "getme")
     \/ server # "ready" /\ BotGoto(b, "start") /\ UNCHANGED waits
  /\ UNCHANGED <<lockVars, server, launched>>

\* app.start and start_polling; a failure stops the application again.
StartPolling(b) ==
  /\ botAt[b] = "start"
  /\ BotGoto(b, "polling") \/ BotGoto(b, "exit")
  /\ UNCHANGED <<lockVars, startVars>>

\* /stop, SIGTERM or an exception: run_bot_process returns.
StopPolling(b) ==
  /\ botAt[b] = "polling" /\ BotGoto(b, "exit")
  /\ UNCHANGED <<lockVars, startVars>>

\* release_early_singleton, at the exit of the interpreter.
ExitBot(b) ==
  /\ botAt[b] = "exit"
  /\ BotGoto(b, IF Pid = b THEN "release" ELSE "ended")
  /\ UNCHANGED <<lockVars, startVars>>

ReleaseLock(b) ==
  /\ botAt[b] = "release" /\ botFile' = NoBot /\ BotGoto(b, "ended")
  /\ UNCHANGED <<botContent, rounds, seen, acquired, overlapped, startVars>>

-----------------------------------------------------------------------------
(* The surroundings.                                                       *)

KillBot(b) ==
  /\ b \in Living /\ BotGoto(b, "killed")
  /\ UNCHANGED <<lockVars, startVars>>

\* The server comes up or goes away by itself.
ServerChanges ==
  /\ server' \in {"down", "port", "ready"} \ {server}
  /\ UNCHANGED <<lockVars, botAt, waits, launched>>

BotStep(b) ==
  \/ OpenLock(b) \/ ReadLock(b) \/ RereadLock(b) \/ UnlinkLock(b) \/ WritePid(b)
  \/ Import(b) \/ Bootstrap(b) \/ CheckLock(b) \/ ClaimLock(b) \/ WaitForPort(b) \/ ProbeServer(b)
  \/ StartPolling(b) \/ ExitBot(b) \/ ReleaseLock(b)

BotNext ==
  \/ \E b \in Bots : Launch(b) \/ BotStep(b) \/ StopPolling(b) \/ KillBot(b)
  \/ ServerChanges

BotSpec == BotInit /\ [][BotNext]_botVars

\* A process that is not killed runs its code.
BotFairSpec == BotSpec /\ \A b \in Bots : WF_botVars(BotStep(b))

-----------------------------------------------------------------------------
\* "A second process cannot race Telegram long-polling."
NeverTwoPollers ==
  \A b, c \in Bots : botAt[b] = "polling" /\ botAt[c] = "polling" => b = c

\* At most one process polls Telegram, whenever one is started or killed and
\* whatever file was left behind, unless a start began while another was about
\* to take the lock.
OnePoller == ~overlapped => NeverTwoPollers

\* Every start ends in polling or with the end of the process: neither the lock nor
\* an absent server keeps it waiting for ever, so that there always comes a moment
\* when no process is starting or ending.
EveryStartSettles ==
  []<>(\A b \in Bots : botAt[b] \notin Early \cup (Running \ {"polling"}))
=============================================================================
