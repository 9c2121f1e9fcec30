------------------------------- MODULE MCBot -------------------------------
(* The components of the bot process that share no state with one another, *)
(* in one instance for TLC: each behaviour is one of one component, chosen *)
(* at the start, while the others rest.                                    *)
EXTENDS WorkerLock, BotProcess, GeminiCapacity, FactoryDelivery, Publication

CONSTANTS
  \* of DubStudio
  Projects, NoProject, MaxJobs, QualityRetries, MaxCrashes, MaxFaults, MaxStops

VARIABLES
  component,
  \* of DubStudio
  status, project, cancelFlag, owner, finishedAt, told, projStatus, leaseState, leaseRunner,
  fresh, live, lost, spawned, workerAt, me, execution, runner, attempt, outcome, stopping,
  crashes, faults, stops

Studio == INSTANCE DubStudioProperties WITH pc <- workerAt, job <- execution

studioVars ==
  <<status, project, cancelFlag, owner, finishedAt, told, projStatus, leaseState, leaseRunner,
    fresh, live, lost, spawned, workerAt, me, execution, runner, attempt, outcome, stopping,
    crashes, faults, stops>>

Components == {"workerlock", "bot", "gemini", "factory", "publication", "studio"}

all == <<component, vars, botVars, geminiVars, factoryVars, pubVars, studioVars>>

\* Seven paragraphs in sections of different length.
MCText == << <<1, 2, 3>>, <<4, 5>>, <<6>>, <<7>> >>

MCInit ==
  /\ component \in Components
  /\ Init /\ BotInit /\ GeminiInit /\ FactoryInit /\ PublicationInit /\ Studio!Init
  /\ component # "bot" => botFile = NoBot /\ server = "down"
  /\ component # "gemini" => slots = 1
  /\ component # "publication" => kind = "synopsis" /\ limit = 1 /\ related = 0

Only(c, Step) == component = c /\ Step /\ UNCHANGED component

WorkerLockNext ==
  Only("workerlock", Next) /\ UNCHANGED <<botVars, geminiVars, factoryVars, pubVars, studioVars>>
BotProcessNext ==
  Only("bot", BotNext) /\ UNCHANGED <<vars, geminiVars, factoryVars, pubVars, studioVars>>
GeminiCapacityNext ==
  Only("gemini", GeminiNext) /\ UNCHANGED <<vars, botVars, factoryVars, pubVars, studioVars>>
FactoryDeliveryNext ==
  Only("factory", FactoryNext) /\ UNCHANGED <<vars, botVars, geminiVars, pubVars, studioVars>>
PublishingNext ==
  /\ Only("publication", PublicationNext)
  /\ UNCHANGED <<vars, botVars, geminiVars, factoryVars, studioVars>>
RenderingNext ==
  Only("studio", Studio!Next) /\ UNCHANGED <<vars, botVars, geminiVars, factoryVars, pubVars>>

MCNext ==
  \/ WorkerLockNext \/ BotProcessNext \/ GeminiCapacityNext \/ FactoryDeliveryNext
  \/ PublishingNext \/ RenderingNext

\* The fair steps of the others are disabled while they rest.
MCFairSpec ==
  /\ MCInit /\ [][MCNext]_all
  /\ \A w \in Workers : WF_vars(Acquire(w)) /\ WF_vars(ReleaseUnlink(w))
  /\ \A b \in Bots : WF_botVars(BotStep(b))
  /\ WF_geminiVars(Tick)
  /\ \A t \in Tasks : WF_geminiVars(component = "gemini" /\ GeminiStep(t))
  /\ FactoryFairness
  /\ WF_studioVars(component = "studio" /\ (Studio!Recovery \/ Studio!Execution))
  /\ WF_studioVars(component = "studio" /\ \E w \in fresh : Studio!HeartbeatExpires(w))
  /\ WF_studioVars(component = "studio" /\ \E r \in live : Studio!RunnerExits(r))

MCTypeOK == TypeOK /\ BotTypeOK /\ GeminiTypeOK /\ FactoryTypeOK /\ PublicationTypeOK

WorkerSettlesItsJobs == Studio!WorkerSettlesItsJobs
=============================================================================
