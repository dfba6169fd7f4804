------------------------------ MODULE Console ------------------------------
(***************************************************************************)
(* The console of the pipeline: the wizard starts analyses in threads of   *)
(* its process, and each thread pushes its events to the dashboard. An     *)
(* analysis is begun at most once per member of Pipelines.                 *)
(***************************************************************************)
EXTENDS SharedState

VARIABLES
  analysis,   \* per analysis: none, spawned, running or over
  running     \* SESSION.pipeline_running

wizardVars == <<analysis, running>>
consoleVars == <<sharedVars, wizardVars>>

ConsoleInit ==
  /\ SharedInit
  /\ analysis = [p \in Pipelines |-> "none"]
  /\ running = FALSE

(* POST /api/analysis/start: the flag is tested here but set by the thread *)
(* it spawns, so two requests in a row may both pass.                      *)
StartAnalysis(p) ==
  /\ LoopFree
  /\ analysis[p] = "none"
  /\ ~running
  /\ analysis' = [analysis EXCEPT ![p] = "spawned"]
  /\ UNCHANGED <<running, sharedVars>>

ThreadBegins(p) ==
  /\ analysis[p] = "spawned"
  /\ analysis' = [analysis EXCEPT ![p] = "running"]
  /\ running' = TRUE
  /\ UNCHANGED sharedVars

InLoop(p) == analysis[p] = "running"
Pushes(p) == InLoop(p) /\ PushEvent(p) /\ UNCHANGED wizardVars

BetweenCalls(p) == InLoop(p) /\ push[p] = "idle"

(* The analysis is over when its videos are exhausted or a call raised an  *)
(* exception, anywhere between two calls.                                  *)
AnalysisOver(p) ==
  /\ BetweenCalls(p)
  /\ analysis' = [analysis EXCEPT ![p] = "over"]
  /\ running' = FALSE
  /\ UNCHANGED sharedVars

ThreadStep(p) == ThreadBegins(p) \/ Pushes(p)

LoopStep == Broadcast \/ StateReply \/ \E c \in Clients : Connect(c) \/ Serve(c)

ServerStep == (LoopStep \/ StateRequest \/ \E c \in Clients : Leave(c)) /\ UNCHANGED wizardVars

ConsoleNext ==
  \/ \E p \in Pipelines : StartAnalysis(p) \/ ThreadStep(p) \/ AnalysisOver(p)
  \/ ServerStep

(* The operating system runs every thread that can go on, and the event    *)
(* loop every callback that is ready: broadcasts in their order and the    *)
(* handler of every socket.  Requests, browsers, the end of a video and *)
(* failures come when they come.                                           *)
ConsoleFairness ==
  /\ \A p \in Pipelines : WF_consoleVars(ThreadStep(p))
  /\ WF_consoleVars((Broadcast \/ StateReply) /\ UNCHANGED wizardVars)
  /\ \A c \in Clients : WF_consoleVars(Serve(c) /\ UNCHANGED wizardVars)

ConsoleSpec == ConsoleInit /\ [][ConsoleNext]_consoleVars /\ ConsoleFairness

------------------------------------------------------------------------------

ConsoleTypeOK ==
  /\ SharedTypeOK
  /\ analysis \in [Pipelines -> {"none", "spawned", "running", "over"}]
  /\ running \in BOOLEAN
  /\ \A p \in Pipelines :
       push[p] # "idle" => InLoop(p)

(* The wizard never refuses an analysis because of one that is over: the   *)
(* running flag is up only while some thread is in its loop, although two  *)
(* of them may write it and either may fail (wizard_backend.py, _run).     *)
(* That two run at once is what the code allows: the request tests the     *)
(* flag (line 255) and the thread it starts sets it (line 272).            *)
FlagNotStuck == running => \E p \in Pipelines : InLoop(p)

(* The parts of the console agree with each other, in all interleavings of *)
(* two analyses, the event loop and a browser that comes and goes.         *)
ConsoleConsistent == ConsoleTypeOK /\ FlagNotStuck /\ TotalsCoverHeard /\ ReplyCountsListed
==============================================================================
