------------------------------- MODULE Answering -------------------------------
(***************************************************************************)
(* How a query is answered: the orchestrator that routes requests           *)
(* (Orchestrator), the two solvers its specialist route ends in, the        *)
(* verified code loop (CodeLoop) and claim-level reasoning (AdaptiveCLR),   *)
(* and the model the latter calls (Specialist).  All that crosses between   *)
(* them is what a call returns or raises, and each module takes every       *)
(* outcome of the one below it, so the four are explored side by side: a    *)
(* behaviour is about one of them.                                          *)
(***************************************************************************)
EXTENDS CodeLoop

CONSTANTS Answers, NoAnswer, InitialWithVerifier, InitialWithoutVerifier,
          OriginalMaxK, K, Passed, ModelFails, MaxRuns,  \* of AdaptiveCLR
          Requests, Queries, Signals, Models, Similar, RouteCache, Forced,
          Inherited, Installations, MaxSessions, MaxRestarts,  \* of Orchestrator
          Callers, PoolSize, Threads, MaxConcurrent, Transports  \* of Specialist

ASSUME PolicyAssumption ==
  /\ NoAnswer \notin Answers
  /\ {InitialWithVerifier, InitialWithoutVerifier, OriginalMaxK, K} \subseteq Nat \ {0}
  /\ Passed \subseteq 0..5
  /\ ModelFails \in BOOLEAN
  /\ MaxRuns \in Nat

ASSUME OrchestratorAssumption ==
  LET AllRoutes == {"specialist", "generalist", "hybrid"} IN
  /\ Signals \in
       [Queries -> [hits : [{"math", "code", "planning", "retrieval", "summarization",
                             "conversation"} -> 0..2],
                    otherCode : BOOLEAN, strongCode : BOOLEAN, mathIntent : BOOLEAN,
                    expectation : BOOLEAN]]
  /\ Queries # {}
  /\ Models # {}
  /\ Similar \in [Models -> [Queries -> AllRoutes]]
  /\ RouteCache \in Nat \ {0}
  /\ Forced \subseteq AllRoutes
  /\ Inherited \subseteq SUBSET Queries
  /\ Installations \subseteq [clr : BOOLEAN, coder : BOOLEAN, verifier : BOOLEAN,
                              router : BOOLEAN]
  /\ {MaxSessions, MaxRestarts} \subseteq Nat

ASSUME SpecialistAssumption ==
  /\ PoolSize \in Nat
  /\ {Threads, MaxConcurrent} \subseteq Nat \ {0}
  /\ Transports \subseteq {"completion", "openai_chat", "anthropic"}

VARIABLES
  part,  \* what this behaviour is about
  adaptive, maxK, phase, verifier, highRisk, kTotal, slots, refuted, verdicts,
  clrResult, runs,
  installation, model, routes, disk, session, open, created, closing, req,
  learned, cached, overlap, tried, restarts,
  transport, loaded, free, at, held, told

clrVars == <<adaptive, maxK, phase, verifier, highRisk, kTotal, slots, refuted,
             verdicts, clrResult, runs>>
orchVars == <<installation, model, routes, disk, session, open, created, closing, req,
              learned, cached, overlap, tried, restarts>>
llmVars == <<transport, loaded, free, at, held, told>>
answeringVars == <<part, vars, clrVars, orchVars, llmVars>>

Clr == INSTANCE AdaptiveCLR WITH pc <- phase, result <- clrResult
Orch == INSTANCE Orchestrator WITH config <- installation, Configs <- Installations
Llm == INSTANCE Specialist

\* A behaviour that is not about the code loop has a request of it that is over.
AnsweringInit ==
  /\ part \in {"loop", "clr", "orchestrator", "specialist"}
  /\ IF part = "loop" THEN Init
     ELSE /\ config = [executor |-> FALSE, wasm |-> FALSE, static |-> FALSE]
          /\ pc = "raised"
          /\ attempt = 0 /\ tries = 0 /\ tests = 0 /\ specs = 0
          /\ vacuous = {} /\ cands = <<>> /\ rejected = {} /\ repaired = FALSE
          /\ round = 0 /\ asked = 0 /\ calls = 0
          /\ result = Result("none", 0, 0)
  /\ Clr!Init
  /\ part # "clr" => adaptive
  /\ Orch!Init
  /\ part # "orchestrator" => cached = {} /\ installation = CHOOSE i \in Installations : TRUE
  /\ Llm!Init
  /\ part # "specialist" => loaded = 0 /\ transport = CHOOSE t \in Transports : TRUE

Loops == part = "loop" /\ Next /\ UNCHANGED <<part, clrVars, orchVars, llmVars>>
Reasons == part = "clr" /\ Clr!Next /\ UNCHANGED <<part, vars, orchVars, llmVars>>
Routing == part = "orchestrator" /\ Orch!Next /\ UNCHANGED <<part, vars, clrVars, llmVars>>
Calling(step) == part = "specialist" /\ step /\ UNCHANGED <<part, vars, clrVars, orchVars>>

AnsweringNext == Loops \/ Reasons \/ Routing \/ Calling(Llm!Next)

AnsweringSpec == AnsweringInit /\ [][AnsweringNext]_answeringVars

\* The models and the sandbox answer or time out, and threads run.
FairAnsweringSpec ==
  /\ AnsweringSpec
  /\ WF_answeringVars(Loops)
  /\ \A c \in Callers : WF_answeringVars(Calling(Llm!CallStep(c)))

-------------------------------------------------------------------------------
\* Properties: see the modules.

\* Scores above the cap are earned, and ranking follows the claims (AdaptiveCLR).
ScoresEarned == Clr!TrustModel /\ Clr!AgreedBeatsContradicted

\* Compute is spent within the budget and spared for a reason (AdaptiveCLR).
EffortExcused == Clr!WithinBudget /\ Clr!EarlyExitExcused

\* What requests share is neither leaked nor used twice: the HTTP session
\* (Orchestrator) and the instances of the model (Specialist).
NothingLeaks == Orch!NoSessionLeak /\ Llm!InstancesKept

\* Requests to the code loop (CodeLoop) and calls of the specialist (Specialist)
\* come to an end.
AnswersCome == RequestEnds /\ Llm!CallsEnd

\* Answers rest on what was said and verified; queries whose type decides take
\* its route, all others the router's, not the documented one (Orchestrator).
AnswersBacked == Orch!AnswersBacked /\ Orch!RoutesAgree

\* High-score answers are found again (Orchestrator).
AnswersAreReused == Orch!AnswersAreReused
===============================================================================
