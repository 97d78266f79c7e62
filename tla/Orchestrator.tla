----------------------------- MODULE Orchestrator -----------------------------
(***************************************************************************)
(* One HybridReasoningOrchestrator serving concurrent requests              *)
(* (hybrid_orchestrator: run and what it calls, start, cleanup, the shared  *)
(* HTTP session, the EmbeddingRouter with its PersistentRouteCache, the     *)
(* cache and the trajectory store as run uses them).                        *)
(*                                                                          *)
(* A request is routed, which fixes the steps of its answer: calls of a     *)
(* model over the shared session, and runs of a solver.  The solvers are    *)
(* modules of their own (AdaptiveCLR, CodeLoop); here they return one of    *)
(* the results they can return.  Everything between two awaits is one step. *)
(***************************************************************************)
EXTENDS Naturals, Sequences, FiniteSets

CONSTANTS Requests,
          Queries,
          Signals,      \* what the patterns and keyword lists find in each query
          Models,       \* embedding models the router may be started with
          Similar,      \* what a model's similarities say of a query
          RouteCache,   \* router_cache_size
          Forced,       \* the routes a caller may force
          Inherited,    \* what an earlier version's CLR cache file may hold
          Configs,      \* the configurations: records of clr, coder, verifier, router
          MaxSessions,  \* bound: sessions created
          MaxRestarts   \* bound: restarts of the process

Routes == {"specialist", "generalist", "hybrid"}

\* _TASK_TYPE_KEYWORDS, in its order.
KeywordTypes == <<"math", "code", "planning", "retrieval", "summarization", "conversation">>

VARIABLES
  config,    \* this installation's configuration
  model,     \* the router's embedding model
  routes,    \* route_cache, least recently used first: the query and its route
  disk,      \* the route cache's file
  session,   \* _http_session (0: None)
  open,      \* the client sessions that are not closed
  created,   \* number of sessions created
  closing,   \* the session whose close() cleanup() awaits (0: none)
  req,       \* the requests
  learned,   \* the trajectory store: what was stored, by which kind of step
  cached,    \* the CLR cache: the queries a lookup finds a verified answer for
  overlap,   \* history: a request has taken a session while one was closing
  tried,     \* history: the embedding models the router has been started with
  restarts   \* restarts so far

vars == <<config, model, routes, disk, session, open, created, closing, req,
          learned, cached, overlap, tried, restarts>>
sessionVars == <<session, open, created, closing, overlap>>
routeVars == <<model, routes, disk, tried>>

\* No request yet.
NoRequest == [pc |-> "none", query |-> CHOOSE q \in Queries : TRUE, route |-> "hybrid",
              forced |-> FALSE, todo |-> <<>>, session |-> 0, got |-> {}]

-------------------------------------------------------------------------------
(***************************************************************************)
(* Routing.                                                                 *)
(***************************************************************************)

\* A strong programming signal overrides math intent.
MathIntent(q) == Signals[q].mathIntent /\ ~ Signals[q].strongCode

\* The types whose keywords count: "code of conduct" is no code, and math needs
\* computational intent.
Eligible(q) ==
  {t \in DOMAIN KeywordTypes :
     /\ Signals[q].hits[KeywordTypes[t]] > 0
     /\ KeywordTypes[t] = "code" => ~ Signals[q].otherCode
     /\ KeywordTypes[t] = "math" => MathIntent(q)}

\* _detect_task_type(): most keywords, the first of equals; intent without a
\* keyword is math all the same.
TaskType ==
  [q \in Queries |->
     LET Hits(t) == Signals[q].hits[KeywordTypes[t]]
         Before(t, u) == Hits(t) > Hits(u) \/ (Hits(t) = Hits(u) /\ t <= u)
     IN IF Eligible(q) # {}
        THEN KeywordTypes[CHOOSE t \in Eligible(q) : \A u \in Eligible(q) : Before(t, u)]
        ELSE IF MathIntent(q) THEN "math" ELSE "unknown"]

CachedRoute(q) == {n \in DOMAIN routes : routes[n].query = q}

Without(s, n) == [m \in 1..(Len(s) - 1) |-> IF m < n THEN s[m] ELSE s[m + 1]]

\* get_route(), put_route(): a hit moves to the end; a new decision evicts the
\* oldest when the cache is full.
Touched(q) ==
  IF CachedRoute(q) # {}
  THEN LET n == CHOOSE m \in CachedRoute(q) : TRUE
       IN Append(Without(routes, n), routes[n])
  ELSE Append(IF Len(routes) >= RouteCache THEN Tail(routes) ELSE routes,
              [query |-> q, route |-> Similar[model][q]])

\* classify(): the cached decision whatever model made it, else the similarity.
Classified(q) == Touched(q)[Len(Touched(q))].route

Slip_RouterWins(q) == IF config.router THEN Classified(q) ELSE "hybrid"

\* _classify_route(): the task type decides where it can.
ClassifyRoute(q) ==
  CASE TaskType[q] \in {"math", "code"} -> "specialist"
    [] TaskType[q] \in {"conversation", "summarization"} -> "generalist"
    [] OTHER -> IF config.router THEN Classified(q) ELSE "hybrid"

\* _classify_route() asks the router also where the task type decides: the
\* answer is only compared, and its cache has been touched.  put_route() saves
\* the cache when it has a new decision.
Classifies(q) ==
  /\ routes' = IF config.router THEN Touched(q) ELSE routes
  /\ disk' = IF config.router /\ CachedRoute(q) = {} THEN Touched(q) ELSE disk
  /\ UNCHANGED <<model, tried>>

\* The step in which the specialist solves: run(), and select_verifier() for a
\* CLR run, which has one for math and code only.
Solver(q, route) ==
  IF route = "specialist" /\ config.coder /\ TaskType[q] = "code"
  THEN IF config.verifier THEN "loop" ELSE "coder"
  ELSE IF ~ config.clr THEN "plain"
  ELSE IF TaskType[q] \in {"math", "code"} THEN "verifiedClr" ELSE "clr"

\* The steps of an answer.
Steps(q, route) ==
  CASE route = "generalist" -> <<"generalist">>
    [] route = "specialist" -> <<Solver(q, route)>>
    [] route = "hybrid" -> <<"generalist", Solver(q, route), "generalist">>

\* run(): the route of the query, or the caller's without asking the router.
Run(r) ==
  /\ req[r].pc = "none"
  /\ \E q \in Queries : \E forced \in Forced \cup {"no"} :
       LET route == IF forced = "no" THEN ClassifyRoute(q) ELSE forced IN
       /\ req' = [req EXCEPT ![r] = [pc |-> "step", query |-> q, route |-> route,
                                     forced |-> forced # "no", todo |-> Steps(q, route),
                                     session |-> 0, got |-> {}]]
       /\ IF forced = "no" THEN Classifies(q) ELSE UNCHANGED routeVars
  /\ UNCHANGED <<config, learned, cached, restarts, sessionVars>>

-------------------------------------------------------------------------------
(***************************************************************************)
(* The shared session and the calls over it.                                *)
(***************************************************************************)

ModelCalls == {"generalist", "plain", "coder"}

Slip_SessionPerCall == created + 1

\* _get_session(): the session there is, or a new one when it is closed.  The
\* lock is never contended (nothing is awaited while it is held).
CurrentSession == IF session \in open THEN session ELSE created + 1

\* start(): the session is created ahead of the requests.
Start ==
  /\ session \notin open
  /\ created < MaxSessions
  /\ session' = CurrentSession
  /\ open' = open \cup {CurrentSession}
  /\ created' = created + 1
  /\ overlap' = (overlap \/ closing # 0)
  /\ UNCHANGED <<config, closing, req, learned, cached, restarts, routeVars>>

\* cleanup(), first half: close() marks the session closed, then waits for its
\* connections.
CleanupBegins ==
  /\ session \in open
  /\ closing = 0
  /\ closing' = session
  /\ open' = open \ {session}
  /\ UNCHANGED <<config, session, created, req, learned, cached, overlap,
                 restarts, routeVars>>

\* Second half: whatever session there is now is forgotten.
CleanupEnds ==
  /\ closing # 0
  /\ closing' = 0
  /\ session' = 0
  /\ UNCHANGED <<config, open, created, req, learned, cached, overlap, restarts,
                 routeVars>>

\* _get_session() by a request.
TakesSession ==
  /\ created < MaxSessions \/ session \in open
  /\ session' = CurrentSession
  /\ open' = open \cup {CurrentSession}
  /\ created' = IF CurrentSession > created THEN CurrentSession ELSE created
  /\ overlap' = (overlap \/ closing # 0)
  /\ UNCHANGED closing

\* A model call begins: _call_generalist() and _call_code_specialist() try the
\* chat endpoint first, the plain specialist has /completion only.
CallBegins(r) ==
  /\ req[r].pc = "step"
  /\ Head(req[r].todo) \in ModelCalls
  /\ TakesSession
  /\ req' = [req EXCEPT ![r].pc = IF Head(req[r].todo) = "plain" THEN "completion" ELSE "chat",
                        ![r].session = CurrentSession]
  /\ UNCHANGED <<config, learned, cached, restarts, routeVars>>

\* Of a request that has ended, what its answer rests on is all that is kept.
Ended(got) == [NoRequest EXCEPT !.pc = "ended", !.got = got]

\* The step at hand has given g: the next step, or the answer.
Advanced(r, g) ==
  IF Len(req[r].todo) = 1
  THEN Ended(req[r].got \cup {g})
  ELSE [req[r] EXCEPT !.pc = "step", !.todo = Tail(@), !.session = 0,
                      !.got = @ \cup {g}]

Raises(r) == req' = [req EXCEPT ![r] = Ended({})]

Slip_EmptyIsText(r, c) == req' = [req EXCEPT ![r] = Advanced(r, c)]

\* A response with content is returned, an empty one raises at once.
Content(r, c) == IF c = "text" THEN req' = [req EXCEPT ![r] = Advanced(r, c)]
                 ELSE Raises(r)

\* The chat endpoint answers or fails; then /completion is tried, which raises
\* RuntimeError at once if the session has been closed meanwhile.
Chat(r) ==
  /\ req[r].pc = "chat"
  /\ \/ \E c \in {"text", "empty"} : Content(r, c)
     \/ IF req[r].session \in open THEN req' = [req EXCEPT ![r].pc = "completion"]
        ELSE Raises(r)
  /\ UNCHANGED <<config, learned, cached, restarts, sessionVars, routeVars>>

\* /completion with the prompt in ChatML: failing here, like an empty answer,
\* is failing for good.
Completion(r) ==
  /\ req[r].pc = "completion"
  /\ \E c \in {"text", "empty"} : Content(r, c)
  /\ UNCHANGED <<config, learned, cached, restarts, sessionVars, routeVars>>

-------------------------------------------------------------------------------
(***************************************************************************)
(* The solvers, and what is kept of their results.                          *)
(***************************************************************************)

\* _build_verifier_context(): what there is to check an answer against is the
\* math solver's result, or an expected output in the query.
HasContext(q) == TaskType[q] \in {"math", "code"} /\ Signals[q].expectation

\* What a run can come back with.  A verified answer takes a verifier, and the
\* verifiers of a CLR run cannot verify without context; "weak" is an answer
\* under the cap of self-claims.
Results(q, step) ==
  {"weak", "none"} \cup
  (IF step = "loop" \/ (step = "verifiedClr" /\ HasContext(q)) THEN {"verified"} ELSE {})

\* _build_cache_result_dict() and should_cache(): a verified result needs the
\* key "verified", which the dictionary does not have; a weak one is refused.
CacheDict(g) == [answer |-> g # "none", strong |-> g = "verified", verified |-> FALSE]
IsCacheable(g) == CacheDict(g).answer /\ CacheDict(g).strong /\ CacheDict(g).verified

Slip_StoreWeak(r, g) ==
  IF g # "none" THEN learned \cup {[query |-> req[r].query, result |-> g,
                                    route |-> req[r].route]}
  ELSE learned

\* _store_if_verified(), called by run() on the specialist route.
StoreIfVerified(r, g) ==
  IF req[r].route = "specialist" /\ g = "verified"
  THEN learned \cup {[query |-> req[r].query, result |-> g, route |-> req[r].route]}
  ELSE learned

\* _run_clr_with_cache() or _run_code_specialist_verified() begins.  A hit of
\* the CLR cache is a result without a run; on a miss route_structured() asks
\* for the route once more.
SolveBegins(r) ==
  /\ req[r].pc = "step"
  /\ LET q == req[r].query
         step == Head(req[r].todo)
     IN /\ step \notin ModelCalls
        /\ IF step # "loop" /\ q \in cached
           THEN /\ req' = [req EXCEPT ![r] = Advanced(r, "verified")]
                /\ learned' = StoreIfVerified(r, "verified")
                /\ UNCHANGED routeVars
           ELSE /\ req' = [req EXCEPT ![r].pc = "solving"]
                /\ UNCHANGED learned
                /\ IF step = "loop" THEN UNCHANGED routeVars ELSE Classifies(q)
  /\ UNCHANGED <<config, cached, restarts, sessionVars>>

\* The code loop calls its models over the shared session; a CLR run opens one
\* of its own.
LoopCalls(r) ==
  /\ req[r].pc = "solving"
  /\ Head(req[r].todo) = "loop"
  /\ TakesSession
  /\ UNCHANGED <<config, req, learned, cached, restarts, routeVars>>

\* The solver returns, or raises.
SolveEnds(r) ==
  /\ req[r].pc = "solving"
  /\ LET q == req[r].query
         step == Head(req[r].todo)
     IN \/ \E g \in Results(q, step) :
             /\ req' = [req EXCEPT ![r] = Advanced(r, g)]
             /\ learned' = StoreIfVerified(r, g)
             /\ cached' = IF step # "loop" /\ IsCacheable(g) THEN cached \cup {q}
                          ELSE cached
        \/ /\ Raises(r)
           /\ UNCHANGED <<learned, cached>>
  /\ UNCHANGED <<config, restarts, sessionVars, routeVars>>

\* The process restarts, perhaps with another embedding model: the route cache
\* comes back from its file, the requests and the session are gone.
Restart ==
  /\ restarts < MaxRestarts
  /\ restarts' = restarts + 1
  /\ model' \in IF config.router THEN Models ELSE {model}
  /\ tried' = tried \cup {model'}
  /\ routes' = disk
  /\ req' = [r \in Requests |-> NoRequest]
  /\ session' = 0
  /\ open' = {}
  /\ created' = 0
  /\ closing' = 0
  /\ overlap' = FALSE
  /\ UNCHANGED <<config, disk, learned, cached>>

\* __init__: the CLR cache is there with use_clr only; what its file holds was
\* written by an earlier version ("old cache files", _run_clr_with_cache).
Init ==
  /\ config \in Configs
  /\ model = CHOOSE m \in Models : TRUE
  /\ routes = <<>>
  /\ disk = <<>>
  /\ session = 0
  /\ open = {}
  /\ created = 0
  /\ closing = 0
  /\ req = [r \in Requests |-> NoRequest]
  /\ learned = {}
  /\ cached \in IF config.clr THEN Inherited ELSE {{}}
  /\ overlap = FALSE
  /\ tried = {model}
  /\ restarts = 0

Next ==
  \/ Start
  \/ CleanupBegins
  \/ CleanupEnds
  \/ \E r \in Requests :
       \/ Run(r)
       \/ CallBegins(r) \/ Chat(r) \/ Completion(r)
       \/ SolveBegins(r) \/ LoopCalls(r) \/ SolveEnds(r)
  \/ Restart

Spec == Init /\ [][Next]_vars

-------------------------------------------------------------------------------
(***************************************************************************)
(* Properties.                                                              *)
(***************************************************************************)

TypeOK ==
  /\ config \in Configs
  /\ model \in Models
  /\ \A c \in {routes, disk} :
       /\ c \in Seq([query : Queries, route : Routes])
       /\ Len(c) <= RouteCache
  /\ session \in 0..MaxSessions
  /\ open \subseteq 1..MaxSessions
  /\ created \in 0..MaxSessions
  /\ closing \in 0..MaxSessions
  /\ req \in [Requests -> [pc : {"none", "step", "chat", "completion", "solving", "ended"},
                           query : Queries, route : Routes, forced : BOOLEAN,
                           todo : Seq(ModelCalls \cup {"clr", "verifiedClr", "loop"}),
                           session : 0..MaxSessions,
                           got : SUBSET {"text", "empty", "weak", "verified", "none"}]]
  /\ learned \subseteq [query : Queries, result : {"weak", "verified"}, route : Routes]
  /\ cached \subseteq Queries
  /\ overlap \in BOOLEAN
  /\ tried \subseteq Models
  /\ restarts \in 0..MaxRestarts

\* Every open session is the one the orchestrator holds, however requests,
\* start() and cleanup() follow each other, except when a session has been
\* taken while cleanup() was waiting for the old one to close.
NoSessionLeak == overlap \/ open \subseteq {session}

\* An answer never rests on a model call that came back empty, and the
\* trajectory store learns only what a verifier has accepted on the specialist
\* route, also where a cached result spares the run.
AnswersBacked ==
  /\ TypeOK
  /\ \A r \in Requests : "empty" \notin req[r].got
  /\ \A t \in learned : t.result = "verified" /\ t.route = "specialist"

\* The requests at work that nobody forced elsewhere.
Routed == {r \in Requests : req[r].pc \notin {"none", "ended"} /\ ~ req[r].forced}

\* "task_type and route agree" (_classify_route), whatever the router says or
\* has cached: math and code go to the specialist, conversation and
\* summarization to the generalist.  Planning, retrieval and unknown queries go
\* where the router sends them, and not to "hybrid", as the docstring and the
\* comment at the return say: that holds without the router only (see
\* RoutesAsDocumented).  Evictions, hits and reloads of the route cache never
\* make up a route: it is what the similarity says by a model the router has
\* been started with, the present one's unless there has been another.
RoutesAgree ==
  \A r \in Routed :
    LET q == req[r].query IN
    /\ TaskType[q] \in {"math", "code"} => req[r].route = "specialist"
    /\ TaskType[q] \in {"conversation", "summarization"} => req[r].route = "generalist"
    /\ TaskType[q] \in {"planning", "retrieval", "unknown"} =>
         IF config.router THEN \E m \in tried : req[r].route = Similar[m][q]
         ELSE req[r].route = "hybrid"

\* "planning, retrieval, unknown -> hybrid", as the docstring of
\* _classify_route (1302) and its comment (1327) say.  It fails: the code
\* returns the router's answer.  No run checks it.
RoutesAsDocumented ==
  \A r \in Routed :
    TaskType[req[r].query] \in {"planning", "retrieval", "unknown"} => req[r].route = "hybrid"

\* "Skip re-running high-score CLR for similar/recent problems": a problem
\* whose verified CLR answer has been learned is found by the next lookup.
AnswersAreReused ==
  \A t \in learned : TaskType[t.query] = "math" => t.query \in cached

===============================================================================
