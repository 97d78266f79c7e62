------------------------------ MODULE SonaGossip ------------------------------
(***************************************************************************)
(* The exchange of learned patterns between the nodes, and the reputation   *)
(* that is to keep bad nodes out of it.  Coordinator: federation_server,    *)
(* the ReputationStore, the outcome recorded by /complete and both          *)
(* /api/sona/sync endpoints.  Node: hybrid_orchestrator, sona_sync_once and *)
(* its loop (POST the local patterns, GET the global ones, record them).    *)
(*                                                                          *)
(* Scores and weights are in tenths.  A pattern is identified by the id its *)
(* engine gave it; the engine itself (ruvllm_py) is external: what has been *)
(* recorded is exported from then on.                                       *)
(***************************************************************************)
EXTENDS Integers, FiniteSets

CONSTANTS Nodes,
          Patterns,
          Source,        \* the node that learns the pattern from its own results
          Readers,       \* the nodes that can decrypt the coordinator's answers
          Unknown,       \* the worker_id of a body without one
          Senders,       \* who posts to /complete: see Init
          Default,       \* _REP_DEFAULT
          Floor,         \* _REP_GOSSIP_FLOOR
          MaxReports,    \* bound: reports posted to /complete
          MaxLost,       \* bound: posts or answers lost (Wire)
          MaxRestarts    \* bound: coordinator restarts

Outcomes == {"verified", "wrong", "error", "unchecked"}

Identities == ({"wid"} \X (Nodes \cup {Unknown})) \cup ({"cn"} \X Nodes)

VARIABLES
  sender,    \* who reports: this repository's worker, or a client of the API
  exposed,   \* the server hands the client's certificate to the application
  score,     \* ReputationStore._scores (Default where there is none)
  shared,    \* _reputation_weight of the global patterns (0: not in the set)
  known,     \* the patterns each node's engine has recorded
  phase,     \* of a node's cycle: "idle", or "posted" (the GET is outstanding)
  earned,    \* history: the score a node's own outcomes amount to
  reports,   \* reports so far
  lost,      \* losses so far
  restarts   \* restarts so far

vars == <<sender, exposed, score, shared, known, phase, earned, reports, lost, restarts>>

\* The worker of federated_queue (_claim_and_report) names itself in no
\* report and sends the fields of OrchestratorResult, which has no "verified";
\* another client may send both.
Init ==
  /\ sender \in Senders
  /\ exposed \in BOOLEAN
  /\ score = [i \in Identities |-> Default]
  /\ shared = [p \in Patterns |-> 0]
  /\ known = [n \in Nodes |-> {}]
  /\ phase = [n \in Nodes |-> "idle"]
  /\ earned = [n \in Nodes |-> Default]
  /\ reports = 0
  /\ lost = 0
  /\ restarts = 0

\* _outcome_weight_from_result() times alpha: +1, -2 and -1 times 0.3.
OutcomeWeight(o) ==
  CASE o = "verified" -> 3 [] o = "wrong" -> -6 [] o = "error" -> -3
    [] o = "unchecked" -> 0

Clamp(x) == IF x < 0 THEN 0 ELSE IF x > 10 THEN 10 ELSE x

\* record_outcome().
Recorded(old, o) == Clamp(old + OutcomeWeight(o))

\* _extract_identity(): the certificate's name, else the worker_id.
Identity(cert, n, name) == IF cert THEN <<"cn", n>> ELSE <<"wid", name>>

\* What the body of the report says of the outcome.
Visible(o) == IF sender = "client" \/ o = "error" THEN o ELSE "unchecked"

\* /complete of a job that node n has executed with outcome o.
Report(n, o) ==
  /\ reports < MaxReports
  /\ reports' = reports + 1
  /\ LET i == Identity(exposed, n, IF sender = "client" THEN n ELSE Unknown) IN
       score' = [score EXCEPT ![i] = Recorded(@, Visible(o))]
  /\ earned' = [earned EXCEPT ![n] = Recorded(@, o)]
  /\ UNCHANGED <<sender, exposed, shared, known, phase, lost, restarts>>

\* _store_if_verified(): a verified result of this node is recorded.
Learn(n) ==
  /\ \E p \in Patterns \ known[n] :
       Source[p] = n /\ known' = [known EXCEPT ![n] = @ \cup {p}]
  /\ UNCHANGED <<sender, exposed, score, shared, phase, earned, reports, lost, restarts>>

\* _sona_export_patterns(): everything the engine holds.
Exported(n) == known[n]

Slip_NoFloor(n) == score[Identity(FALSE, n, n)]

\* downweight_factor() of the node that syncs: the orchestrator posts without
\* a client certificate and with its node name.
Downweight(n) ==
  LET s == score[Identity(FALSE, n, n)] IN IF s < Floor THEN 0 ELSE s

\* The merge by pattern id: a lower weight does not replace a higher one.
Merged(n) ==
  [p \in Patterns |->
     IF p \in Exported(n) /\ Downweight(n) > 0 /\ Downweight(n) >= shared[p]
     THEN Downweight(n) ELSE shared[p]]

\* sona_sync_once(), first half: export and POST.  When the answer fails the
\* cycle is over; the coordinator may have merged the patterns all the same.
PostPatterns(n) ==
  /\ phase[n] = "idle"
  /\ \/ /\ shared' = Merged(n)
        /\ phase' = [phase EXCEPT ![n] = "posted"]
        /\ UNCHANGED lost
     \/ /\ lost < MaxLost
        /\ lost' = lost + 1
        /\ shared' \in {shared, Merged(n)}
        /\ UNCHANGED phase
  /\ UNCHANGED <<sender, exposed, score, known, earned, reports, restarts>>

\* What GET /api/sona/sync answers with.
Global == {p \in Patterns : shared[p] > 0}

\* _decrypt_federation_response(): an answer the node cannot decrypt holds no
\* patterns for it.
Read(n, answer) == IF n \in Readers THEN answer ELSE {}

\* _sona_import_patterns(): every pattern is recorded, whatever its weight.
Imported(n, ps) == [known EXCEPT ![n] = @ \cup ps]

\* Second half: GET and import.
GetPatterns(n) ==
  /\ phase[n] = "posted"
  /\ phase' = [phase EXCEPT ![n] = "idle"]
  /\ \/ known' = Imported(n, Read(n, Global)) /\ UNCHANGED lost
     \/ lost < MaxLost /\ lost' = lost + 1 /\ UNCHANGED known
  /\ UNCHANGED <<sender, exposed, score, shared, earned, reports, restarts>>

\* _sona_sync_loop(): one cycle after the other.
Cycle(n) == PostPatterns(n) \/ GetPatterns(n)

\* The coordinator restarts: patterns and reputations are in its memory only.
Restart ==
  /\ restarts < MaxRestarts
  /\ restarts' = restarts + 1
  /\ score' = [i \in Identities |-> Default]
  /\ shared' = [p \in Patterns |-> 0]
  /\ earned' = [n \in Nodes |-> Default]
  /\ UNCHANGED <<sender, exposed, known, phase, reports, lost>>

Next ==
  \/ \E n \in Nodes :
       \/ \E o \in Outcomes : Report(n, o)
       \/ Learn(n)
       \/ Cycle(n)
  \/ Restart

Spec == Init /\ [][Next]_vars

-------------------------------------------------------------------------------
(***************************************************************************)
(* Properties.                                                              *)
(***************************************************************************)

TypeOK ==
  /\ sender \in Senders
  /\ exposed \in BOOLEAN
  /\ score \in [Identities -> 0..10]
  /\ shared \in [Patterns -> 0..10]
  /\ known \in [Nodes -> SUBSET Patterns]
  /\ phase \in [Nodes -> {"idle", "posted"}]
  /\ earned \in [Nodes -> 0..10]
  /\ reports \in 0..MaxReports
  /\ lost \in 0..MaxLost
  /\ restarts \in 0..MaxRestarts

\* A pattern enters the global set, or gains weight, only by a node that
\* knows it and whose own outcomes keep it above the floor; and its weight
\* never falls while the coordinator runs.
TrustedSources ==
  /\ TypeOK
  /\ restarts' = restarts =>
       \A p \in Patterns :
         /\ shared'[p] >= shared[p]
         /\ shared'[p] # shared[p] =>
              \E n \in Nodes : p \in known[n] /\ earned[n] >= Floor

\* "/api/sona/sync downweights a low-reputation node's gossip imports so its
\* hallucinated patterns don't propagate to the swarm" (federation_server,
\* create_federation_app), for whoever reports and whatever the server sees.
BadNodesSilenced == [][TrustedSources]_vars

\* The same for the reports the endpoints are prepared for: clients that name
\* themselves and send the verdict, to a server that sees no certificates.
NamedBadNodesSilenced ==
  [][sender = "client" /\ ~ exposed => TrustedSources]_vars

\* A pattern one node has learned reaches every node that can read the
\* answers, however answers are lost and the coordinator restarts, unless its
\* source has meanwhile lost its reputation.
PatternsSpread ==
  \A p \in Patterns : \A n \in Readers :
    p \in known[Source[p]]
      ~> p \in known[n] \/ score[<<"wid", Source[p]>>] < Floor

===============================================================================
