--------------------------------- MODULE Swarm ---------------------------------
(***************************************************************************)
(* The node's side of the federation: the queue that publishes its jobs     *)
(* (FederatedQueue) and the exchange of learned patterns (SonaGossip).      *)
(* They share the network and the coordinator but no state of the node, so  *)
(* a behaviour is one of the two: the queue's or the gossip's.              *)
(***************************************************************************)
EXTENDS FederatedQueue

CONSTANTS Nodes, Patterns, Source, Readers, Unknown, Senders, Default, Floor,
          MaxReports, MaxRestarts

ASSUME SonaGossipAssumption ==
  /\ Source \in [Patterns -> Nodes]
  /\ Readers \subseteq Nodes
  /\ Unknown \notin Nodes
  /\ Senders \subseteq {"worker", "client"}
  /\ Default \in 0..10
  /\ Floor \in 1..10
  /\ MaxReports \in Nat
  /\ MaxRestarts \in Nat

VARIABLES
  part,  \* the half of the node this behaviour is about
  sender, exposed, score, shared, known, phase, earned, reports, restarts

gossipVars == <<sender, exposed, score, shared, known, phase, earned, reports, restarts>>
queueVars == <<service, failed, certs, local, posting, sticky, reachable, up,
               copies, unheard, outages>>
swarmVars == <<part, lost, queueVars, gossipVars>>

Gossip == INSTANCE SonaGossip

Publishing == part = "queue" /\ UNCHANGED <<part, gossipVars>>
Gossiping == part = "gossip" /\ UNCHANGED <<part, queueVars>>

SwarmInit ==
  /\ part \in {"queue", "gossip"}
  /\ QueueInit
  /\ Gossip!Init
  /\ part = "queue" => sender = "worker" /\ exposed
  /\ part = "gossip" => certs

SwarmNext == (Publishing /\ QueueNext) \/ (Gossiping /\ Gossip!Next)

SwarmSpec == SwarmInit /\ [][SwarmNext]_swarmVars

\* The event loop runs the publication tasks and the local queue's dispatcher;
\* each post ends within its 5 seconds; _sona_sync_loop comes round again and
\* again.  Submissions, start, reports and outages are not fair.
SwarmFairness ==
  /\ \A j \in Jobs :
       /\ WF_swarmVars(Publishing /\ (TaskStarts(j) \/ Post(j) \/ GiveUp(j)))
       /\ WF_swarmVars(Publishing /\ (LocalRuns(j) \/ LocalEnds(j)))
  /\ \A n \in Nodes :
       WF_swarmVars(Gossiping /\ Gossip!Cycle(n))

FairSwarmSpec == SwarmSpec /\ SwarmFairness

-------------------------------------------------------------------------------
\* Properties: see the modules.

\* Nodes whose named reports went below the floor add nothing (SonaGossip).
BadNodesAddNothing == Gossip!NamedBadNodesSilenced

\* Nothing the federation does or fails to do keeps a node from its own jobs
\* (FederatedQueue), nor the patterns from the nodes that can read them
\* (SonaGossip).
NodesGoOn == LocalFallback /\ Gossip!PatternsSpread

\* The documented claim, for the reports this repository's worker sends
\* (SonaGossip): a node whose own outcomes are below the floor adds nothing.
BadNodesSilenced == Gossip!BadNodesSilenced

===============================================================================
