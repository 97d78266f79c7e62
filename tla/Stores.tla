--------------------------------- MODULE Stores ---------------------------------
(***************************************************************************)
(* What an installation keeps in files: the trajectories and their          *)
(* synthesis (TrajectoryStore), the semantic memories and AgentDB           *)
(* (SemanticMemory), the audit log (AuditLog).  They share no state, so a   *)
(* behaviour is about one of the three.                                     *)
(***************************************************************************)
EXTENDS TrajectoryStore

CONSTANTS Problems, Near, MemoryScores, MemoryEntries, MaxInserts, MaxStarts,
          MaxFaults, MaxTools,                      \* of SemanticMemory
          Writers, Jobs, Garbage, MaxRecords, MaxTime  \* of AuditLog

ASSUME StoresAssumption ==
  /\ {MemoryEntries, MaxInserts, MaxStarts, MaxFaults, MaxTools, MaxRecords, MaxTime}
       \subseteq Nat
  /\ MemoryScores \subseteq Nat

VARIABLES
  part,  \* the store this behaviour is about
  kind, conf, cache, file, bak, mirror, db, dbUp, tool, served, lasting, gap,
  unread, made, starts, memoryFaults, tools,
  log, open, call, now, begun, written, logFaults

memoryVars == <<kind, conf, cache, file, bak, mirror, db, dbUp, tool, served, lasting,
                gap, unread, made, starts, memoryFaults, tools>>
logVars == <<log, open, call, now, begun, written, logFaults>>
storeVars == <<part, vars, memoryVars, logVars>>

Memory == INSTANCE SemanticMemory WITH
            Scores <- MemoryScores, MaxEntries <- MemoryEntries, faults <- memoryFaults
Audit == INSTANCE AuditLog WITH faults <- logFaults

\* A damaged line is not taken for a record.
ASSUME GarbageIsNoRecord == Garbage \notin Audit!Record

StoresInit ==
  /\ part \in {"trajectories", "memory", "audit"}
  /\ Init
  /\ Memory!Init
  /\ Audit!Init
  /\ part # "memory" => kind = "clr"

Distils == part = "trajectories" /\ Next /\ UNCHANGED <<part, memoryVars, logVars>>
Remembers == part = "memory" /\ Memory!Next /\ UNCHANGED <<part, vars, logVars>>
Records == part = "audit" /\ Audit!Next /\ UNCHANGED <<part, vars, memoryVars>>

StoresNext == Distils \/ Remembers \/ Records

StoresSpec == StoresInit /\ [][StoresNext]_storeVars

-------------------------------------------------------------------------------
\* Properties: see the modules.

\* A synthesis forgets no raw solution: it removes the raw entries the generalist
\* was shown, and a master stands for each of them.  What may be forgotten is what
\* old masters of the same clusters stood for, which nobody showed the generalist
\* (synthesize_trajectories).
NothingForgotten == NoDataLoss /\ OnlySourcesRemoved /\ OnlyMastersReplaced

\* The memories answer with verified entries only, near enough (SemanticMemory).
OnlyVerifiedServed == Memory!OnlyVerifiedServed

\* What was saved stays in the file or its archive (SemanticMemory).
NothingLost == Memory!NothingLost

\* AgentDB mirrors the entries in memory (SemanticMemory).
MirrorFaithful == Memory!MirrorFaithful

\* The hash chain verifies and verifies only if nothing is missing, and the views
\* of the log agree on the present (AuditLog).
LogSound == Audit!ChainVerifies /\ Audit!StrictMeansComplete /\ Audit!ViewsAgree

\* The past is rewritten by corrections only (AuditLog).
OnlyCorrectionsRewrite == Audit!OnlyCorrectionsRewrite
===============================================================================
