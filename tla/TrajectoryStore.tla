---------------------------- MODULE TrajectoryStore ----------------------------
(***************************************************************************)
(* The store of verified trajectories (persistent_cache:                    *)
(* VerifiedTrajectoryStore) with the queries that fill and use it and the   *)
(* synthesis that compresses it (hybrid_orchestrator:                       *)
(* synthesize_trajectories).                                                *)
(*                                                                          *)
(* All of it runs in one event loop: a step goes from one await to the      *)
(* next.  Synthesis awaits the generalist and the re-verification of the    *)
(* master it wrote; queries store and retrieve entries in between.  Every   *)
(* change is saved before the next await, so the file is not a state of its *)
(* own.  Of an embedding only its class is kept: two entries are similar    *)
(* when their classes are equal.  One synthesis runs at a time.             *)
(*                                                                          *)
(* The definitions named Slip_... are plausible slips in the definition     *)
(* that follows them; with each of them one of the properties must fail.    *)
(***************************************************************************)
EXTENDS Naturals, Sequences, FiniteSets, Listing

CONSTANTS Classes,      \* groups of similar queries
          CodeClasses,  \* those about code: their solutions carry the unit
                        \* tests they passed as verification_context
          Scores,       \* scores of solved entries; a proven master scores 1
          MaxEntries,   \* max_entries
          MinCluster,   \* min_cluster_size
          MaxClusters,  \* max_clusters
          MaxFewShot,   \* max_few_shot
          MaxSolved,    \* bound: verified solutions stored
          MaxUses,      \* bound: retrievals of one entry
          MaxCrashes    \* bound: restarts of the process

ASSUME TrajectoryStoreAssumption ==
  /\ {MaxEntries, MinCluster, MaxClusters, MaxFewShot} \subseteq Nat \ {0}
  /\ CodeClasses \subseteq Classes /\ Scores \subseteq Nat
  /\ {MaxSolved, MaxUses, MaxCrashes} \subseteq Nat

VARIABLES
  entries,  \* VerifiedTrajectoryStore.entries (and the file)
  solved,   \* how many solutions have been stored; the last one's number
  syn,      \* the running synthesis
  disturbed, \* history: a synthesis saw an eviction or was cut short
  crashes

vars == <<entries, solved, syn, disturbed, crashes>>

\* "of" numbers the solutions an entry holds or was distilled from.
Entry == [of : SUBSET (1..MaxSolved), class : Classes,
          kind : {"solved", "rule", "proven"},
          score : Scores \cup {0, 1}, uses : 0..MaxUses]

Idle == [pc |-> "idle", clusters |-> <<>>, at |-> 0, batch |-> {},
         class |-> "none", ctx |-> FALSE, remove |-> {}, sources |-> {}]

Init ==
  /\ entries = <<>>
  /\ solved = 0
  /\ syn = Idle
  /\ disturbed = FALSE
  /\ crashes = 0

----------------------------------------------------------------------------
(* The store.                                                              *)

Trusted(e) == e.kind # "rule"   \* is_cache_entry_trustworthy

\* Positions of the entries, most used first, then by score (stable).
Ahead(es, i, j) ==
  \/ es[i].uses > es[j].uses
  \/ es[i].uses = es[j].uses /\ es[i].score > es[j].score
  \/ es[i].uses = es[j].uses /\ es[i].score = es[j].score /\ i < j

Ranking(es) ==
  Listed(DOMAIN es, {p \in Pairs(DOMAIN es) : Ahead(es, p[1], p[2])})

\* store(), store_synthesized(), store_synthesized_verified()
Stored(es, e) ==
  LET all == Append(es, e)
      best == Ranking(all)
  IN  IF Len(all) <= MaxEntries THEN all
      ELSE [r \in 1..MaxEntries |-> all[best[r]]]

Slip_OffByOne(es, gone) ==
  At(es, {i \in DOMAIN es : i + 1 \notin gone})

Slip_NothingRemoved(es, gone) == es

\* remove_entries()
Removed(es, gone) == At(es, DOMAIN es \ gone)

Full(es) == Len(es) = MaxEntries

Positions(es, c) == {i \in DOMAIN es : es[i].class = c}
First(S) == CHOOSE i \in S : \A j \in S : i <= j

\* find_clusters(), cut to max_clusters
Found(es) ==
  LET big == {Positions(es, c) : c \in {d \in Classes :
                 Cardinality(Positions(es, d)) >= MinCluster}}
      all == Listed(big, {p \in Pairs(big) : First(p[1]) < First(p[2])})
  IN  IF Len(all) <= MaxClusters THEN all ELSE SubSeq(all, 1, MaxClusters)

----------------------------------------------------------------------------
(* Queries.                                                                *)

\* _store_if_verified(): a query of class c was answered and verified.
Solve(c, score) ==
  /\ solved < MaxSolved
  /\ solved' = solved + 1
  /\ entries' = Stored(entries,
       [of |-> {solved'}, class |-> c, kind |-> "solved",
        score |-> score, uses |-> 0])
  /\ disturbed' = (disturbed \/ (syn # Idle /\ Full(entries)))
  /\ UNCHANGED <<syn, crashes>>

\* retrieve(): the entries at S become few-shot examples of a query.
Retrieve(S) ==
  /\ S # {} /\ Cardinality(S) <= MaxFewShot
  /\ \A i \in S : Trusted(entries[i]) /\ entries[i].uses < MaxUses
  /\ entries' = [i \in DOMAIN entries |->
       IF i \in S THEN [entries[i] EXCEPT !.uses = @ + 1] ELSE entries[i]]
  /\ UNCHANGED <<solved, syn, disturbed, crashes>>

----------------------------------------------------------------------------
(* Synthesis.                                                              *)

\* Positions of a cluster that hold something to distil now.
Raw(es, cluster) == {i \in cluster : i \in DOMAIN es /\ es[i].kind = "solved"}

\* The entry whose query stands for the master: the first of highest score.
Representative(es, S) ==
  CHOOSE i \in S : \A j \in S :
    es[i].score > es[j].score \/ (es[i].score = es[j].score /\ i <= j)

\* The first cluster from the k-th on that is still big enough (0: none).
NextCluster(es, s, k) ==
  LET left == {j \in k..Len(s.clusters) :
                 Cardinality(Raw(es, s.clusters[j])) >= MinCluster}
  IN  IF left = {} THEN 0 ELSE First(left)

\* The loop goes on at the k-th cluster with the entries es: it awaits the
\* generalist, or removes the raw entries of all clusters and returns.
Proceed(es, s, k) ==
  LET j == NextCluster(es, s, k) IN
  IF j = 0
  THEN /\ entries' = Removed(es, s.remove)
       /\ syn' = Idle
  ELSE LET raw == Raw(es, s.clusters[j]) IN
       /\ entries' = es
       /\ syn' = [s EXCEPT !.pc = "asking", !.at = j,
                    !.batch = UNION {es[i].of : i \in raw},
                    !.class = es[Representative(es, raw)].class,
                    !.ctx = \A i \in raw : es[i].class \in CodeClasses]

SynthBegin ==
  /\ syn.pc = "idle"
  /\ Found(entries) # <<>>
  /\ Proceed(entries, [Idle EXCEPT !.clusters = Found(entries)], 1)
  /\ UNCHANGED <<solved, disturbed, crashes>>

Slip_RemovedAnyway ==
  /\ syn.pc = "asking"
  /\ Proceed(entries, [syn EXCEPT !.remove = @ \cup syn.clusters[syn.at]],
             syn.at + 1)
  /\ UNCHANGED <<solved, disturbed, crashes>>

\* The generalist raises or answers nothing: the cluster is left alone.
GeneralistFails ==
  /\ syn.pc = "asking"
  /\ Proceed(entries, syn, syn.at + 1)
  /\ UNCHANGED <<solved, disturbed, crashes>>

Master(kind) ==
  [of |-> syn.batch, class |-> syn.class, kind |-> kind,
   score |-> IF kind = "proven" THEN 1 ELSE 0, uses |-> 0]

\* The master is stored and the whole cluster marked for removal.
Distilled(kind) ==
  /\ Proceed(Stored(entries, Master(kind)),
             [syn EXCEPT !.remove = @ \cup syn.clusters[syn.at],
                         !.sources = @ \cup syn.batch],
             syn.at + 1)
  /\ disturbed' = (disturbed \/ Full(entries))
  /\ UNCHANGED <<solved, crashes>>

\* With a verification_context in every child the master is verified against
\* them (another await), otherwise it is stored at once as it is.
GeneralistAnswers ==
  /\ syn.pc = "asking"
  /\ IF syn.ctx
     THEN /\ syn' = [syn EXCEPT !.pc = "proving"]
          /\ UNCHANGED <<entries, solved, disturbed, crashes>>
     ELSE Distilled("rule")

ProofEnds(ok) ==
  /\ syn.pc = "proving"
  /\ Distilled(IF ok THEN "proven" ELSE "rule")

----------------------------------------------------------------------------
\* The process stops and _load() reads the file, without unverified entries.
Restart ==
  /\ crashes < MaxCrashes
  /\ crashes' = crashes + 1
  /\ entries' = At(entries, {i \in DOMAIN entries : Trusted(entries[i])})
  /\ syn' = Idle
  /\ disturbed' = (disturbed \/ syn # Idle)
  /\ UNCHANGED solved

Next ==
  \/ \E c \in Classes, s \in Scores : Solve(c, s)
  \/ \E S \in SUBSET DOMAIN entries : Retrieve(S)
  \/ SynthBegin
  \/ GeneralistFails
  \/ GeneralistAnswers
  \/ \E ok \in BOOLEAN : ProofEnds(ok)
  \/ Restart

Spec == Init /\ [][Next]_vars

----------------------------------------------------------------------------
(* Properties.                                                             *)

\* Type invariant; "max_entries" bounds the store.
TypeOK ==
  /\ entries \in Seq(Entry) /\ Len(entries) <= MaxEntries
  /\ solved \in 0..MaxSolved
  /\ syn.pc \in {"idle", "asking", "proving"}
  /\ syn.clusters \in Seq(SUBSET (1..MaxEntries))
  /\ syn.at \in 0..Len(syn.clusters)
  /\ syn.batch \subseteq 1..solved /\ syn.sources \subseteq 1..solved
  /\ syn.remove \subseteq 1..MaxEntries
  /\ disturbed \in BOOLEAN
  /\ crashes \in 0..MaxCrashes

Holding(es, kinds) == UNION {es[i].of : i \in {j \in DOMAIN es : es[j].kind \in kinds}}
Kinds == {"solved", "rule", "proven"}

\* synthesize_trajectories() compresses, it does not forget: a solution whose
\* raw entry it removes is one that a stored master was distilled from.
NoDataLoss ==
  [][syn' # syn /\ crashes' = crashes /\ ~disturbed'
       => Holding(entries, {"solved"}) \subseteq Holding(entries', Kinds)]_vars

\* What the generalist was shown in this synthesis.
Shown == syn.sources \cup syn.batch

\* "Remove all synthesized-from entries in one batch": a solution whose raw
\* entry the generalist was not shown keeps that entry.  Only raw entries are
\* meant: clusters are removed whole, the old masters in them too.
OnlySourcesRemoved ==
  [][syn' = Idle /\ syn.pc # "idle" /\ crashes' = crashes /\ ~disturbed'
       => Holding(entries, {"solved"}) \ Holding(entries', {"solved"}) \subseteq Shown]_vars

\* The places of the clusters of which the generalist was shown a solution.
Redone ==
  UNION {syn.clusters[m] : m \in {n \in DOMAIN syn.clusters :
           \E i \in syn.clusters[n] : entries[i].kind = "solved" /\ entries[i].of \subseteq Shown}}

\* Solutions of which nothing is left after a synthesis were held by old masters
\* (they are skipped when the prompt is built, and removed with their cluster),
\* and only by those of clusters that got a new one.
OnlyMastersReplaced ==
  [][syn' = Idle /\ syn.pc # "idle" /\ crashes' = crashes /\ ~disturbed'
       => Holding(entries, Kinds) \ Holding(entries', Kinds)
            \subseteq UNION {entries[i].of : i \in {j \in Redone : entries[j].kind # "solved"}}]_vars

\* What the loop does not promise, and what fails: that what an old master was
\* distilled from outlives the synthesis that removes it.
MastersKept ==
  [][syn' # syn /\ crashes' = crashes /\ ~disturbed'
       => Holding(entries, Kinds) \subseteq Holding(entries', Kinds)]_vars

\* No solution is in the store twice, raw and distilled or distilled twice,
\* once a synthesis is over.
DistilledOnce ==
  /\ TypeOK
  /\ syn.pc = "idle" /\ ~disturbed =>
       \A i, j \in DOMAIN entries : i # j => entries[i].of \cap entries[j].of = {}
===============================================================================
