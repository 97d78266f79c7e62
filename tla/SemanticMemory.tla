----------------------------- MODULE SemanticMemory -----------------------------
(***************************************************************************)
(* One of the two semantic memories of the process (persistent_cache:       *)
(* CLRResultCache, kind "clr", or VerifiedTrajectoryStore, kind "traj"):    *)
(* its entries in memory, the JSON file, the vectors mirrored to AgentDB    *)
(* (vector_store: AgentDBVectorStore), and the two tools that move the      *)
(* memory to AgentDB for good: agentdb_migration (backfill) and             *)
(* "rfsn_cli.py finalize-migration" (cut-over: the file is archived).       *)
(*                                                                          *)
(* The code of the process is synchronous: between two steps of it only the *)
(* tools, AgentDB and a crash can act.  A save replaces the file by one     *)
(* rename.  Of an entry the model keeps its number, its problem, whether a  *)
(* verifier vouched for it, its score and its uses.  The operator names the *)
(* collection of the memory to the tools (their default is another one,     *)
(* which no process reads).                                                 *)
(***************************************************************************)
EXTENDS Naturals, Sequences, FiniteSets, Listing

CONSTANTS
  Problems,    \* queries
  Near,        \* pairs {p, q} that are alike, but below similarity_threshold
  Scores,
  MaxEntries,  \* max_entries
  MaxFewShot,  \* max_few_shot
  MaxInserts,  \* bound: insertions
  MaxUses,     \* bound: uses of one entry
  MaxStarts,   \* bound: starts of the process
  MaxFaults,   \* bound: saves and loads that fail, outages of AgentDB
  MaxTools     \* bound: calls of the migration tools

VARIABLES
  kind,    \* which of the two memories
  conf,    \* "down", or how the process was started: without embeddings
           \* ("bare"), without AgentDB ("local"), with --agentdb-url
           \* ("mirror"), and with --agentdb-only ("only")
  cache,   \* self.entries
  file,    \* the JSON file
  bak,     \* the archive the cut-over makes of it
  mirror,  \* the vector the process is about to upsert
  db,      \* the memory's collection in AgentDB: vector id to vector
  dbUp,
  tool,    \* the migration tool at work
  served,  \* history: what the last step answered from the memory
  lasting, \* history: numbers of the entries saved and not evicted
  gap,     \* history: AgentDB missed a vector, or positions have changed
  unread,  \* history: the file could not be read at a start
  made, starts, faults, tools

process == <<conf, cache, mirror>>
disk    == <<file, bak>>
agentdb == <<db, dbUp>>
history == <<served, lasting, gap, unread>>
counts  == <<made, starts, faults, tools>>
vars == <<kind, process, disk, agentdb, tool, history, counts>>

Ids   == 0..(MaxEntries - 1)
Entry == [no : 1..MaxInserts, q : Problems, verified : BOOLEAN,
          score : Scores, emb : BOOLEAN, uses : 0..MaxUses]
\* "full": the metadata has the fields the trust check asks for.
Vector   == [no : 1..MaxInserts, q : Problems, verified : BOOLEAN, full : BOOLEAN]
NoVector == [no |-> 0]
NoFile   == [there |-> FALSE, entries |-> <<>>]
File(es) == [there |-> TRUE, entries |-> es]
NoTool   == [pc |-> "idle", snap |-> <<>>, at |-> 0]
NoUpsert == [id |-> MaxEntries]

\* How the process may be started; self.similarity_mode follows from it.
Confs == {"bare", "local", "mirror", "only"}

Nos(es) == {es[i].no : i \in DOMAIN es}
Lesser(m, n)  == IF m < n THEN m ELSE n
Greater(m, n) == IF m < n THEN n ELSE m

Init ==
  /\ kind \in {"clr", "traj"}
  /\ conf = "down" /\ cache = <<>> /\ mirror = NoUpsert
  /\ file = NoFile /\ bak = NoFile
  /\ db = [i \in Ids |-> NoVector]
  /\ dbUp = TRUE
  /\ tool = NoTool
  /\ served = {} /\ lasting = {} /\ gap = FALSE /\ unread = FALSE
  /\ made = 0 /\ starts = 0 /\ faults = 0 /\ tools = 0

----------------------------------------------------------------------------
(* The memory.                                                              *)

\* The process runs and is not in the middle of an insertion.
Free == conf # "down" /\ mirror = NoUpsert

\* Whether a save or a load succeeds.
DiskOutcomes == {TRUE} \cup (IF faults < MaxFaults THEN {FALSE} ELSE {})

Sim(p, q) == IF p = q THEN 2 ELSE IF {p, q} \in Near THEN 1 ELSE 0

\* similarity_threshold of the cache, retrieval_threshold of the store
Threshold == IF kind = "clr" THEN 2 ELSE 1

\* A lookup answers with one entry, a retrieval with up to max_few_shot.
Wanted == IF kind = "clr" THEN 1 ELSE MaxFewShot

\* Mutant: the check of "verified" dropped.
Slip_TrustAll(e) == TRUE

\* is_cache_entry_trustworthy()
Trustworthy(e) == e.verified

\* Without a model, or with one entry that has no embedding, there is no
\* matrix to search: only the same problem matches.
Semantic == conf # "bare" /\ \A i \in DOMAIN cache : cache[i].emb

Matches(q) ==
  {i \in DOMAIN cache :
     /\ Trustworthy(cache[i])
     /\ IF Semantic THEN Sim(cache[i].q, q) >= Threshold ELSE cache[i].q = q}

\* The positions S are those a search over C takes: nearest first, and in
\* order of position where no similarity decides.
Nearest(S, C, q) ==
  /\ S \subseteq C /\ Cardinality(S) = Lesser(Wanted, Cardinality(C))
  /\ \A i \in S, j \in C \ S :
       \/ Sim(cache[i].q, q) > Sim(cache[j].q, q)
       \/ Sim(cache[i].q, q) = Sim(cache[j].q, q) /\ (Semantic \/ i < j)

Answer(e, q) == [asked |-> q, q |-> e.q, verified |-> e.verified]

\* lookup(), retrieve(): the uses of what is found are counted and saved; when
\* the save raises, so does the lookup.
Lookup(q) ==
  /\ Free /\ conf # "only"
  /\ \E S \in SUBSET Matches(q), ok \in DiskOutcomes :
       /\ S # {} /\ Nearest(S, Matches(q), q)
       /\ \A i \in S : cache[i].uses < MaxUses
       /\ cache' = [i \in DOMAIN cache |->
            IF i \in S THEN [cache[i] EXCEPT !.uses = @ + 1] ELSE cache[i]]
       /\ file' = IF ok THEN File(cache') ELSE file
       /\ served' = IF ok THEN {Answer(cache[i], q) : i \in S} ELSE {}
       /\ lasting' = IF ok THEN lasting \cup Nos(cache) ELSE lasting
       /\ faults' = IF ok THEN faults ELSE faults + 1
  /\ UNCHANGED <<kind, conf, mirror, bak, agentdb, tool, gap, unread,
                 made, starts, tools>>

\* What AgentDB returns for q, nearest first, whatever its metadata says.
Hits(S, q) ==
  LET C == {i \in Ids : db[i] # NoVector} IN
  /\ S \subseteq C /\ Cardinality(S) = Lesser(Wanted, Cardinality(C))
  /\ \A i \in S, j \in C \ S : Sim(db[i].q, q) >= Sim(db[j].q, q)

\* lookup(), retrieve() with --agentdb-only: no use is counted.
LookupVectors(q) ==
  /\ Free /\ conf = "only" /\ dbUp
  /\ \E S \in SUBSET Ids :
       /\ Hits(S, q)
       /\ served' = {Answer(db[i], q) : i \in {j \in S :
            /\ Sim(db[j].q, q) >= Threshold
            /\ db[j].full /\ Trustworthy(db[j])}}
  /\ served' # {}
  /\ UNCHANGED <<kind, process, disk, agentdb, tool, lasting, gap,
                 unread, counts>>

\* Positions of es, most used first, then by score (stable).
Ahead(es, i, j) ==
  \/ es[i].uses > es[j].uses
  \/ es[i].uses = es[j].uses /\ es[i].score > es[j].score
  \/ es[i].uses = es[j].uses /\ es[i].score = es[j].score /\ i < j

Ranking(es) ==
  Listed(DOMAIN es, {p \in Pairs(DOMAIN es) : Ahead(es, p[1], p[2])})

Evict(es) ==
  IF Len(es) <= MaxEntries THEN es
  ELSE LET best == Ranking(es) IN [r \in 1..MaxEntries |-> es[best[r]]]

\* Mutant: the position of the entry that follows.
Slip_NextId(es) == Lesser(Len(es), MaxEntries - 1)

\* The id of the vector of the entry inserted last (also when it has just
\* been evicted, and whatever entry stands there now).
VectorId(es) == Len(es) - 1

\* The metadata of the cache lack claim_count, those of the store have it.
Mirrored(e, es) ==
  [id |-> VectorId(es),
   vec |-> [no |-> e.no, q |-> e.q, verified |-> e.verified, full |-> kind = "traj"]]

\* The store takes verified solutions only, and none without a model.
Storable(verified) == kind = "traj" => verified /\ conf # "bare"

NewEntry(q, verified, score) ==
  [no |-> made + 1, q |-> q, verified |-> verified, score |-> score,
   emb |-> conf # "bare", uses |-> 0]

\* insert(), store(), up to the upsert.
Insert(q, verified, score) ==
  /\ Free /\ made < MaxInserts
  /\ Storable(verified)
  /\ LET e == NewEntry(q, verified, score)
         kept == Evict(Append(cache, e))
         lost == Nos(Append(cache, e)) \ Nos(kept)
     IN  \E ok \in DiskOutcomes :
       /\ cache' = kept
       /\ file' = IF ok THEN File(kept) ELSE file
       /\ lasting' = (IF ok THEN lasting \cup Nos(kept) ELSE lasting) \ lost
       /\ mirror' = IF ok /\ conf \in {"mirror", "only"} THEN Mirrored(e, kept)
                    ELSE NoUpsert
       /\ gap' = (gap \/ lost # {} \/ mirror' = NoUpsert)
       /\ faults' = IF ok THEN faults ELSE faults + 1
  /\ made' = made + 1
  /\ served' = {}
  /\ UNCHANGED <<kind, conf, bak, agentdb, tool, unread,
                 starts, tools>>

\* AgentDBVectorStore.upsert(): a failure is silent.
Upsert ==
  /\ mirror # NoUpsert
  /\ db' = IF dbUp THEN [db EXCEPT ![mirror.id] = mirror.vec] ELSE db
  /\ mirror' = NoUpsert
  /\ gap' = (gap \/ ~dbUp)
  /\ served' = {}
  /\ UNCHANGED <<kind, conf, cache, disk, dbUp, tool, lasting, unread, counts>>

\* _load_json(): a file that cannot be read counts as none.
Loaded(ok) == IF ok THEN file.entries ELSE <<>>

\* The process starts and _load() reads the file.
Start(c) ==
  /\ conf = "down" /\ starts < MaxStarts
  /\ conf' = c
  /\ \E ok \in DiskOutcomes :
       /\ ok \/ file.there
       /\ cache' = Loaded(ok)
       /\ unread' = (unread \/ ~ok)
       /\ faults' = IF ok THEN faults ELSE faults + 1
  /\ starts' = starts + 1
  /\ served' = {}
  /\ UNCHANGED <<kind, mirror, disk, agentdb, tool, lasting, gap,
                 made, tools>>

\* The process is stopped or killed.
Stop ==
  /\ conf # "down"
  /\ conf' = "down" /\ cache' = <<>> /\ mirror' = NoUpsert
  /\ gap' = (gap \/ mirror # NoUpsert)
  /\ served' = {}
  /\ UNCHANGED <<kind, disk, agentdb, tool, lasting, unread, counts>>

----------------------------------------------------------------------------
(* AgentDB, as its client sees it.                                          *)

Outage ==
  /\ dbUp /\ faults < MaxFaults
  /\ dbUp' = FALSE
  /\ faults' = faults + 1
  /\ served' = {}
  /\ UNCHANGED <<kind, process, disk, db, tool, lasting, gap, unread,
                 made, starts, tools>>

Recover ==
  /\ ~dbUp
  /\ dbUp' = TRUE
  /\ served' = {}
  /\ UNCHANGED <<kind, process, disk, db, tool, lasting, gap, unread, counts>>

----------------------------------------------------------------------------
(* The migration tools.                                                     *)

\* _load_cache_entries(): those with an embedding.
Embedded(es) == At(es, {i \in DOMAIN es : es[i].emb})

\* A tool begins once check_agentdb_reachable() has found AgentDB.
ToolBegins ==
  /\ tool = NoTool /\ tools < MaxTools /\ dbUp
  /\ tools' = tools + 1
  /\ served' = {}
  /\ UNCHANGED <<kind, process, disk, agentdb, lasting, gap, unread,
                 made, starts, faults>>

BackfillBegins ==
  /\ ToolBegins
  /\ file.there /\ Embedded(file.entries) # <<>>
  /\ tool' = [pc |-> "backfill", snap |-> Embedded(file.entries), at |-> 0]

\* _extract_clr_metadata(), _extract_trajectory_metadata(): without the fields
\* the trust check asks for.
Migrated(e) == [no |-> e.no, q |-> e.q, verified |-> e.verified, full |-> FALSE]

\* backfill(), one entry; the upsert that is lost counts as done.
BackfillEntry ==
  /\ tool.pc = "backfill"
  /\ db' = IF dbUp THEN [db EXCEPT ![tool.at] = Migrated(tool.snap[tool.at + 1])]
           ELSE db
  /\ tool' = IF tool.at + 1 = Len(tool.snap) THEN NoTool
             ELSE [tool EXCEPT !.at = @ + 1]
  /\ served' = {}
  /\ UNCHANGED <<kind, process, disk, dbUp, lasting, gap, unread, counts>>

\* What a LocalVectorStore of the n entries of the file finds: top_k exceeds n.
LocalHits(n) == {i \in Ids : i < n}

\* verify_recall(): every search finds at least half of the ids 0..n-1 of the
\* file's entries (rounded down, but one) in AgentDB; an id is all it compares.
RecallPasses ==
  LET n == Len(Embedded(file.entries))
      known == {i \in LocalHits(n) : db[i] # NoVector}
  IN  n > 0 /\ Cardinality(known) >= Greater(1, n \div 2)

\* finalize-migration, up to the decision (with --force: whatever the recall).
FinalizeBegins(force) ==
  /\ ToolBegins
  /\ tool' = IF RecallPasses \/ force THEN [NoTool EXCEPT !.pc = "archive"]
             ELSE NoTool

\* Mutant: an archive that is there is replaced.
Slip_Rearchive ==
  /\ tool.pc = "archive"
  /\ tool' = NoTool
  /\ IF file.there THEN bak' = file /\ file' = NoFile ELSE UNCHANGED disk
  /\ served' = {}
  /\ UNCHANGED <<kind, process, agentdb, lasting, gap, unread, counts>>

\* finalize-migration renames the file, unless an archive is there.
Archive ==
  /\ tool.pc = "archive"
  /\ tool' = NoTool
  /\ IF file.there /\ ~bak.there THEN bak' = file /\ file' = NoFile
     ELSE UNCHANGED disk
  /\ served' = {}
  /\ UNCHANGED <<kind, process, agentdb, lasting, gap, unread, counts>>

----------------------------------------------------------------------------

Next ==
  \/ \E q \in Problems : Lookup(q) \/ LookupVectors(q)
  \/ \E q \in Problems, v \in BOOLEAN, s \in Scores : Insert(q, v, s)
  \/ Upsert
  \/ \E c \in Confs : Start(c)
  \/ Stop
  \/ Outage \/ Recover
  \/ BackfillBegins \/ BackfillEntry
  \/ \E force \in BOOLEAN : FinalizeBegins(force)
  \/ Archive

Spec == Init /\ [][Next]_vars

----------------------------------------------------------------------------
(* Properties.                                                              *)

TypeOK ==
  /\ conf \in Confs \cup {"down"}
  /\ cache \in Seq(Entry) /\ Len(cache) <= MaxEntries
  /\ file.entries \in Seq(Entry) /\ bak.entries \in Seq(Entry)
  /\ \A i \in Ids : db[i] \in Vector \cup {NoVector}

\* Whatever the way an answer took (memory, file and restart, AgentDB, a
\* backfill), a memory answers only with what a verifier vouched for when it was
\* inserted, and for a problem within its own threshold of the one asked.
OnlyVerifiedServed ==
  TypeOK /\ \A a \in served : a.verified /\ Sim(a.q, a.asked) >= Threshold

\* An entry that has been saved and not evicted is in the file or in the archive
\* of the cut-over, whatever crashes, restarts, failed saves and migrations
\* follow; unless a start could not read the file: it begins with an empty
\* memory, and the next save replaces the file.
NothingLost ==
  ~unread => lasting \subseteq Nos(file.entries) \cup Nos(bak.entries)

\* AgentDB has each entry in memory under the entry's position, until something
\* the code does not follow up happens: an eviction (it moves the positions), an
\* insertion without AgentDB, an upsert it lost, or a crash before the upsert.
MirrorFaithful ==
  ~gap /\ ~unread =>
    \A i \in DOMAIN cache :
      mirror.id = i - 1 \/ db[i - 1].no = cache[i].no

\* With --agentdb-only AgentDB is the authoritative index: a vector is replaced
\* only by one of the same entry, or when its entry has been evicted.
VectorsSurvive ==
  [][\A i \in Ids :
       conf = "only" /\ db[i] # NoVector /\ db'[i] # db[i]
         => \/ db'[i].no = db[i].no
            \/ db[i].no \notin lasting]_vars
===============================================================================
