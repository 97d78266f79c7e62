------------------------------ MODULE StoresProofs ------------------------------
(***************************************************************************)
(* Proofs about Stores: the memories answer with what was verified, lose    *)
(* nothing and agree with AgentDB; a synthesis forgets nothing; the audit   *)
(* log verifies exactly when it is whole, and only corrections change what  *)
(* it says of the past.                                                     *)
(***************************************************************************)
EXTENDS Stores, SequenceTheorems, FiniteSetTheorems, WellFoundedInduction, TLAPS

-------------------------------------------------------------------------------
(***************************************************************************)
(* Lists.                                                                   *)
(***************************************************************************)

\* Of two different members of S one comes before the other.
Orders(before, S) ==
  /\ \A i \in S : <<i, i>> \notin before
  /\ \A i, j, k \in S : <<i, j>> \in before /\ <<j, k>> \in before => <<i, k>> \in before
  /\ \A i, j \in S : i # j => <<i, j>> \in before \/ <<j, i>> \in before

\* The numbers up to n are n.
LEMMA UpTo ==
  ASSUME NEW n \in Nat
  PROVE  IsFiniteSet(1..n) /\ Cardinality(1..n) = n
<1> DEFINE a == 1
           b == n
<1>1. a \in Int /\ b \in Int
  OBVIOUS
<1> HIDE DEF a, b
<1>2. IsFiniteSet(a..b) /\ Cardinality(a..b) = IF a > b THEN 0 ELSE b - a + 1
  BY <1>1, FS_Interval
<1> QED BY <1>2 DEF a, b

\* How many members of S come before i.
Earlier(S, before, i) == Cardinality({j \in S : <<j, i>> \in before})

\* Every number up to that of the members is taken.
AllCounted(S, before) ==
  \A n \in 1..Cardinality(S) : \E i \in S : Earlier(S, before, i) = n - 1

\* The list has all members of S.
Covers(list, S) == \A i \in S : \E n \in 1..Cardinality(S) : list[n] = i

\* An ordered finite set has one member for each number of earlier ones.
LEMMA EarlierCounts ==
  ASSUME NEW S, IsFiniteSet(S), NEW before, Orders(before, S)
  PROVE  /\ \A i \in S : Earlier(S, before, i) \in 0..(Cardinality(S) - 1)
         /\ \A i, k \in S :
              <<i, k>> \in before => Earlier(S, before, i) < Earlier(S, before, k)
         /\ \A i, k \in S : Earlier(S, before, i) = Earlier(S, before, k) => i = k
         /\ AllCounted(S, before)
<1> DEFINE Those(i) == {j \in S : <<j, i>> \in before}
<1>0. Cardinality(S) \in Nat
  BY FS_CardinalityType
<1>1. ASSUME NEW i \in S
      PROVE  /\ Those(i) \in SUBSET S /\ IsFiniteSet(Those(i)) /\ i \notin Those(i)
             /\ Earlier(S, before, i) = Cardinality(Those(i))
             /\ Earlier(S, before, i) \in Nat
             /\ Earlier(S, before, i) < Cardinality(S)
  <2>1. Those(i) \in SUBSET S /\ i \notin Those(i)
    BY DEF Orders
  <2>2. Earlier(S, before, i) = Cardinality(Those(i))
    BY DEF Earlier
  <2> HIDE DEF Those
  <2>3. /\ IsFiniteSet(Those(i)) /\ Cardinality(Those(i)) \in Nat
        /\ Cardinality(Those(i)) <= Cardinality(S)
        /\ Cardinality(S) = Cardinality(Those(i)) => S = Those(i)
    BY <2>1, FS_Subset, FS_CardinalityType
  <2>4. Cardinality(Those(i)) # Cardinality(S)
    BY <2>1, <2>3
  <2> QED BY <1>0, <2>1, <2>2, <2>3, <2>4
<1>2. ASSUME NEW i \in S, NEW k \in S, <<i, k>> \in before
      PROVE  Earlier(S, before, i) < Earlier(S, before, k)
  <2>1. Those(i) \in SUBSET Those(k) /\ i \in Those(k) /\ i \notin Those(i)
    BY <1>2 DEF Orders
  <2>2. /\ IsFiniteSet(Those(k))
        /\ Earlier(S, before, i) = Cardinality(Those(i)) /\ Earlier(S, before, i) \in Nat
        /\ Earlier(S, before, k) = Cardinality(Those(k)) /\ Earlier(S, before, k) \in Nat
    BY <1>1
  <2> HIDE DEF Those
  <2>3. Cardinality(Those(i)) <= Cardinality(Those(k)) /\ Cardinality(Those(i)) # Cardinality(Those(k))
    BY <2>1, <2>2, FS_Subset
  <2> QED BY <2>2, <2>3
<1>3. ASSUME NEW i \in S, NEW k \in S, i # k
      PROVE  Earlier(S, before, i) # Earlier(S, before, k)
  <2>1. <<i, k>> \in before \/ <<k, i>> \in before
    BY <1>3 DEF Orders
  <2>2. Earlier(S, before, i) \in Nat /\ Earlier(S, before, k) \in Nat
    BY <1>1
  <2> QED BY <1>2, <2>1, <2>2
<1> DEFINE T == 1..Cardinality(S)
           f == [i \in S |-> Earlier(S, before, i) + 1]
<1>4. IsFiniteSet(T) /\ Cardinality(T) = Cardinality(S)
  BY <1>0, UpTo
<1>5. \A i \in S : Earlier(S, before, i) \in Nat /\ Earlier(S, before, i) < Cardinality(S)
  BY <1>1
<1>6. f \in Injection(S, T)
  <2>1. f \in [S -> T]
    BY <1>0, <1>5
  <2>2. \A i, k \in S : f[i] = f[k] => i = k
    BY <1>3, <1>5
  <2> QED BY <2>1, <2>2 DEF Injection, IsInjective
<1> HIDE DEF f, T
<1>7. f \in Surjection(S, T)
  BY <1>4, <1>6, FS_Injection
<1>8. \A n \in T : \E i \in S : f[i] = n
  BY <1>7 DEF Surjection
<1>9. \A n \in 1..Cardinality(S) : \E i \in S : Earlier(S, before, i) = n - 1
  <2> TAKE n \in 1..Cardinality(S)
  <2>1. PICK i \in S : f[i] = n
    BY <1>8 DEF T
  <2> QED BY <1>5, <2>1 DEF f
<1> QED BY <1>0, <1>2, <1>3, <1>5, <1>9 DEF AllCounted

\* A list that has at n a member with n - 1 earlier ones.
LEMMA CountedList ==
  ASSUME NEW S, IsFiniteSet(S), NEW before, Orders(before, S),
         NEW l \in [1..Cardinality(S) -> S],
         \A n \in 1..Cardinality(S) : Earlier(S, before, l[n]) = n - 1
  PROVE  /\ \A m, n \in 1..Cardinality(S) : <<l[m], l[n]>> \in before <=> m < n
         /\ \A m, n \in 1..Cardinality(S) : l[m] = l[n] => m = n
         /\ Covers(l, S)
<1>0. Cardinality(S) \in Nat
  BY FS_CardinalityType
<1>2. \A n \in 1..Cardinality(S) : l[n] \in S /\ Earlier(S, before, l[n]) = n - 1
  OBVIOUS
<1>4. \A m, n \in 1..Cardinality(S) : l[m] = l[n] => m = n
  BY <1>0, <1>2
<1>5. Covers(l, S)
  <2> SUFFICES ASSUME NEW i \in S PROVE \E n \in 1..Cardinality(S) : l[n] = i
    BY DEF Covers
  <2>1. Earlier(S, before, i) \in 0..(Cardinality(S) - 1)
    BY EarlierCounts
  <2>2. Earlier(S, before, i) + 1 \in 1..Cardinality(S)
    BY <1>0, <2>1
  <2>3. /\ l[Earlier(S, before, i) + 1] \in S
        /\ Earlier(S, before, l[Earlier(S, before, i) + 1]) = Earlier(S, before, i)
    BY <1>2, <2>1, <2>2
  <2>4. l[Earlier(S, before, i) + 1] = i
    BY <2>3, EarlierCounts
  <2> QED BY <2>2, <2>4
<1>6. ASSUME NEW m \in 1..Cardinality(S), NEW n \in 1..Cardinality(S)
      PROVE  <<l[m], l[n]>> \in before <=> m < n
  <2>1. /\ l[m] \in S /\ l[n] \in S
        /\ Earlier(S, before, l[m]) = m - 1 /\ Earlier(S, before, l[n]) = n - 1
    BY <1>2
  <2>2. <<l[m], l[n]>> \in before => Earlier(S, before, l[m]) < Earlier(S, before, l[n])
    BY <2>1, EarlierCounts
  <2>3. <<l[n], l[m]>> \in before => Earlier(S, before, l[n]) < Earlier(S, before, l[m])
    BY <2>1, EarlierCounts
  <2>4. l[m] # l[n] => <<l[m], l[n]>> \in before \/ <<l[n], l[m]>> \in before
    BY <2>1 DEF Orders
  <2>5. m < n => l[m] # l[n]
    BY <2>1
  <2> QED BY <2>1, <2>2, <2>3, <2>4, <2>5
<1> QED BY <1>4, <1>5, <1>6

\* The list of an ordered finite set has each member once, in the order.
LEMMA ListedFacts ==
  ASSUME NEW S, IsFiniteSet(S), NEW before, Orders(before, S)
  PROVE  /\ Cardinality(S) \in Nat
         /\ Listed(S, before) \in [1..Cardinality(S) -> S]
         /\ \A m, n \in 1..Cardinality(S) :
              <<Listed(S, before)[m], Listed(S, before)[n]>> \in before <=> m < n
         /\ \A m, n \in 1..Cardinality(S) :
              Listed(S, before)[m] = Listed(S, before)[n] => m = n
         /\ Covers(Listed(S, before), S)
<1>0. Cardinality(S) \in Nat
  BY FS_CardinalityType
<1> DEFINE l == Listed(S, before)
<1>1. l = [n \in 1..Cardinality(S) |-> CHOOSE i \in S : Earlier(S, before, i) = n - 1]
  BY DEF Listed, Earlier
<1> HIDE DEF l
<1>2. \A n \in 1..Cardinality(S) : l[n] \in S /\ Earlier(S, before, l[n]) = n - 1
  <2> TAKE n \in 1..Cardinality(S)
  <2>1. \E i \in S : Earlier(S, before, i) = n - 1
    BY EarlierCounts DEF AllCounted
  <2> QED BY <1>1, <2>1
<1>3. l \in [1..Cardinality(S) -> S]
  BY <1>1, <1>2
<1>4. /\ \A m, n \in 1..Cardinality(S) : <<l[m], l[n]>> \in before <=> m < n
      /\ \A m, n \in 1..Cardinality(S) : l[m] = l[n] => m = n
      /\ Covers(l, S)
  BY <1>2, <1>3, CountedList
<1> QED BY <1>0, <1>3, <1>4 DEF l

\* The numbers of a finite set, from the least.
LEMMA AscendingFacts ==
  ASSUME NEW S, S \in SUBSET Nat, IsFiniteSet(S)
  PROVE  /\ Cardinality(S) \in Nat
         /\ Ascending(S) \in [1..Cardinality(S) -> S]
         /\ \A m, n \in 1..Cardinality(S) : Ascending(S)[m] < Ascending(S)[n] <=> m < n
         /\ \A m, n \in 1..Cardinality(S) : Ascending(S)[m] = Ascending(S)[n] => m = n
         /\ Covers(Ascending(S), S)
<1>0. Cardinality(S) \in Nat
  BY FS_CardinalityType
<1>1. PICK before : before = {p \in Pairs(S) : p[1] < p[2]}
  OBVIOUS
<1>2. \A i, j \in S : <<i, j>> \in before <=> i < j
  BY <1>1 DEF Pairs
<1>3. Orders(before, S)
  <2>1. \A i, j, k \in S : i < j /\ j < k => i < k
    OBVIOUS
  <2>2. \A i, j \in S : i # j => i < j \/ j < i
    OBVIOUS
  <2>3. \A i \in S : ~(i < i)
    OBVIOUS
  <2> QED BY <1>2, <2>1, <2>2, <2>3 DEF Orders
<1>4. \A i \in S : Cardinality({j \in S : j < i}) = Earlier(S, before, i)
  <2> TAKE i \in S
  <2>1. {j \in S : j < i} = {j \in S : <<j, i>> \in before}
    BY <1>2
  <2> QED BY <2>1 DEF Earlier
<1> DEFINE l == Ascending(S)
<1>5. l = [n \in 1..Cardinality(S) |-> CHOOSE i \in S : Cardinality({j \in S : j < i}) = n - 1]
  BY DEF Ascending
<1> HIDE DEF l
<1>6. \A n \in 1..Cardinality(S) : l[n] \in S /\ Earlier(S, before, l[n]) = n - 1
  <2> TAKE n \in 1..Cardinality(S)
  <2>0. AllCounted(S, before)
    BY <1>3, EarlierCounts
  <2>1. \E i \in S : Earlier(S, before, i) = n - 1
    BY <2>0 DEF AllCounted
  <2>2. \E i \in S : Cardinality({j \in S : j < i}) = n - 1
    BY <1>4, <2>1
  <2>3. l[n] \in S /\ Cardinality({j \in S : j < l[n]}) = n - 1
    BY <1>5, <2>2
  <2> QED BY <1>4, <2>3
<1>7. l \in [1..Cardinality(S) -> S]
  BY <1>5, <1>6
<1>8. /\ \A m, n \in 1..Cardinality(S) : <<l[m], l[n]>> \in before <=> m < n
      /\ \A m, n \in 1..Cardinality(S) : l[m] = l[n] => m = n
      /\ Covers(l, S)
  BY <1>3, <1>6, <1>7, CountedList
<1>9. \A m, n \in 1..Cardinality(S) : l[m] < l[n] <=> m < n
  BY <1>2, <1>6, <1>8
<1> QED BY <1>0, <1>7, <1>8, <1>9 DEF l

\* At keeps what stands at the places, in its order.
LEMMA AtFacts ==
  ASSUME NEW T, NEW list \in Seq(T), NEW places \in SUBSET DOMAIN list
  PROVE  /\ At(list, places) \in Seq(T)
         /\ Len(At(list, places)) = Cardinality(places)
         /\ DOMAIN At(list, places) = 1..Cardinality(places)
         /\ Cardinality(places) \in Nat /\ Cardinality(places) <= Len(list)
         /\ \E f \in [1..Cardinality(places) -> places] :
              /\ \A n \in 1..Cardinality(places) : At(list, places)[n] = list[f[n]]
              /\ \A m, n \in 1..Cardinality(places) : f[m] < f[n] <=> m < n
              /\ \A m, n \in 1..Cardinality(places) : f[m] = f[n] => m = n
              /\ Covers(f, places)
<1>1. Len(list) \in Nat /\ DOMAIN list = 1..Len(list)
  BY LenProperties
<1>2. IsFiniteSet(DOMAIN list) /\ Cardinality(DOMAIN list) = Len(list)
  BY <1>1, UpTo
<1>3. places \in SUBSET Nat /\ IsFiniteSet(places) /\ Cardinality(places) <= Len(list)
  BY <1>1, <1>2, FS_Subset
<1> DEFINE f == Ascending(places)
<1>4. /\ Cardinality(places) \in Nat
      /\ f \in [1..Cardinality(places) -> places]
      /\ \A m, n \in 1..Cardinality(places) : f[m] < f[n] <=> m < n
      /\ \A m, n \in 1..Cardinality(places) : f[m] = f[n] => m = n
      /\ Covers(f, places)
  BY <1>3, AscendingFacts
<1>5. \A i \in DOMAIN list : list[i] \in T
  BY <1>1, ElementOfSeq
<1>6. CASE places = DOMAIN list
  <2> DEFINE g == [n \in 1..Cardinality(places) |-> n]
  <2>1. At(list, places) = list
    BY <1>6 DEF At
  <2>2. Cardinality(places) = Len(list) /\ places = 1..Len(list)
    BY <1>1, <1>2, <1>6
  <2>3. g \in [1..Cardinality(places) -> places]
    BY <2>2
  <2>4. \A n \in 1..Cardinality(places) : g[n] = n
    OBVIOUS
  <2> HIDE DEF g
  <2>5. /\ \A n \in 1..Cardinality(places) : At(list, places)[n] = list[g[n]]
        /\ \A m, n \in 1..Cardinality(places) : g[m] < g[n] <=> m < n
        /\ \A m, n \in 1..Cardinality(places) : g[m] = g[n] => m = n
        /\ Covers(g, places)
    BY <2>1, <2>2, <2>4 DEF Covers
  <2> QED BY <1>1, <1>3, <1>4, <2>1, <2>2, <2>3, <2>5
<1>7. CASE places # DOMAIN list
  <2>1. At(list, places) = [n \in 1..Cardinality(places) |-> list[f[n]]]
    BY <1>4, <1>7 DEF At
  <2> HIDE DEF f
  <2>2. At(list, places) \in [1..Cardinality(places) -> T]
    BY <1>4, <1>5, <2>1
  <2>3. At(list, places) \in Seq(T) /\ DOMAIN At(list, places) = 1..Cardinality(places)
    BY <1>4, <2>2
  <2>4. Len(At(list, places)) = Cardinality(places)
    BY <1>4, <2>3, LenProperties
  <2>5. \A n \in 1..Cardinality(places) : At(list, places)[n] = list[f[n]]
    BY <2>1
  <2> QED BY <1>3, <1>4, <2>3, <2>4, <2>5
<1> QED BY <1>6, <1>7

-------------------------------------------------------------------------------
(***************************************************************************)
(* The semantic memories.                                                   *)
(***************************************************************************)

MemEntry == Memory!Entry
MemFile == [there : BOOLEAN, entries : Seq(MemEntry)]

\* The entries of es are the first of fs, as far as their numbers go.
Begins(es, fs) == Len(es) <= Len(fs) /\ \A i \in 1..Len(es) : es[i].no = fs[i].no

\* No number twice, none later than the last one given, all with embeddings.
Numbered(es) ==
  \A i, k \in 1..Len(es) :
    es[i].no <= made /\ es[i].emb /\ (es[i].no = es[k].no => i = k)

MemTypes ==
  /\ kind \in {"clr", "traj"}
  /\ conf \in Memory!Confs \cup {"down"}
  /\ cache \in Seq(MemEntry) /\ Len(cache) <= MemoryEntries
  /\ file \in MemFile /\ Len(file.entries) <= MemoryEntries
  /\ bak \in MemFile
  /\ db \in [Memory!Ids -> Memory!Vector \cup {Memory!NoVector}]
  /\ made \in 0..MaxInserts
  /\ tool \in [pc : {"idle", "backfill", "archive"}, snap : Seq(MemEntry), at : Nat]
  /\ tool.pc = "backfill" => tool.at < Len(tool.snap)
  /\ mirror # Memory!NoUpsert => mirror \in [id : Int, vec : Memory!Vector]

LEMMA MemSizes == MemoryEntries \in Nat /\ MaxUses \in Nat /\ MaxInserts \in Nat
BY StoresAssumption, TrajectoryStoreAssumption

\* What an entry has.
LEMMA EntryFields ==
  ASSUME NEW e \in MemEntry
  PROVE  /\ e.no \in 1..MaxInserts /\ e.q \in Problems /\ e.score \in Nat
         /\ e.uses \in 0..MaxUses
<1>1. e.no \in 1..MaxInserts /\ e.q \in Problems /\ e.score \in MemoryScores /\ e.uses \in 0..MaxUses
  BY DEF MemEntry, Memory!Entry
<1> QED BY <1>1, StoresAssumption

\* The entry of highest rank by uses and score, then by position.
LEMMA EvictFacts ==
  ASSUME NEW es \in Seq(MemEntry)
  PROVE  /\ Memory!Evict(es) \in Seq(MemEntry)
         /\ Len(Memory!Evict(es)) <= MemoryEntries
         /\ Len(es) <= MemoryEntries => Memory!Evict(es) = es
         /\ \A r \in 1..Len(Memory!Evict(es)) : \E i \in 1..Len(es) : Memory!Evict(es)[r] = es[i]
<1>1. Len(es) \in Nat /\ DOMAIN es = 1..Len(es) /\ MemoryEntries \in Nat
  BY LenProperties, StoresAssumption
<1>2. \A i \in 1..Len(es) : es[i] \in MemEntry
  BY <1>1, ElementOfSeq
<1>3. CASE Len(es) <= MemoryEntries
  BY <1>1, <1>3 DEF Memory!Evict
<1>4. CASE ~(Len(es) <= MemoryEntries)
  <2> DEFINE S == DOMAIN es
             before == {p \in Memory!Pairs(S) : Memory!Ahead(es, p[1], p[2])}
             best == Memory!Ranking(es)
  <2>1. \A i \in S : es[i].uses \in Nat /\ es[i].score \in Nat
    BY <1>1, <1>2, EntryFields, MemSizes
  <2>2. \A i, k \in S : <<i, k>> \in before <=> Memory!Ahead(es, i, k)
    BY DEF Memory!Pairs
  <2>3. Orders(before, S)
    <3> HIDE DEF before
    <3>1. \A i \in S : ~Memory!Ahead(es, i, i)
      BY <1>1, <2>1 DEF Memory!Ahead
    <3>2. \A i, j, k \in S : Memory!Ahead(es, i, j) /\ Memory!Ahead(es, j, k) => Memory!Ahead(es, i, k)
      BY <1>1, <2>1 DEF Memory!Ahead
    <3>3. \A i, j \in S : i # j => Memory!Ahead(es, i, j) \/ Memory!Ahead(es, j, i)
      BY <1>1, <2>1 DEF Memory!Ahead
    <3> QED BY <2>2, <3>1, <3>2, <3>3 DEF Orders
  <2>4. IsFiniteSet(S) /\ Cardinality(S) = Len(es)
    BY <1>1, UpTo
  <2>5. best = Listed(S, before)
    BY DEF Memory!Ranking, Memory!Listed, Listed, Memory!Cardinality, Cardinality
  <2> HIDE DEF before, best, S
  <2>6. best \in [1..Len(es) -> S]
    BY <2>3, <2>4, <2>5, ListedFacts
  <2> DEFINE kept == [r \in 1..MemoryEntries |-> es[best[r]]]
  <2>7. Memory!Evict(es) = kept
    BY <1>4 DEF Memory!Evict, best
  <2>8. \A r \in 1..MemoryEntries : best[r] \in 1..Len(es)
    BY <1>1, <1>4, <2>6 DEF S
  <2>9. kept \in [1..MemoryEntries -> MemEntry]
    BY <1>2, <2>8
  <2>10. kept \in Seq(MemEntry) /\ Len(kept) = MemoryEntries
    <3> HIDE DEF kept
    <3>1. kept \in Seq(MemEntry) /\ DOMAIN kept = 1..MemoryEntries
      BY <1>1, <2>9
    <3> QED BY <1>1, <3>1, LenProperties
  <2>11. \A r \in 1..MemoryEntries : kept[r] = es[best[r]]
    OBVIOUS
  <2> HIDE DEF kept
  <2> QED BY <1>1, <1>4, <2>7, <2>8, <2>10, <2>11
<1> QED BY <1>3, <1>4

-------------------------------------------------------------------------------
(* The inductive invariant of a memory.                                     *)

\* A process that is down has nothing in memory.
Resting == conf = "down" => cache = <<>> /\ mirror = Memory!NoUpsert

Archived == ~bak.there => bak.entries = <<>>

\* What was saved is on disk, and the next save will not take it from there.
Remembered ==
  ~unread =>
    /\ lasting \subseteq Memory!Nos(file.entries) \cup Memory!Nos(bak.entries)
    /\ conf # "down" => lasting \subseteq Memory!Nos(cache) \cup Memory!Nos(bak.entries)

NumbersKept == ~gap => Numbered(cache) /\ Numbered(file.entries)

\* AgentDB has the entries es but the one about to be sent.
Mirrors(es) ==
  \A i \in 1..Len(es) : mirror.id = i - 1 \/ db[i-1].no = es[i].no

\* The vector about to be sent is that of the last entry.
LastPending ==
  mirror # Memory!NoUpsert =>
    Len(cache) > 0 /\ mirror.id = Len(cache) - 1 /\ mirror.vec.no = cache[Len(cache)].no

\* Up to a gap the file is what the memory began with, and so is what a
\* back-fill copies; and AgentDB mirrors both.
Synced ==
  ~gap /\ ~unread =>
    /\ conf = "down" => Mirrors(file.entries)
    /\ conf # "down" => Begins(file.entries, cache)
    /\ Mirrors(cache)
    /\ tool.pc = "backfill" => Begins(tool.snap, file.entries)
    /\ LastPending

ServedWell == \A a \in served : a.verified /\ Memory!Sim(a.q, a.asked) >= Memory!Threshold

MemInv ==
  MemTypes /\ Resting /\ Archived /\ Remembered /\ NumbersKept /\ Synced /\ ServedWell

\* A list of entries by its numbers.
LEMMA NosFacts ==
  ASSUME NEW es \in Seq(MemEntry)
  PROVE  /\ Len(es) \in Nat /\ DOMAIN es = 1..Len(es)
         /\ \A i \in 1..Len(es) : es[i] \in MemEntry /\ es[i].no \in Memory!Nos(es)
         /\ \A n \in Memory!Nos(es) : \E i \in 1..Len(es) : es[i].no = n
<1>1. Len(es) \in Nat /\ DOMAIN es = 1..Len(es)
  BY LenProperties
<1>2. \A i \in 1..Len(es) : es[i] \in MemEntry
  BY <1>1, ElementOfSeq
<1> QED BY <1>1, <1>2 DEF Memory!Nos

\* Counting uses leaves the numbers.
LEMMA UsesCounted ==
  ASSUME NEW c \in Seq(MemEntry), NEW S \in SUBSET DOMAIN c,
         \A i \in S : c[i].uses < MaxUses
  PROVE  LET d == [i \in DOMAIN c |->
                     IF i \in S THEN [c[i] EXCEPT !.uses = @ + 1] ELSE c[i]]
         IN  /\ d \in Seq(MemEntry) /\ Len(d) = Len(c)
             /\ \A i \in 1..Len(c) : d[i].no = c[i].no /\ d[i].emb = c[i].emb
             /\ Memory!Nos(d) = Memory!Nos(c)
<1> DEFINE d == [i \in DOMAIN c |->
                   IF i \in S THEN [c[i] EXCEPT !.uses = @ + 1] ELSE c[i]]
<1>1. Len(c) \in Nat /\ DOMAIN c = 1..Len(c) /\ \A i \in 1..Len(c) : c[i] \in MemEntry
  BY NosFacts
<1>2. ASSUME NEW i \in 1..Len(c)
      PROVE  d[i] \in MemEntry /\ d[i].no = c[i].no /\ d[i].emb = c[i].emb
  <2>1. CASE i \in S
    <3>1. d[i] = [c[i] EXCEPT !.uses = @ + 1]
      BY <1>1, <2>1
    <3>2. c[i].uses \in 0..MaxUses /\ c[i].uses < MaxUses /\ MaxUses \in Nat
      BY <1>1, <2>1, EntryFields, MemSizes
    <3>3. c[i].uses + 1 \in 0..MaxUses
      BY <3>2
    <3> HIDE DEF d
    <3> QED BY <1>1, <3>1, <3>3 DEF MemEntry, Memory!Entry
  <2>2. CASE i \notin S
    BY <1>1, <2>2
  <2> QED BY <2>1, <2>2
<1>3. DOMAIN d = 1..Len(c)
  BY <1>1
<1> HIDE DEF d
<1>4. d \in [1..Len(c) -> MemEntry]
  <2>1. d = [i \in 1..Len(c) |-> d[i]]
    BY <1>1 DEF d
  <2> QED BY <1>2, <2>1
<1>5. d \in Seq(MemEntry) /\ Len(d) = Len(c)
  <2>1. d \in Seq(MemEntry)
    BY <1>1, <1>4
  <2> QED BY <1>1, <1>3, <2>1, LenProperties
<1>6. Memory!Nos(d) = Memory!Nos(c)
  BY <1>1, <1>2, <1>3 DEF Memory!Nos
<1> QED BY <1>2, <1>5, <1>6 DEF d

\* The parts of the invariant that follow from the variables they name.
LEMMA MemUnchanged ==
  ASSUME MemInv, UNCHANGED memoryVars
  PROVE  MemInv'
<1> USE DEF MemInv, memoryVars
<1>1. MemTypes'
  BY DEF MemTypes, Memory!NoUpsert, Memory!NoVector, Memory!Vector, Memory!Ids, Memory!Confs
<1>2. Resting' /\ Archived'
  BY DEF Resting, Archived, Memory!NoUpsert
<1>3. Remembered' /\ NumbersKept'
  BY DEF Remembered, NumbersKept, Numbered, Memory!Nos
<1>4. Synced'
  BY DEF Synced, Mirrors, LastPending, Memory!NoUpsert
<1>5. ServedWell'
  BY DEF ServedWell, Memory!Sim, Memory!Threshold
<1> QED BY <1>1, <1>2, <1>3, <1>4, <1>5

-------------------------------------------------------------------------------
(* The steps of a memory.                                                   *)

\* A look-up changes uses only.
LEMMA LookupStep ==
  ASSUME MemInv, NEW q \in Problems, Memory!Lookup(q)
  PROVE  MemInv'
<1> USE DEF MemInv
<1>1. PICK S \in SUBSET Memory!Matches(q), ok \in Memory!DiskOutcomes :
        /\ \A i \in S : cache[i].uses < MaxUses
        /\ cache' = [i \in DOMAIN cache |->
             IF i \in S THEN [cache[i] EXCEPT !.uses = @ + 1] ELSE cache[i]]
        /\ file' = IF ok THEN Memory!File(cache') ELSE file
        /\ served' = IF ok THEN {Memory!Answer(cache[i], q) : i \in S} ELSE {}
        /\ lasting' = IF ok THEN lasting \cup Memory!Nos(cache) ELSE lasting
  BY DEF Memory!Lookup
<1>2. /\ conf # "down" /\ mirror = Memory!NoUpsert
      /\ kind' = kind /\ conf' = conf /\ mirror' = mirror /\ bak' = bak /\ db' = db
      /\ tool' = tool /\ gap' = gap /\ unread' = unread /\ made' = made
  BY DEF Memory!Lookup, Memory!Free, Memory!agentdb
<1>3. S \in SUBSET DOMAIN cache
  BY DEF Memory!Matches
<1>4. /\ cache' \in Seq(MemEntry) /\ Len(cache') = Len(cache) /\ Len(cache) \in Nat
      /\ \A i \in 1..Len(cache) : cache'[i].no = cache[i].no /\ cache'[i].emb = cache[i].emb
      /\ Memory!Nos(cache') = Memory!Nos(cache)
  <2> DEFINE d == [i \in DOMAIN cache |->
                     IF i \in S THEN [cache[i] EXCEPT !.uses = @ + 1] ELSE cache[i]]
  <2>1. cache \in Seq(MemEntry) /\ \A i \in S : cache[i].uses < MaxUses
    BY <1>1 DEF MemTypes
  <2>2. cache' = d
    BY <1>1
  <2>3. /\ d \in Seq(MemEntry) /\ Len(d) = Len(cache)
        /\ \A i \in 1..Len(cache) : d[i].no = cache[i].no /\ d[i].emb = cache[i].emb
        /\ Memory!Nos(d) = Memory!Nos(cache)
    BY <1>3, <2>1, UsesCounted
  <2> HIDE DEF d
  <2> QED BY <2>1, <2>2, <2>3, LenProperties
<1>5. Memory!File(cache') \in MemFile /\ Memory!File(cache').entries = cache'
  BY <1>4 DEF Memory!File, MemFile
<1>6. /\ file' \in MemFile
      /\ file' = file \/ (file'.entries = cache' /\ Len(file'.entries) = Len(cache))
  BY <1>1, <1>4, <1>5 DEF MemTypes
<1>7. MemTypes'
  BY <1>2, <1>4, <1>6 DEF MemTypes, Memory!Confs, Memory!Ids, Memory!Vector, Memory!NoVector, Memory!NoUpsert
<1>8. Resting' /\ Archived'
  BY <1>2 DEF Resting, Archived
<1>9. Remembered'
  BY <1>1, <1>2, <1>4, <1>5 DEF Remembered
<1>10. NumbersKept'
  BY <1>2, <1>4, <1>6, SMTT(60) DEF NumbersKept, Numbered
<1>11. Synced'
  <2> SUFFICES ASSUME ~gap', ~unread' PROVE Synced'
    BY DEF Synced
  <2>1. /\ Begins(file.entries, cache) /\ Mirrors(cache)
        /\ tool.pc = "backfill" => Begins(tool.snap, file.entries)
        /\ ~gap /\ ~unread
    BY <1>2 DEF Synced
  <2>2. Begins(file'.entries, cache')
    BY <1>4, <1>6, <2>1 DEF Begins, MemTypes
  <2>3. Mirrors(cache)'
    BY <1>2, <1>4, <2>1 DEF Mirrors
  <2>4. ASSUME tool.pc = "backfill" PROVE Begins(tool.snap, file'.entries)
    <3>1. Begins(tool.snap, file.entries)
      BY <2>1, <2>4
    <3>2. CASE file' = file
      BY <3>1, <3>2
    <3>3. CASE file'.entries = cache'
      <4>1. Len(tool.snap) \in Nat /\ Len(file.entries) \in Nat
        BY LenProperties DEF MemTypes, MemFile
      <4> QED BY <1>4, <2>1, <3>1, <3>3, <4>1 DEF Begins
    <3> QED BY <1>6, <3>2, <3>3
  <2>5. LastPending'
    BY <1>2 DEF LastPending, Memory!NoUpsert
  <2> QED BY <1>2, <2>2, <2>3, <2>4, <2>5 DEF Synced
<1>12. ServedWell'
  <2>1. ASSUME NEW i \in S
        PROVE  Memory!Answer(cache[i], q).verified
               /\ Memory!Sim(Memory!Answer(cache[i], q).q, Memory!Answer(cache[i], q).asked)
                    >= Memory!Threshold
    <3>1. i \in Memory!Matches(q)
      OBVIOUS
    <3>2. Memory!Trustworthy(cache[i])
      BY <3>1 DEF Memory!Matches
    <3>3. Memory!Sim(cache[i].q, q) >= Memory!Threshold
      <4>1. CASE Memory!Semantic
        BY <3>1, <4>1 DEF Memory!Matches
      <4>2. CASE ~Memory!Semantic
        <5>1. cache[i].q = q
          BY <3>1, <4>2 DEF Memory!Matches
        <5> QED BY <5>1 DEF Memory!Sim, Memory!Threshold
      <4> QED BY <4>1, <4>2
    <3> QED BY <3>2, <3>3 DEF Memory!Answer, Memory!Trustworthy
  <2>2. \A a \in served' : \E i \in S : a = Memory!Answer(cache[i], q)
    BY <1>1
  <2>3. Memory!Threshold' = Memory!Threshold
    BY <1>2 DEF Memory!Threshold
  <2> QED BY <2>1, <2>2, <2>3 DEF ServedWell, Memory!Sim
<1> QED BY <1>7, <1>8, <1>9, <1>10, <1>11, <1>12

\* Only what is served has changed, and that as it should.
LEMMA OnlyServed ==
  ASSUME MemInv,
         kind' = kind, conf' = conf, cache' = cache, mirror' = mirror, file' = file, bak' = bak,
         db' = db, tool' = tool, lasting' = lasting, gap' = gap, unread' = unread, made' = made,
         ServedWell'
  PROVE  MemInv'
<1> USE DEF MemInv
<1>1. MemTypes'
  BY DEF MemTypes, Memory!NoUpsert, Memory!NoVector, Memory!Vector, Memory!Ids, Memory!Confs
<1>2. Resting' /\ Archived'
  BY DEF Resting, Archived, Memory!NoUpsert
<1>3. Remembered' /\ NumbersKept'
  BY DEF Remembered, NumbersKept, Numbered, Memory!Nos
<1>4. Synced'
  BY DEF Synced, Mirrors, LastPending, Memory!NoUpsert
<1> QED BY <1>1, <1>2, <1>3, <1>4

LEMMA LookupVectorsStep ==
  ASSUME MemInv, NEW q \in Problems, Memory!LookupVectors(q)
  PROVE  MemInv'
<1>1. PICK S \in SUBSET Memory!Ids :
        served' = {Memory!Answer(db[i], q) : i \in {j \in S :
            /\ Memory!Sim(db[j].q, q) >= Memory!Threshold
            /\ db[j].full /\ Memory!Trustworthy(db[j])}}
  BY DEF Memory!LookupVectors
<1>2. /\ kind' = kind /\ conf' = conf /\ cache' = cache /\ mirror' = mirror /\ file' = file
      /\ bak' = bak /\ db' = db /\ tool' = tool /\ lasting' = lasting /\ gap' = gap
      /\ unread' = unread /\ made' = made
  BY DEF Memory!LookupVectors, Memory!process, Memory!disk, Memory!agentdb, Memory!counts
<1>3. ASSUME NEW a \in served'
      PROVE  a.verified /\ Memory!Sim(a.q, a.asked) >= Memory!Threshold
  <2>1. PICK i \in S : /\ a = Memory!Answer(db[i], q)
                       /\ Memory!Sim(db[i].q, q) >= Memory!Threshold
                       /\ Memory!Trustworthy(db[i])
    BY <1>1
  <2> QED BY <2>1 DEF Memory!Answer, Memory!Trustworthy
<1>4. Memory!Threshold' = Memory!Threshold
  BY <1>2 DEF Memory!Threshold
<1>5. ServedWell'
  BY <1>3, <1>4 DEF ServedWell, Memory!Sim
<1> QED BY <1>2, <1>5, OnlyServed

LEMMA OutageStep ==
  ASSUME MemInv, Memory!Outage \/ Memory!Recover
  PROVE  MemInv'
<1>1. /\ kind' = kind /\ conf' = conf /\ cache' = cache /\ mirror' = mirror /\ file' = file
      /\ bak' = bak /\ db' = db /\ tool' = tool /\ lasting' = lasting /\ gap' = gap
      /\ unread' = unread /\ made' = made /\ served' = {}
  BY DEF Memory!Outage, Memory!Recover, Memory!process, Memory!disk, Memory!counts
<1>2. ServedWell'
  BY <1>1 DEF ServedWell
<1> QED BY <1>1, <1>2, OnlyServed

\* Numbers of a list that grows by one, and what remains when entries go.
LEMMA Appending ==
  ASSUME NEW es \in Seq(MemEntry), NEW e \in MemEntry
  PROVE  /\ Append(es, e) \in Seq(MemEntry) /\ Len(Append(es, e)) = Len(es) + 1
         /\ \A i \in 1..Len(es) : Append(es, e)[i] = es[i]
         /\ Append(es, e)[Len(es) + 1] = e
         /\ Memory!Nos(Append(es, e)) = Memory!Nos(es) \cup {e.no}
<1>1. /\ Append(es, e) \in Seq(MemEntry) /\ Len(Append(es, e)) = Len(es) + 1
      /\ \A i \in 1..Len(es) : Append(es, e)[i] = es[i]
      /\ Append(es, e)[Len(es) + 1] = e
  BY AppendProperties
<1>2. Len(es) \in Nat
  BY LenProperties
<1>3. /\ \A i \in 1..Len(es) : es[i].no \in Memory!Nos(es)
      /\ \A n \in Memory!Nos(es) : \E i \in 1..Len(es) : es[i].no = n
  BY NosFacts
<1>4. /\ \A i \in 1..(Len(es) + 1) : Append(es, e)[i].no \in Memory!Nos(Append(es, e))
      /\ \A n \in Memory!Nos(Append(es, e)) :
           \E i \in 1..(Len(es) + 1) : Append(es, e)[i].no = n
  BY <1>1, NosFacts, ZenonT(60)
<1>5. \A i \in 1..(Len(es) + 1) : i \in 1..Len(es) \/ i = Len(es) + 1
  BY <1>2
<1>6. \A i \in 1..Len(es) : i \in 1..(Len(es) + 1)
  BY <1>2
<1>7. Len(es) + 1 \in 1..(Len(es) + 1)
  BY <1>2
<1>8. ASSUME NEW n \in Memory!Nos(Append(es, e))
      PROVE  n \in Memory!Nos(es) \cup {e.no}
  BY <1>1, <1>3, <1>4, <1>5
<1>9. ASSUME NEW n \in Memory!Nos(es) \cup {e.no}
      PROVE  n \in Memory!Nos(Append(es, e))
  BY <1>1, <1>3, <1>4, <1>6, <1>7
<1> QED BY <1>1, <1>8, <1>9

\* An eviction loses a number, as long as the numbers differ.
LEMMA EvictionLoses ==
  ASSUME NEW es \in Seq(MemEntry), Len(es) > MemoryEntries,
         \A i, k \in 1..Len(es) : es[i].no = es[k].no => i = k
  PROVE  Memory!Nos(es) \ Memory!Nos(Memory!Evict(es)) # {}
<1> SUFFICES ASSUME Memory!Nos(es) \subseteq Memory!Nos(Memory!Evict(es)) PROVE FALSE
  OBVIOUS
<1> DEFINE kept == Memory!Evict(es)
<1>1. /\ kept \in Seq(MemEntry) /\ Len(kept) <= MemoryEntries
      /\ Len(kept) \in Nat /\ Len(es) \in Nat /\ MemoryEntries \in Nat
  BY EvictFacts, LenProperties, MemSizes
<1> HIDE DEF kept
<1>2. \A i \in 1..Len(es) : \E r \in 1..Len(kept) : kept[r].no = es[i].no
  BY <1>1, NosFacts, ZenonT(60) DEF kept
<1> DEFINE f == [i \in 1..Len(es) |-> CHOOSE r \in 1..Len(kept) : kept[r].no = es[i].no]
<1>3. \A i \in 1..Len(es) : f[i] \in 1..Len(kept) /\ kept[f[i]].no = es[i].no
  BY <1>2
<1>4. f \in Injection(1..Len(es), 1..Len(kept))
  <2>1. f \in [1..Len(es) -> 1..Len(kept)]
    BY <1>3
  <2> HIDE DEF f
  <2>2. \A i, k \in 1..Len(es) : f[i] = f[k] => i = k
    BY <1>3
  <2> QED BY <2>1, <2>2 DEF Injection, IsInjective
<1> HIDE DEF f
<1>5. /\ IsFiniteSet(1..Len(kept)) /\ Cardinality(1..Len(kept)) = Len(kept)
      /\ Cardinality(1..Len(es)) = Len(es)
  BY <1>1, UpTo
<1>6. Cardinality(1..Len(es)) <= Cardinality(1..Len(kept))
  BY <1>4, <1>5, FS_Injection
<1> QED BY <1>1, <1>5, <1>6

\* An insertion: without a gap it appends the entry and tells AgentDB, after
\* an eviction or a failed save there is one.
LEMMA InsertStep ==
  ASSUME MemInv, NEW q \in Problems, NEW v \in BOOLEAN, NEW s \in MemoryScores,
         Memory!Insert(q, v, s)
  PROVE  MemInv'
<1> USE DEF MemInv
<1> DEFINE e == Memory!NewEntry(q, v, s)
           all == Append(cache, e)
           kept == Memory!Evict(all)
           lost == Memory!Nos(all) \ Memory!Nos(kept)
<1>1. PICK ok \in Memory!DiskOutcomes :
        /\ cache' = kept
        /\ file' = IF ok THEN Memory!File(kept) ELSE file
        /\ lasting' = (IF ok THEN lasting \cup Memory!Nos(kept) ELSE lasting) \ lost
        /\ mirror' = IF ok /\ conf \in {"mirror", "only"} THEN Memory!Mirrored(e, kept)
                     ELSE Memory!NoUpsert
        /\ gap' = (gap \/ lost # {} \/ mirror' = Memory!NoUpsert)
  BY DEF Memory!Insert
<1>2. /\ conf # "down" /\ mirror = Memory!NoUpsert /\ made < MaxInserts /\ made' = made + 1
      /\ kind' = kind /\ conf' = conf /\ bak' = bak /\ db' = db /\ tool' = tool
      /\ unread' = unread /\ served' = {}
  BY DEF Memory!Insert, Memory!Free, Memory!agentdb
<1>3. /\ made \in Nat /\ made + 1 \in 1..MaxInserts /\ made' \in 0..MaxInserts
  BY <1>2, MemSizes DEF MemTypes
<1>4. e \in MemEntry
  <2>1. (conf # "bare") \in BOOLEAN
    OBVIOUS
  <2> QED BY <1>3, <2>1, MemSizes DEF Memory!NewEntry, MemEntry, Memory!Entry
<1>5. e.no = made + 1 /\ (conf # "bare" => e.emb)
  BY DEF Memory!NewEntry
<1> HIDE DEF e
<1>6. /\ cache \in Seq(MemEntry) /\ Len(cache) \in Nat /\ Len(cache) <= MemoryEntries
      /\ MemoryEntries \in Nat
  BY LenProperties, MemSizes DEF MemTypes
<1>7. /\ all \in Seq(MemEntry) /\ Len(all) = Len(cache) + 1
      /\ \A i \in 1..Len(cache) : all[i] = cache[i]
      /\ all[Len(cache) + 1] = e
      /\ Memory!Nos(all) = Memory!Nos(cache) \cup {e.no}
  BY <1>4, <1>6, Appending
<1> HIDE DEF all
<1>8. /\ kept \in Seq(MemEntry) /\ Len(kept) <= MemoryEntries /\ Len(kept) \in Nat
      /\ Len(all) <= MemoryEntries => kept = all
  BY <1>7, EvictFacts, LenProperties
<1>9. lost \subseteq Memory!Nos(all) /\ Memory!Nos(all) \subseteq Memory!Nos(kept) \cup lost
  OBVIOUS
<1>10. Memory!File(kept) \in MemFile /\ Memory!File(kept).entries = kept
       /\ Memory!File(kept).there = TRUE
  BY <1>8 DEF Memory!File, MemFile
<1>11. file' \in MemFile /\ (file' = file \/ file'.entries = kept) /\ Len(file'.entries) <= MemoryEntries
  BY <1>1, <1>8, <1>10 DEF MemTypes
<1>12. mirror' # Memory!NoUpsert =>
         /\ ok /\ conf # "bare"
         /\ mirror' \in [id : Int, vec : Memory!Vector]
         /\ mirror'.id = Len(kept) - 1 /\ mirror'.vec.no = e.no
  <2> SUFFICES ASSUME mirror' # Memory!NoUpsert
               PROVE  /\ ok /\ conf # "bare"
                      /\ mirror' \in [id : Int, vec : Memory!Vector]
                      /\ mirror'.id = Len(kept) - 1 /\ mirror'.vec.no = e.no
    OBVIOUS
  <2>1. ok /\ conf \in {"mirror", "only"} /\ mirror' = Memory!Mirrored(e, kept)
    BY <1>1
  <2>2. [no |-> e.no, q |-> e.q, verified |-> e.verified, full |-> kind = "traj"] \in Memory!Vector
    BY <1>4 DEF Memory!Vector, MemEntry, Memory!Entry
  <2>3. Len(kept) - 1 \in Int
    BY <1>8
  <2> QED BY <2>1, <2>2, <2>3 DEF Memory!Mirrored, Memory!VectorId
<1>13. MemTypes'
  BY <1>1, <1>2, <1>3, <1>8, <1>11, <1>12
  DEF MemTypes, Memory!Confs, Memory!Ids, Memory!Vector, Memory!NoVector, Memory!NoUpsert
<1>14. Resting' /\ Archived' /\ ServedWell'
  BY <1>2 DEF Resting, Archived, ServedWell
<1>15. Remembered'
  <2> SUFFICES ASSUME ~unread PROVE Remembered'
    BY <1>2 DEF Remembered
  <2>1. /\ lasting \subseteq Memory!Nos(cache) \cup Memory!Nos(bak.entries)
        /\ lasting \subseteq Memory!Nos(file.entries) \cup Memory!Nos(bak.entries)
    BY <1>2 DEF Remembered
  <2>2. Memory!Nos(cache) \subseteq Memory!Nos(kept) \cup lost
    BY <1>7, <1>9
  <2> HIDE DEF kept, lost
  <2>3. lasting' \subseteq Memory!Nos(kept) \cup Memory!Nos(bak.entries)
    BY <1>1, <2>1, <2>2
  <2>4. CASE ok
    <3>1. file'.entries = kept
      BY <1>1, <1>10, <2>4
    <3> QED BY <1>1, <1>2, <2>3, <3>1 DEF Remembered
  <2>5. CASE ~ok
    <3>1. file' = file /\ lasting' \subseteq lasting
      BY <1>1, <2>5
    <3> QED BY <1>1, <1>2, <2>1, <2>3, <3>1 DEF Remembered
  <2> QED BY <2>4, <2>5
<1>16. ASSUME ~gap'
       PROVE  /\ ~gap /\ mirror' # Memory!NoUpsert /\ kept = all /\ file'.entries = all
              /\ Numbered(cache)
  <2>1. ~gap /\ lost = {} /\ mirror' # Memory!NoUpsert
    BY <1>1, <1>16
  <2>2. Numbered(cache)
    BY <2>1 DEF NumbersKept
  <2>3. \A i \in 1..Len(cache) : cache[i].no <= made /\ cache[i].no \in Nat
    <3>1. \A i \in 1..Len(cache) : cache[i] \in MemEntry
      BY <1>6, NosFacts
    <3> QED BY <2>2, <3>1, EntryFields DEF Numbered
  <2>4. \A i, k \in 1..Len(all) : all[i].no = all[k].no => i = k
    <3>1. \A i \in 1..Len(all) : i \in 1..Len(cache) \/ i = Len(cache) + 1
      BY <1>6, <1>7
    <3>2. \A i \in 1..Len(cache) : all[i].no # all[Len(cache) + 1].no
      BY <1>3, <1>5, <1>7, <2>3
    <3>3. \A i, k \in 1..Len(cache) : all[i].no = all[k].no => i = k
      BY <1>7, <2>2 DEF Numbered
    <3> QED BY <3>1, <3>2, <3>3
  <2>5. ~(Len(all) > MemoryEntries)
    BY <1>7, <2>1, <2>4, EvictionLoses
  <2>6. kept = all
    BY <1>6, <1>7, <1>8, <2>5
  <2>7. file'.entries = kept
    BY <1>1, <1>10, <1>12, <2>1
  <2> QED BY <2>1, <2>2, <2>6, <2>7
<1>17. NumbersKept'
  <2> SUFFICES ASSUME ~gap' PROVE Numbered(cache)' /\ Numbered(file.entries)'
    BY DEF NumbersKept
  <2>1. ~gap /\ mirror' # Memory!NoUpsert /\ kept = all /\ file'.entries = all /\ Numbered(cache)
    BY <1>16
  <2>2. e.emb
    BY <1>5, <1>12, <2>1
  <2>3. \A i \in 1..Len(cache) : cache[i].no <= made /\ cache[i].no \in Nat
    <3>1. \A i \in 1..Len(cache) : cache[i] \in MemEntry
      BY <1>6, NosFacts
    <3> QED BY <2>1, <3>1, EntryFields DEF Numbered
  <2>4. \A i \in 1..Len(all) : i \in 1..Len(cache) \/ i = Len(cache) + 1
    BY <1>6, <1>7
  <2>5. \A i \in 1..Len(all) : all[i].no <= made + 1 /\ all[i].emb
    <3>1. \A i \in 1..Len(cache) : all[i].no <= made + 1 /\ all[i].emb
      BY <1>3, <1>7, <2>1, <2>3 DEF Numbered
    <3>2. all[Len(cache) + 1].no <= made + 1 /\ all[Len(cache) + 1].emb
      BY <1>3, <1>5, <1>7, <2>2
    <3> QED BY <2>4, <3>1, <3>2
  <2>6. \A i, k \in 1..Len(all) : all[i].no = all[k].no => i = k
    <3>2. \A i \in 1..Len(cache) : all[i].no # all[Len(cache) + 1].no
      BY <1>3, <1>5, <1>7, <2>3
    <3>3. \A i, k \in 1..Len(cache) : all[i].no = all[k].no => i = k
      BY <1>7, <2>1 DEF Numbered
    <3> QED BY <2>4, <3>2, <3>3
  <2>7. cache' = all /\ file'.entries = all /\ made' = made + 1
    BY <1>1, <1>2, <2>1
  <2> QED BY <2>5, <2>6, <2>7 DEF Numbered
<1>18. Synced'
  <2> SUFFICES ASSUME ~gap', ~unread' PROVE Synced'
    BY DEF Synced
  <2>1. ~gap /\ mirror' # Memory!NoUpsert /\ kept = all /\ file'.entries = all /\ cache' = all
    BY <1>1, <1>16
  <2>2. /\ Begins(file.entries, cache) /\ Mirrors(cache)
        /\ tool.pc = "backfill" => Begins(tool.snap, file.entries)
    BY <1>2, <2>1 DEF Synced
  <2>3. Begins(file'.entries, cache')
    BY <1>6, <1>7, <2>1 DEF Begins
  <2>4. /\ mirror'.id = Len(all) - 1 /\ mirror'.vec.no = e.no
    BY <1>12, <2>1
  <2>5. \A i \in 1..Len(all) : i \in 1..Len(cache) \/ i = Len(cache) + 1
    BY <1>6, <1>7
  <2>6. Mirrors(cache)'
    <3>1. ASSUME NEW i \in 1..Len(all)
          PROVE  mirror'.id = i - 1 \/ db[i-1].no = all[i].no
      <4>1. CASE i = Len(cache) + 1
        BY <1>6, <1>7, <2>4, <4>1
      <4>2. CASE i \in 1..Len(cache)
        <5>1. mirror.id # i - 1
          BY <1>2, <1>6, <4>2 DEF Memory!NoUpsert
        <5> QED BY <1>7, <2>2, <4>2, <5>1 DEF Mirrors
      <4> QED BY <2>5, <4>1, <4>2
    <3> QED BY <1>2, <2>1, <3>1 DEF Mirrors
  <2>7. tool.pc = "backfill" => Begins(tool.snap, all)
    <3>1. Len(tool.snap) \in Nat /\ Len(file.entries) \in Nat
      BY LenProperties DEF MemTypes, MemFile
    <3> QED BY <1>6, <1>7, <2>2, <3>1, SMTT(60) DEF Begins
  <2>8. LastPending'
    BY <1>6, <1>7, <2>1, <2>4 DEF LastPending
  <2> QED BY <1>2, <2>1, <2>3, <2>6, <2>7, <2>8 DEF Synced
<1> QED BY <1>13, <1>14, <1>15, <1>17, <1>18


\* The vector of the last entry reaches AgentDB, or there is a gap.
LEMMA UpsertStep ==
  ASSUME MemInv, Memory!Upsert
  PROVE  MemInv'
<1> USE DEF MemInv
<1>1. /\ mirror # Memory!NoUpsert /\ mirror' = Memory!NoUpsert
      /\ db' = IF dbUp THEN [db EXCEPT ![mirror.id] = mirror.vec] ELSE db
      /\ gap' = (gap \/ ~dbUp)
      /\ kind' = kind /\ conf' = conf /\ cache' = cache /\ file' = file /\ bak' = bak
      /\ tool' = tool /\ lasting' = lasting /\ unread' = unread /\ made' = made /\ served' = {}
  BY DEF Memory!Upsert, Memory!disk, Memory!counts
<1>2. db' \in [Memory!Ids -> Memory!Vector \cup {Memory!NoVector}]
  <2>1. mirror.vec \in Memory!Vector /\ db \in [Memory!Ids -> Memory!Vector \cup {Memory!NoVector}]
    BY <1>1 DEF MemTypes
  <2> QED BY <1>1, <2>1
<1>3. MemTypes'
  BY <1>1, <1>2 DEF MemTypes, Memory!Confs, Memory!Ids, Memory!Vector, Memory!NoVector, Memory!NoUpsert
<1>4. Resting' /\ Archived' /\ ServedWell'
  BY <1>1 DEF Resting, Archived, ServedWell
<1>5. Remembered'
  BY <1>1 DEF Remembered
<1>6. NumbersKept'
  BY <1>1 DEF NumbersKept, Numbered
<1>7. Synced'
  <2> SUFFICES ASSUME ~gap', ~unread' PROVE Synced'
    BY DEF Synced
  <2>1. ~gap /\ dbUp /\ ~unread /\ conf # "down"
    BY <1>1 DEF Resting
  <2>2. /\ Begins(file.entries, cache) /\ Mirrors(cache)
        /\ tool.pc = "backfill" => Begins(tool.snap, file.entries)
        /\ Len(cache) > 0 /\ mirror.id = Len(cache) - 1 /\ mirror.vec.no = cache[Len(cache)].no
    BY <1>1, <2>1 DEF Synced, LastPending
  <2>3. Len(cache) \in Nat /\ Len(cache) <= MemoryEntries /\ MemoryEntries \in Nat
    BY LenProperties, MemSizes DEF MemTypes
  <2>4. ASSUME NEW i \in 1..Len(cache)
        PROVE  db'[i-1].no = cache[i].no
    <3>1. i - 1 \in Memory!Ids
      BY <2>3 DEF Memory!Ids
    <3>2. db' = [db EXCEPT ![mirror.id] = mirror.vec] /\ DOMAIN db = Memory!Ids
      BY <1>1, <2>1 DEF MemTypes
    <3>3. CASE i = Len(cache)
      BY <2>2, <2>3, <3>1, <3>2, <3>3
    <3>4. CASE i # Len(cache)
      <4>1. mirror.id # i - 1
        BY <2>2, <2>3, <3>4
      <4>2. db[i-1].no = cache[i].no
        BY <2>2, <4>1 DEF Mirrors
      <4> QED BY <3>1, <3>2, <4>1, <4>2
    <3> QED BY <3>3, <3>4
  <2>5. Mirrors(cache)'
    BY <1>1, <2>4 DEF Mirrors
  <2>6. LastPending'
    BY <1>1 DEF LastPending, Memory!NoUpsert
  <2> QED BY <1>1, <2>1, <2>2, <2>5, <2>6 DEF Synced
<1> QED BY <1>3, <1>4, <1>5, <1>6, <1>7

\* No entries.
LEMMA Nothing ==
  /\ <<>> \in Seq(MemEntry) /\ Len(<<>>) = 0
  /\ Memory!NoFile \in MemFile /\ Memory!NoFile.entries = <<>> /\ Memory!NoFile.there = FALSE
  /\ Memory!Nos(<<>>) = {}
<1>1. <<>> \in Seq(MemEntry) /\ Len(<<>>) = 0 /\ DOMAIN <<>> = {}
  BY EmptySeq
<1>2. Memory!Nos(<<>>) = {}
  BY <1>1 DEF Memory!Nos
<1>3. FALSE \in BOOLEAN
  OBVIOUS
<1>4. Memory!NoFile \in MemFile /\ Memory!NoFile.entries = <<>> /\ Memory!NoFile.there = FALSE
  BY <1>1, <1>3 DEF Memory!NoFile, MemFile
<1> QED BY <1>1, <1>2, <1>4

\* A start begins with what the file has, or with nothing and "unread".
LEMMA StartStep ==
  ASSUME MemInv, NEW c \in Memory!Confs, Memory!Start(c)
  PROVE  MemInv'
<1> USE DEF MemInv
<1>1. PICK ok \in Memory!DiskOutcomes :
        /\ cache' = Memory!Loaded(ok)
        /\ unread' = (unread \/ ~ok)
  BY DEF Memory!Start
<1>2. /\ conf = "down" /\ conf' = c /\ c # "down"
      /\ kind' = kind /\ mirror' = mirror /\ file' = file /\ bak' = bak /\ db' = db
      /\ tool' = tool /\ lasting' = lasting /\ gap' = gap /\ made' = made /\ served' = {}
  BY DEF Memory!Start, Memory!Confs, Memory!disk, Memory!agentdb
<1>3. cache = <<>> /\ mirror = Memory!NoUpsert
  BY <1>2 DEF Resting
<1>4. (ok /\ cache' = file.entries) \/ (~ok /\ cache' = <<>>)
  BY <1>1 DEF Memory!Loaded
<1>5. cache' \in Seq(MemEntry) /\ Len(cache') <= MemoryEntries
  <2>1. file.entries \in Seq(MemEntry) /\ Len(file.entries) <= MemoryEntries
    BY DEF MemTypes, MemFile
  <2>2. CASE cache' = file.entries
    BY <2>1, <2>2
  <2>3. CASE cache' = <<>>
    <3>1. <<>> \in Seq(MemEntry) /\ Len(<<>>) = 0 /\ MemoryEntries \in Nat
      BY Nothing, MemSizes
    <3>2. 0 <= MemoryEntries
      BY <3>1
    <3> QED BY <2>3, <3>1, <3>2
  <2> QED BY <1>4, <2>2, <2>3
<1>6. MemTypes'
  BY <1>2, <1>5 DEF MemTypes, Memory!Confs, Memory!Ids, Memory!Vector, Memory!NoVector, Memory!NoUpsert
<1>7. Resting' /\ Archived' /\ ServedWell'
  BY <1>2 DEF Resting, Archived, ServedWell
<1>8. Remembered'
  <2> SUFFICES ASSUME ~unread' PROVE Remembered'
    BY DEF Remembered
  <2>1. cache' = file.entries /\ ~unread
    BY <1>1, <1>4
  <2> QED BY <1>2, <2>1 DEF Remembered
<1>9. NumbersKept'
  <2> SUFFICES ASSUME ~gap PROVE Numbered(cache)' /\ Numbered(file.entries)'
    BY <1>2 DEF NumbersKept
  <2>1. Numbered(file.entries)
    BY DEF NumbersKept
  <2>2. Numbered(file.entries)'
    BY <1>2, <2>1 DEF Numbered
  <2>3. CASE cache' = file.entries
    BY <1>2, <2>1, <2>3 DEF Numbered
  <2>4. CASE cache' = <<>>
    <3>1. 1..Len(cache') = {}
      BY <2>4, Nothing
    <3> QED BY <2>2, <3>1 DEF Numbered
  <2> QED BY <1>4, <2>2, <2>3, <2>4
<1>10. Synced'
  <2> SUFFICES ASSUME ~gap', ~unread' PROVE Synced'
    BY DEF Synced
  <2>1. cache' = file.entries /\ ~unread /\ ~gap
    BY <1>1, <1>2, <1>4
  <2>2. /\ Mirrors(file.entries)
        /\ tool.pc = "backfill" => Begins(tool.snap, file.entries)
    BY <1>2, <2>1 DEF Synced
  <2>3. Mirrors(cache)'
    BY <1>2, <2>1, <2>2 DEF Mirrors
  <2>4. Begins(file'.entries, cache')
    <3>1. file.entries \in Seq(MemEntry)
      BY DEF MemTypes, MemFile
    <3>2. Len(file.entries) \in Nat
      BY <3>1, LenProperties
    <3> QED BY <1>2, <2>1, <3>2 DEF Begins
  <2>5. LastPending'
    BY <1>2, <1>3 DEF LastPending, Memory!NoUpsert
  <2> QED BY <1>2, <2>2, <2>3, <2>4, <2>5 DEF Synced
<1> QED BY <1>6, <1>7, <1>8, <1>9, <1>10

LEMMA StopStep ==
  ASSUME MemInv, Memory!Stop
  PROVE  MemInv'
<1> USE DEF MemInv
<1>1. /\ conf # "down" /\ conf' = "down" /\ cache' = <<>> /\ mirror' = Memory!NoUpsert
      /\ gap' = (gap \/ mirror # Memory!NoUpsert)
      /\ kind' = kind /\ file' = file /\ bak' = bak /\ db' = db /\ tool' = tool
      /\ lasting' = lasting /\ unread' = unread /\ made' = made /\ served' = {}
  BY DEF Memory!Stop, Memory!disk, Memory!agentdb, Memory!counts
<1>2. MemTypes'
  BY <1>1, Nothing, MemSizes
  DEF MemTypes, Memory!Confs, Memory!Ids, Memory!Vector, Memory!NoVector, Memory!NoUpsert
<1>3. Resting' /\ Archived' /\ ServedWell'
  BY <1>1 DEF Resting, Archived, ServedWell, Memory!NoUpsert
<1>4. Remembered'
  BY <1>1 DEF Remembered
<1>5. NumbersKept'
  <2>1. 1..Len(cache') = {}
    BY <1>1, Nothing
  <2>2. Numbered(cache)'
    BY <2>1 DEF Numbered
  <2> QED BY <1>1, <2>2 DEF NumbersKept, Numbered
<1>6. Synced'
  <2> SUFFICES ASSUME ~gap', ~unread' PROVE Synced'
    BY DEF Synced
  <2>1. ~gap /\ ~unread /\ mirror = Memory!NoUpsert
    BY <1>1
  <2>2. /\ Begins(file.entries, cache) /\ Mirrors(cache)
        /\ tool.pc = "backfill" => Begins(tool.snap, file.entries)
    BY <1>1, <2>1 DEF Synced
  <2>3. /\ file.entries \in Seq(MemEntry) /\ Len(file.entries) \in Nat
        /\ Len(cache) \in Nat /\ Len(cache) <= MemoryEntries /\ MemoryEntries \in Nat
    BY LenProperties, MemSizes DEF MemTypes, MemFile
  <2>4. Mirrors(file.entries)'
    <3>1. ASSUME NEW i \in 1..Len(file.entries)
          PROVE  db[i-1].no = file.entries[i].no
      <4>1. i \in 1..Len(cache) /\ file.entries[i].no = cache[i].no
        BY <2>2, <2>3 DEF Begins
      <4>2. mirror.id # i - 1
        BY <2>1, <2>3, <4>1 DEF Memory!NoUpsert
      <4> QED BY <2>2, <4>1, <4>2 DEF Mirrors
    <3> QED BY <1>1, <3>1 DEF Mirrors
  <2>5. Mirrors(cache)'
    BY <1>1, Nothing DEF Mirrors
  <2>6. LastPending'
    BY <1>1 DEF LastPending, Memory!NoUpsert
  <2> QED BY <1>1, <2>2, <2>4, <2>5, <2>6 DEF Synced
<1> QED BY <1>2, <1>3, <1>4, <1>5, <1>6

-------------------------------------------------------------------------------
(* The steps of the tools.                                                  *)

\* A tool takes up other work; what it is going to copy begins the file.
LEMMA OnlyTool ==
  ASSUME MemInv,
         kind' = kind, conf' = conf, cache' = cache, mirror' = mirror, file' = file, bak' = bak,
         db' = db, lasting' = lasting, gap' = gap, unread' = unread, made' = made, served' = {},
         tool' \in [pc : {"idle", "backfill", "archive"}, snap : Seq(MemEntry), at : Nat],
         tool'.pc = "backfill" =>
           /\ tool'.at < Len(tool'.snap)
           /\ ~gap => Begins(tool'.snap, file.entries)
  PROVE  MemInv'
<1> USE DEF MemInv
<1>1. MemTypes'
  BY DEF MemTypes, Memory!NoUpsert, Memory!NoVector, Memory!Vector, Memory!Ids, Memory!Confs
<1>2. Resting' /\ Archived' /\ ServedWell'
  BY DEF Resting, Archived, Memory!NoUpsert, ServedWell
<1>3. Remembered' /\ NumbersKept'
  BY DEF Remembered, NumbersKept, Numbered, Memory!Nos
<1>4. Synced'
  BY DEF Synced, Mirrors, LastPending, Memory!NoUpsert
<1> QED BY <1>1, <1>2, <1>3, <1>4

LEMMA NoToolFacts ==
  /\ Memory!NoTool \in [pc : {"idle", "backfill", "archive"}, snap : Seq(MemEntry), at : Nat]
  /\ Memory!NoTool.pc = "idle"
  /\ [Memory!NoTool EXCEPT !.pc = "archive"]
       \in [pc : {"idle", "backfill", "archive"}, snap : Seq(MemEntry), at : Nat]
  /\ [Memory!NoTool EXCEPT !.pc = "archive"].pc = "archive"
BY Nothing DEF Memory!NoTool

LEMMA BackfillBeginsStep ==
  ASSUME MemInv, Memory!BackfillBegins
  PROVE  MemInv'
<1> USE DEF MemInv
<1> DEFINE es == file.entries
           places == {i \in DOMAIN es : es[i].emb}
           snap == Memory!Embedded(es)
<1>1. /\ kind' = kind /\ conf' = conf /\ cache' = cache /\ mirror' = mirror /\ file' = file
      /\ bak' = bak /\ db' = db /\ lasting' = lasting /\ gap' = gap /\ unread' = unread
      /\ made' = made /\ served' = {}
      /\ snap # <<>> /\ tool' = [pc |-> "backfill", snap |-> snap, at |-> 0]
  BY DEF Memory!BackfillBegins, Memory!ToolBegins, Memory!process, Memory!disk, Memory!agentdb
<1>2. es \in Seq(MemEntry) /\ Len(es) \in Nat /\ DOMAIN es = 1..Len(es)
  BY LenProperties DEF MemTypes, MemFile
<1>3. snap = At(es, places)
  BY DEF Memory!Embedded, Memory!At, At, Memory!Ascending, Ascending, Memory!Cardinality, Cardinality
<1>4. snap \in Seq(MemEntry)
  <2>1. places \in SUBSET DOMAIN es
    OBVIOUS
  <2> HIDE DEF places, es, snap
  <2> QED BY <1>2, <1>3, <2>1, AtFacts
<1>5. Len(snap) \in Nat /\ Len(snap) > 0
  <2> HIDE DEF snap
  <2> QED BY <1>1, <1>4, EmptySeq, LenProperties
<1>6. ASSUME ~gap PROVE Begins(snap, es)
  <2>1. \A i \in 1..Len(es) : es[i].emb
    BY <1>6 DEF NumbersKept, Numbered
  <2>2. places = DOMAIN es
    BY <1>2, <2>1
  <2>3. snap = es
    BY <1>3, <2>2 DEF At
  <2> QED BY <1>2, <2>3 DEF Begins
<1> HIDE DEF snap, places, es
<1>7. /\ tool' \in [pc : {"idle", "backfill", "archive"}, snap : Seq(MemEntry), at : Nat]
      /\ tool'.at < Len(tool'.snap) /\ tool'.snap = snap
  BY <1>1, <1>4, <1>5
<1> QED BY <1>1, <1>6, <1>7, OnlyTool DEF es

\* A back-fill writes what AgentDB has, up to a gap.
LEMMA BackfillEntryStep ==
  ASSUME MemInv, Memory!BackfillEntry
  PROVE  MemInv'
<1> USE DEF MemInv
<1> DEFINE at == tool.at
           e == tool.snap[tool.at + 1]
<1>1. /\ tool.pc = "backfill"
      /\ db' = IF dbUp THEN [db EXCEPT ![at] = Memory!Migrated(e)] ELSE db
      /\ tool' = IF at + 1 = Len(tool.snap) THEN Memory!NoTool ELSE [tool EXCEPT !.at = @ + 1]
      /\ kind' = kind /\ conf' = conf /\ cache' = cache /\ mirror' = mirror /\ file' = file
      /\ bak' = bak /\ lasting' = lasting /\ gap' = gap /\ unread' = unread
      /\ made' = made /\ served' = {}
  BY DEF Memory!BackfillEntry, Memory!process, Memory!disk, Memory!counts
<1>2. /\ tool \in [pc : {"idle", "backfill", "archive"}, snap : Seq(MemEntry), at : Nat]
      /\ tool.snap \in Seq(MemEntry) /\ Len(tool.snap) \in Nat /\ at \in Nat
      /\ at < Len(tool.snap)
  BY <1>1, LenProperties DEF MemTypes
<1>3. at + 1 \in 1..Len(tool.snap) /\ e \in MemEntry
  <2>1. at + 1 \in 1..Len(tool.snap)
    BY <1>2
  <2> QED BY <1>2, <2>1, NosFacts
<1>4. Memory!Migrated(e) \in Memory!Vector /\ Memory!Migrated(e).no = e.no
  <2>1. FALSE \in BOOLEAN
    OBVIOUS
  <2> HIDE DEF e
  <2> QED BY <1>3, <2>1 DEF Memory!Migrated, Memory!Vector, MemEntry, Memory!Entry
<1>5. db \in [Memory!Ids -> Memory!Vector \cup {Memory!NoVector}]
  BY DEF MemTypes
<1>6. db' \in [Memory!Ids -> Memory!Vector \cup {Memory!NoVector}]
  <2> HIDE DEF at, e
  <2> QED BY <1>1, <1>4, <1>5
<1>7. \A n \in Memory!Ids : db'[n] = db[n] \/ (n = at /\ db'[n].no = e.no)
  <2> HIDE DEF at, e
  <2> QED BY <1>1, <1>4, <1>5
<1>8. /\ tool' \in [pc : {"idle", "backfill", "archive"}, snap : Seq(MemEntry), at : Nat]
      /\ tool'.pc = "backfill" => tool'.at < Len(tool'.snap) /\ tool'.snap = tool.snap
  <2>1. CASE at + 1 = Len(tool.snap)
    BY <1>1, <2>1, NoToolFacts
  <2>2. CASE at + 1 # Len(tool.snap)
    <3>1. tool' = [tool EXCEPT !.at = tool.at + 1] /\ tool.at + 1 \in Nat
      BY <1>1, <1>2, <2>2
    <3>2. tool.at + 1 < Len(tool.snap)
      BY <1>2, <2>2
    <3> QED BY <1>2, <3>1, <3>2
  <2> QED BY <2>1, <2>2
<1>9. MemTypes'
  BY <1>1, <1>6, <1>8 DEF MemTypes, Memory!Confs, Memory!Ids, Memory!Vector, Memory!NoVector, Memory!NoUpsert
<1>10. Resting' /\ Archived' /\ ServedWell'
  BY <1>1 DEF Resting, Archived, ServedWell, Memory!NoUpsert
<1>11. Remembered' /\ NumbersKept'
  BY <1>1 DEF Remembered, NumbersKept, Numbered, Memory!Nos
<1>12. Synced'
  <2> SUFFICES ASSUME ~gap', ~unread' PROVE Synced'
    BY DEF Synced
  <2>1. /\ ~gap /\ ~unread
        /\ conf = "down" => Mirrors(file.entries)
        /\ conf # "down" => Begins(file.entries, cache)
        /\ Mirrors(cache) /\ Begins(tool.snap, file.entries) /\ LastPending
    BY <1>1 DEF Synced
  <2>2. /\ file.entries \in Seq(MemEntry) /\ Len(file.entries) \in Nat /\ Len(cache) \in Nat
        /\ Len(file.entries) <= MemoryEntries /\ Len(cache) <= MemoryEntries
        /\ MemoryEntries \in Nat
    BY LenProperties, MemSizes DEF MemTypes, MemFile
  <2>3. at + 1 \in 1..Len(file.entries) /\ file.entries[at + 1].no = e.no
    BY <1>3, <1>2, <2>1, <2>2 DEF Begins
  <2>4. conf = "down" => Mirrors(file.entries)'
    <3> SUFFICES ASSUME conf = "down", NEW i \in 1..Len(file.entries)
                 PROVE  mirror.id = i - 1 \/ db'[i-1].no = file.entries[i].no
      BY <1>1 DEF Mirrors
    <3>1. i - 1 \in Memory!Ids
      BY <2>2 DEF Memory!Ids
    <3>2. mirror.id = i - 1 \/ db[i-1].no = file.entries[i].no
      BY <2>1 DEF Mirrors
    <3>3. i - 1 = at => i = at + 1
      BY <1>2
    <3> HIDE DEF at, e
    <3> QED BY <1>7, <2>3, <3>1, <3>2, <3>3
  <2>5. Mirrors(cache)'
    <3> SUFFICES ASSUME NEW i \in 1..Len(cache)
                 PROVE  mirror.id = i - 1 \/ db'[i-1].no = cache[i].no
      BY <1>1 DEF Mirrors
    <3>0. conf # "down"
      BY Nothing, <2>2 DEF Resting
    <3>1. i - 1 \in Memory!Ids
      BY <2>2 DEF Memory!Ids
    <3>2. mirror.id = i - 1 \/ db[i-1].no = cache[i].no
      BY <2>1 DEF Mirrors
    <3>3. i - 1 = at => i = at + 1 /\ cache[i].no = e.no
      BY <1>2, <2>1, <2>2, <2>3, <3>0 DEF Begins
    <3> HIDE DEF at, e
    <3> QED BY <1>7, <3>1, <3>2, <3>3
  <2>6. LastPending'
    BY <1>1, <2>1 DEF LastPending, Memory!NoUpsert
  <2>7. conf' = conf /\ file' = file /\ cache' = cache
        /\ (tool'.pc = "backfill" => tool'.snap = tool.snap)
    BY <1>1, <1>8
  <2> QED BY <2>1, <2>4, <2>5, <2>6, <2>7 DEF Synced
<1> QED BY <1>9, <1>10, <1>11, <1>12

LEMMA FinalizeBeginsStep ==
  ASSUME MemInv, NEW force \in BOOLEAN, Memory!FinalizeBegins(force)
  PROVE  MemInv'
<1>1. /\ kind' = kind /\ conf' = conf /\ cache' = cache /\ mirror' = mirror /\ file' = file
      /\ bak' = bak /\ db' = db /\ lasting' = lasting /\ gap' = gap /\ unread' = unread
      /\ made' = made /\ served' = {}
  BY DEF Memory!FinalizeBegins, Memory!ToolBegins, Memory!process, Memory!disk, Memory!agentdb
<1>2. tool' = [Memory!NoTool EXCEPT !.pc = "archive"] \/ tool' = Memory!NoTool
  BY DEF Memory!FinalizeBegins
<1>3. /\ tool' \in [pc : {"idle", "backfill", "archive"}, snap : Seq(MemEntry), at : Nat]
      /\ tool'.pc # "backfill"
  BY <1>2, NoToolFacts
<1> QED BY <1>1, <1>3, OnlyTool

\* The cut-over: what was in the file is in the archive.
LEMMA ArchiveStep ==
  ASSUME MemInv, Memory!Archive
  PROVE  MemInv'
<1> USE DEF MemInv
<1>1. /\ tool' = Memory!NoTool
      /\ kind' = kind /\ conf' = conf /\ cache' = cache /\ mirror' = mirror
      /\ db' = db /\ lasting' = lasting /\ gap' = gap /\ unread' = unread
      /\ made' = made /\ served' = {}
  BY DEF Memory!Archive, Memory!process, Memory!agentdb, Memory!counts
<1>2. \/ file.there /\ ~bak.there /\ bak' = file /\ file' = Memory!NoFile
      \/ bak' = bak /\ file' = file
  BY DEF Memory!Archive, Memory!disk
<1>3. CASE bak' = bak /\ file' = file
  BY <1>1, <1>3, NoToolFacts, OnlyTool
<1>4. CASE file.there /\ ~bak.there /\ bak' = file /\ file' = Memory!NoFile
  <2>1. bak.entries = <<>>
    BY <1>4 DEF Archived
  <2>2. MemTypes'
    BY <1>1, <1>4, Nothing, NoToolFacts, MemSizes, SMTT(60)
    DEF MemTypes, Memory!Confs, Memory!Ids, Memory!Vector, Memory!NoVector, Memory!NoUpsert
  <2>3. Resting' /\ Archived' /\ ServedWell'
    BY <1>1, <1>4 DEF Resting, Archived, ServedWell, Memory!NoUpsert
  <2>4. Remembered'
    BY <1>1, <1>4, <2>1, Nothing DEF Remembered
  <2>5. NumbersKept'
    BY <1>1, <1>4, Nothing DEF NumbersKept, Numbered
  <2>6. Synced'
    <3> SUFFICES ASSUME ~gap', ~unread' PROVE Synced'
      BY DEF Synced
    <3>1. Mirrors(cache) /\ LastPending
      BY <1>1 DEF Synced
    <3>2. Mirrors(cache)' /\ LastPending'
      BY <1>1, <3>1 DEF Mirrors, LastPending, Memory!NoUpsert
    <3>3. file'.entries = <<>> /\ Len(cache) \in Nat
      BY <1>4, Nothing, LenProperties DEF MemTypes
    <3>4. Mirrors(file.entries)' /\ Begins(file'.entries, cache')
      BY <1>1, <3>3, Nothing DEF Mirrors, Begins
    <3> QED BY <1>1, <3>2, <3>4, NoToolFacts DEF Synced
  <2> QED BY <2>2, <2>3, <2>4, <2>5, <2>6
<1> QED BY <1>2, <1>3, <1>4

-------------------------------------------------------------------------------
(* The results.                                                             *)

LEMMA MemBegins == Memory!Init /\ kind \in {"clr", "traj"} => MemInv
<1> SUFFICES ASSUME Memory!Init PROVE MemInv
  OBVIOUS
<1> USE DEF Memory!Init
<1>1. db \in [Memory!Ids -> Memory!Vector \cup {Memory!NoVector}]
  OBVIOUS
<1>2. MemTypes
  BY <1>1, Nothing, NoToolFacts, MemSizes DEF MemTypes
<1>3. Resting /\ Archived /\ ServedWell
  BY Nothing DEF Resting, Archived, ServedWell
<1>4. Remembered /\ NumbersKept
  BY Nothing DEF Remembered, NumbersKept, Numbered
<1>5. Synced
  BY Nothing, NoToolFacts DEF Synced, Mirrors, LastPending, Begins
<1> QED BY <1>2, <1>3, <1>4, <1>5 DEF MemInv

LEMMA MemSteps ==
  ASSUME MemInv, Memory!Next
  PROVE  MemInv'
<1>1. ASSUME NEW q \in Problems, Memory!Lookup(q) PROVE MemInv'
  BY <1>1, LookupStep
<1>2. ASSUME NEW q \in Problems, Memory!LookupVectors(q) PROVE MemInv'
  BY <1>2, LookupVectorsStep
<1>3. ASSUME NEW q \in Problems, NEW v \in BOOLEAN, NEW s \in MemoryScores, Memory!Insert(q, v, s)
      PROVE  MemInv'
  BY <1>3, InsertStep
<1>4. ASSUME Memory!Upsert PROVE MemInv'
  BY <1>4, UpsertStep
<1>5. ASSUME NEW c \in Memory!Confs, Memory!Start(c) PROVE MemInv'
  BY <1>5, StartStep
<1>6. ASSUME Memory!Stop PROVE MemInv'
  BY <1>6, StopStep
<1>7. ASSUME Memory!Outage \/ Memory!Recover PROVE MemInv'
  BY <1>7, OutageStep
<1>8. ASSUME Memory!BackfillBegins PROVE MemInv'
  BY <1>8, BackfillBeginsStep
<1>9. ASSUME Memory!BackfillEntry PROVE MemInv'
  BY <1>9, BackfillEntryStep
<1>10. ASSUME NEW force \in BOOLEAN, Memory!FinalizeBegins(force) PROVE MemInv'
  BY <1>10, FinalizeBeginsStep
<1>11. ASSUME Memory!Archive PROVE MemInv'
  BY <1>11, ArchiveStep
<1> QED BY <1>1, <1>2, <1>3, <1>4, <1>5, <1>6, <1>7, <1>8, <1>9, <1>10, <1>11 DEF Memory!Next

LEMMA StoresKeepMem ==
  ASSUME MemInv, [StoresNext]_storeVars
  PROVE  MemInv'
<1>1. CASE Remembers
  BY <1>1, MemSteps DEF Remembers
<1>2. CASE UNCHANGED memoryVars
  BY <1>2, MemUnchanged
<1>3. Remembers \/ UNCHANGED memoryVars
  BY DEF StoresNext, Distils, Records, storeVars
<1> QED BY <1>1, <1>2, <1>3

THEOREM MemInvariant == StoresSpec => []MemInv
<1>1. StoresInit => MemInv
  BY MemBegins DEF StoresInit, Memory!Init
<1>2. MemInv /\ [StoresNext]_storeVars => MemInv'
  BY StoresKeepMem
<1> QED BY <1>1, <1>2, PTL DEF StoresSpec

\* Every answer from a memory (lookup(), retrieve(), from the file or from
\* AgentDB) is a verified one for a problem near enough.
THEOREM VerifiedServed == StoresSpec => []OnlyVerifiedServed
<1>1. MemInv => OnlyVerifiedServed
  <2> SUFFICES ASSUME MemInv PROVE OnlyVerifiedServed
    OBVIOUS
  <2> USE DEF MemInv
  <2>1. Memory!TypeOK
    <3>1. cache \in Seq(Memory!Entry) /\ Len(cache) <= MemoryEntries /\ conf \in Memory!Confs \cup {"down"}
      BY DEF MemTypes, MemEntry
    <3>2. file.entries \in Seq(Memory!Entry) /\ bak.entries \in Seq(Memory!Entry)
      BY DEF MemTypes, MemFile, MemEntry
    <3>3. \A i \in Memory!Ids : db[i] \in Memory!Vector \cup {Memory!NoVector}
      BY DEF MemTypes
    <3> QED BY <3>1, <3>2, <3>3 DEF Memory!TypeOK
  <2> QED BY <2>1 DEF OnlyVerifiedServed, Memory!OnlyVerifiedServed, ServedWell
<1> QED BY <1>1, MemInvariant, PTL

\* A saved entry that was not evicted is in the file or in its archive, whatever
\* restarts, failed saves and migrations follow.
THEOREM SavedLasts == StoresSpec => []NothingLost
<1>1. MemInv => NothingLost
  BY DEF MemInv, Remembered, NothingLost, Memory!NothingLost
<1> QED BY <1>1, MemInvariant, PTL

\* AgentDB has each entry in memory at the entry's position, up to a gap
\* (AgentDBVectorStore.upsert(), backfill()).
THEOREM MirrorAgrees == StoresSpec => []MirrorFaithful
<1>1. MemInv => MirrorFaithful
  <2> SUFFICES ASSUME MemInv, ~gap, ~unread,
                      NEW i \in DOMAIN cache
               PROVE  mirror.id = i - 1 \/ db[i-1].no = cache[i].no
    BY DEF MirrorFaithful, Memory!MirrorFaithful
  <2>1. DOMAIN cache = 1..Len(cache)
    BY LenProperties DEF MemInv, MemTypes
  <2>2. Mirrors(cache)
    BY DEF MemInv, Synced
  <2> QED BY <2>1, <2>2 DEF Mirrors
<1> QED BY <1>1, MemInvariant, PTL

-------------------------------------------------------------------------------
(***************************************************************************)
(* The store of trajectories.                                               *)
(***************************************************************************)

LEMMA TrajSizes ==
  /\ MaxEntries \in Nat /\ MaxEntries >= 1 /\ MinCluster \in Nat /\ MinCluster >= 1
  /\ MaxClusters \in Nat /\ MaxClusters >= 1
  /\ MaxSolved \in Nat /\ MaxUses \in Nat /\ MaxCrashes \in Nat
  /\ Scores \subseteq Nat
BY TrajectoryStoreAssumption

\* What an entry has.
LEMMA TrajFields ==
  ASSUME NEW e \in Entry
  PROVE  /\ e.of \in SUBSET (1..MaxSolved) /\ e.class \in Classes
         /\ e.kind \in {"solved", "rule", "proven"}
         /\ e.score \in Nat /\ e.uses \in 0..MaxUses
<1>1. /\ e.of \in SUBSET (1..MaxSolved) /\ e.class \in Classes
      /\ e.kind \in {"solved", "rule", "proven"}
      /\ e.score \in Scores \cup {0, 1} /\ e.uses \in 0..MaxUses
  BY DEF Entry
<1>2. e.score \in Nat
  <2>1. Scores \subseteq Nat /\ 0 \in Nat /\ 1 \in Nat
    BY TrajSizes
  <2> QED BY <1>1, <2>1
<1> QED BY <1>1, <1>2

LEMMA TrajList ==
  ASSUME NEW es \in Seq(Entry)
  PROVE  /\ Len(es) \in Nat /\ DOMAIN es = 1..Len(es)
         /\ \A i \in 1..Len(es) : es[i] \in Entry
<1>1. Len(es) \in Nat /\ DOMAIN es = 1..Len(es)
  BY LenProperties
<1> QED BY <1>1, ElementOfSeq

\* ds has elements of es, each position at most once.
Picked(ds, es) ==
  \E f \in [1..Len(ds) -> 1..Len(es)] :
    /\ \A r \in 1..Len(ds) : ds[r] = es[f[r]]
    /\ \A r, t \in 1..Len(ds) : f[r] = f[t] => r = t

\* The entries of es but those at positions "gone" have no solution twice.
Apart(es, gone) ==
  \A i, j \in 1..Len(es) :
    i \notin gone /\ j \notin gone /\ i # j => es[i].of \cap es[j].of = {}

\* The solutions of es are numbered up to n.
UpToSolved(es, n) == \A i \in 1..Len(es) : es[i].of \subseteq 1..n

LEMMA PickedFacts ==
  ASSUME NEW ds, NEW es, Picked(ds, es)
  PROVE  /\ Apart(es, {}) => Apart(ds, {})
         /\ \A n : UpToSolved(es, n) => UpToSolved(ds, n)
<1>1. PICK f \in [1..Len(ds) -> 1..Len(es)] :
        /\ \A r \in 1..Len(ds) : ds[r] = es[f[r]]
        /\ \A r, t \in 1..Len(ds) : f[r] = f[t] => r = t
  BY DEF Picked
<1>2. ASSUME Apart(es, {}), NEW r \in 1..Len(ds), NEW t \in 1..Len(ds), r # t
      PROVE  ds[r].of \cap ds[t].of = {}
  BY <1>1, <1>2 DEF Apart
<1>3. ASSUME NEW n, UpToSolved(es, n), NEW r \in 1..Len(ds)
      PROVE  ds[r].of \subseteq 1..n
  BY <1>1, <1>3 DEF UpToSolved
<1> QED BY <1>2, <1>3 DEF Apart, UpToSolved

\* store() appends, and keeps the best max_entries.
LEMMA StoredFacts ==
  ASSUME NEW es \in Seq(Entry), NEW e \in Entry, Len(es) <= MaxEntries
  PROVE  /\ Stored(es, e) \in Seq(Entry) /\ Len(Stored(es, e)) <= MaxEntries
         /\ Picked(Stored(es, e), Append(es, e))
         /\ ~Full(es) => Stored(es, e) = Append(es, e)
<1> DEFINE all == Append(es, e)
           S == DOMAIN all
           before == {p \in Pairs(S) : Ahead(all, p[1], p[2])}
           best == Ranking(all)
<1>1. Len(es) \in Nat /\ MaxEntries \in Nat
  BY TrajList, TrajSizes
<1>2. all \in Seq(Entry) /\ Len(all) = Len(es) + 1
  BY AppendProperties
<1> HIDE DEF all
<1>3. S = 1..Len(all) /\ \A i \in 1..Len(all) : all[i] \in Entry
  BY <1>2, TrajList
<1>4. ~Full(es) => Len(all) <= MaxEntries
  BY <1>1, <1>2 DEF Full
<1>5. CASE Len(all) <= MaxEntries
  <2> DEFINE f == [r \in 1..Len(all) |-> r]
  <2>1. Stored(es, e) = all
    BY <1>5 DEF Stored, all
  <2>2. f \in [1..Len(all) -> 1..Len(all)] /\ \A r \in 1..Len(all) : f[r] = r
    OBVIOUS
  <2> HIDE DEF f
  <2>3. Picked(all, all)
    BY <2>2 DEF Picked
  <2> QED BY <1>2, <1>5, <2>1, <2>3 DEF all
<1>6. CASE ~(Len(all) <= MaxEntries)
  <2>1. \A i \in S : all[i].uses \in Nat /\ all[i].score \in Nat
    BY <1>3, TrajFields, TrajSizes
  <2>2. \A i, k \in S : <<i, k>> \in before <=> Ahead(all, i, k)
    BY DEF Pairs
  <2>3. Orders(before, S)
    <3> HIDE DEF before
    <3>1. \A i \in S : ~Ahead(all, i, i)
      BY <1>3, <2>1 DEF Ahead
    <3>2. \A i, j, k \in S : Ahead(all, i, j) /\ Ahead(all, j, k) => Ahead(all, i, k)
      BY <1>3, <2>1, SMTT(60) DEF Ahead
    <3>3. \A i, j \in S : i # j => Ahead(all, i, j) \/ Ahead(all, j, i)
      BY <1>3, <2>1 DEF Ahead
    <3> QED BY <2>2, <3>1, <3>2, <3>3 DEF Orders
  <2>4. IsFiniteSet(S) /\ Cardinality(S) = Len(all)
    BY <1>1, <1>2, <1>3, UpTo
  <2>5. best = Listed(S, before)
    BY DEF Ranking
  <2> HIDE DEF before, best
  <2>6. /\ best \in [1..Len(all) -> 1..Len(all)]
        /\ \A m, n \in 1..Len(all) : best[m] = best[n] => m = n
    <3> HIDE DEF S
    <3>1. /\ best \in [1..Cardinality(S) -> S]
          /\ \A m, n \in 1..Cardinality(S) : best[m] = best[n] => m = n
      BY <2>3, <2>4, <2>5, ListedFacts
    <3> QED BY <1>3, <2>4, <3>1 DEF S
  <2> DEFINE kept == [r \in 1..MaxEntries |-> all[best[r]]]
             f == [r \in 1..MaxEntries |-> best[r]]
  <2>7. Stored(es, e) = kept
    BY <1>6 DEF Stored, all, best
  <2>8. \A r \in 1..MaxEntries : r \in 1..Len(all)
    BY <1>1, <1>2, <1>6
  <2>9. /\ f \in [1..MaxEntries -> 1..Len(all)]
        /\ \A r \in 1..MaxEntries : kept[r] = all[f[r]]
        /\ \A r, t \in 1..MaxEntries : f[r] = f[t] => r = t
    BY <2>6, <2>8
  <2>10. kept \in [1..MaxEntries -> Entry]
    BY <1>3, <2>6, <2>8
  <2>11. kept \in Seq(Entry) /\ Len(kept) = MaxEntries
    <3> HIDE DEF kept
    <3>1. kept \in Seq(Entry) /\ DOMAIN kept = 1..MaxEntries
      BY <1>1, <2>10
    <3> QED BY <1>1, <3>1, LenProperties
  <2> HIDE DEF kept, f
  <2>12. Picked(kept, all)
    BY <2>9, <2>11 DEF Picked
  <2> QED BY <1>1, <1>4, <1>6, <2>7, <2>11, <2>12 DEF all
<1> QED BY <1>5, <1>6

\* remove_entries() and _load() keep the entries elsewhere.
LEMMA KeptFacts ==
  ASSUME NEW es \in Seq(Entry), NEW places \in SUBSET DOMAIN es
  PROVE  /\ At(es, places) \in Seq(Entry) /\ Len(At(es, places)) <= Len(es)
         /\ Picked(At(es, places), es)
         /\ \A i \in places : \E n \in 1..Len(At(es, places)) : At(es, places)[n] = es[i]
         /\ Apart(es, 1..Len(es) \ places) => Apart(At(es, places), {})
<1> DEFINE ds == At(es, places)
<1>1. Len(es) \in Nat /\ DOMAIN es = 1..Len(es)
  BY TrajList
<1>2. /\ ds \in Seq(Entry) /\ Len(ds) = Cardinality(places) /\ Len(ds) <= Len(es)
      /\ \E f \in [1..Cardinality(places) -> places] :
           /\ \A n \in 1..Cardinality(places) : ds[n] = es[f[n]]
           /\ \A m, n \in 1..Cardinality(places) : f[m] = f[n] => m = n
           /\ Covers(f, places)
  BY AtFacts
<1>3. PICK f \in [1..Cardinality(places) -> places] :
        /\ \A n \in 1..Cardinality(places) : ds[n] = es[f[n]]
        /\ \A m, n \in 1..Cardinality(places) : f[m] = f[n] => m = n
        /\ Covers(f, places)
  BY <1>2
<1> HIDE DEF ds
<1>4. f \in [1..Len(ds) -> 1..Len(es)]
  BY <1>1, <1>2
<1>5. Picked(ds, es)
  BY <1>2, <1>3, <1>4, SMTT(60) DEF Picked
<1>6. \A i \in places : \E n \in 1..Len(ds) : ds[n] = es[i]
  BY <1>2, <1>3 DEF Covers
<1>7. ASSUME Apart(es, 1..Len(es) \ places), NEW r \in 1..Len(ds), NEW t \in 1..Len(ds), r # t
      PROVE  ds[r].of \cap ds[t].of = {}
  <2>1. f[r] \in places /\ f[t] \in places /\ f[r] # f[t]
    BY <1>2, <1>3, <1>7
  <2> QED BY <1>1, <1>2, <1>3, <1>7, <2>1 DEF Apart
<1> QED BY <1>2, <1>5, <1>6, <1>7 DEF ds, Apart

LEMMA HoldingFacts ==
  ASSUME NEW es \in Seq(Entry), NEW kinds, NEW n
  PROVE  n \in Holding(es, kinds) <=>
           \E i \in 1..Len(es) : es[i].kind \in kinds /\ n \in es[i].of
<1>1. DOMAIN es = 1..Len(es)
  BY TrajList
<1> QED BY <1>1 DEF Holding

\* The least number of a set (find_clusters() orders clusters by it).
LEMMA FirstFacts ==
  ASSUME NEW S \in SUBSET Nat, S # {}
  PROVE  First(S) \in S /\ \A j \in S : First(S) <= j
<1> DEFINE Below == OpToRel(<, Nat)
<1>1. IsWellFoundedOn(Below, Nat)
  BY NatLessThanWellFounded
<1>2. \A k, m \in Nat : <<k, m>> \in Below <=> k < m
  BY DEF OpToRel
<1> HIDE DEF Below
<1>3. PICK m \in S : \A k \in S : <<k, m>> \notin Below
  BY <1>1, WFMin
<1>4. ASSUME NEW k \in S PROVE m <= k
  <2>1. k \in Nat /\ m \in Nat /\ ~ (k < m)
    BY <1>2, <1>3
  <2> QED BY <2>1
<1> QED BY <1>4 DEF First

-------------------------------------------------------------------------------
(* A synthesis.                                                             *)

Synthesis ==
  [pc : {"idle", "asking", "proving"}, clusters : Seq(SUBSET (1..MaxEntries)), at : Nat,
   batch : SUBSET (1..MaxSolved), class : Classes \cup {"none"}, ctx : BOOLEAN,
   remove : SUBSET (1..MaxEntries), sources : SUBSET (1..MaxSolved)]

SynTypes(s, n) ==
  /\ s \in Synthesis
  /\ s.at \in 0..Len(s.clusters)
  /\ s.batch \subseteq 1..n /\ s.sources \subseteq 1..n

LEMMA IdleTypes ==
  /\ \A n \in Nat : SynTypes(Idle, n)
  /\ Idle.pc = "idle" /\ Idle.remove = {} /\ Idle.sources = {}
<1>1. <<>> \in Seq(SUBSET (1..MaxEntries)) /\ Len(<<>>) = 0
  BY EmptySeq
<1>2. FALSE \in BOOLEAN
  OBVIOUS
<1>3. Idle \in Synthesis /\ Idle.clusters = <<>>
  BY <1>1, <1>2 DEF Synthesis, Idle
<1>4. Idle.at = 0 /\ Idle.batch = {} /\ Idle.sources = {} /\ Idle.pc = "idle" /\ Idle.remove = {}
  BY DEF Idle
<1> QED BY <1>1, <1>3, <1>4 DEF SynTypes

\* The clusters were made of entries that are there, none in two.
ClustersFit(s, es) ==
  /\ \A m \in 1..Len(s.clusters) : s.clusters[m] \subseteq 1..Len(es)
  /\ \A m, n \in 1..Len(s.clusters) : m # n => s.clusters[m] \cap s.clusters[n] = {}

\* What is going to be removed is of the clusters before the k-th.
RemovesBefore(s, k) == \A i \in s.remove : \E m \in 1..(k - 1) : i \in s.clusters[m]

\* Each solution of the i-th entry was shown to the generalist and is held by
\* an entry outside the clusters.
StoodFor(es, i, s) ==
  \A n \in es[i].of :
    /\ n \in s.sources
    /\ \E k \in 1..Len(es) : n \in es[k].of
                           /\ \A m \in 1..Len(s.clusters) : k \notin s.clusters[m]

Stands(es, s) ==
  \A i \in 1..Len(es) : i \in s.remove /\ es[i].kind = "solved" => StoodFor(es, i, s)

\* The i-th entry shares its cluster with a solution among those shown.
Beside(es, i, s, shown) ==
  \E m \in 1..Len(s.clusters) :
    i \in s.clusters[m]
    /\ \E j \in s.clusters[m] : es[j].kind = "solved" /\ es[j].of \subseteq shown

\* So does all that is going to be removed.
AllBeside(es, s) == \A i \in s.remove : Beside(es, i, s, s.sources)

Midway(es, s, k) ==
  /\ ClustersFit(s, es) /\ RemovesBefore(s, k)
  /\ Stands(es, s) /\ AllBeside(es, s) /\ Apart(es, s.remove)

\* The batch is what the cluster at work holds now, and that is something.
Batched(es, s) ==
  /\ Raw(es, s.clusters[s.at]) # {}
  /\ \A n : n \in s.batch <=> \E i \in Raw(es, s.clusters[s.at]) : n \in es[i].of

TrajTypes ==
  /\ entries \in Seq(Entry) /\ Len(entries) <= MaxEntries
  /\ solved \in 0..MaxSolved /\ UpToSolved(entries, solved)
  /\ SynTypes(syn, solved)
  /\ syn.pc = "idle" => syn = Idle
  /\ syn.pc # "idle" => syn.class \in Classes /\ syn.at >= 1
  /\ disturbed \in BOOLEAN
  /\ crashes \in 0..MaxCrashes

TrajSound ==
  ~disturbed =>
    /\ Apart(entries, syn.remove)
    /\ syn.pc # "idle" => Midway(entries, syn, syn.at) /\ Batched(entries, syn)

TrajInv == TrajTypes /\ TrajSound

LEMMA RawFacts ==
  ASSUME NEW es \in Seq(Entry), NEW c
  PROVE  /\ Raw(es, c) \in SUBSET (1..Len(es)) /\ Raw(es, c) \subseteq c
         /\ \A i \in Raw(es, c) : es[i].kind = "solved" /\ es[i] \in Entry
         /\ Raw(es, c) \in SUBSET Nat
<1>1. Len(es) \in Nat /\ DOMAIN es = 1..Len(es) /\ \A i \in 1..Len(es) : es[i] \in Entry
  BY TrajList
<1> QED BY <1>1 DEF Raw

\* The first of highest score exists.
LEMMA RepresentativeFacts ==
  ASSUME NEW es \in Seq(Entry), NEW S \in SUBSET (1..Len(es)), S # {}
  PROVE  Representative(es, S) \in S
<1> DEFINE Better(i, j) == es[i].score > es[j].score \/ (es[i].score = es[j].score /\ i < j)
           before == {p \in S \X S : Better(p[1], p[2])}
<1>1. Len(es) \in Nat /\ S \subseteq Nat /\ \A i \in S : es[i].score \in Nat
  BY TrajList, TrajFields
<1>2. IsFiniteSet(S)
  BY <1>1, UpTo, FS_Subset
<1>3. \A i, k \in S : <<i, k>> \in before <=> Better(i, k)
  OBVIOUS
<1>4. Orders(before, S)
  <2> HIDE DEF before
  <2>1. \A i \in S : ~Better(i, i)
    BY <1>1
  <2>2. \A i, j, k \in S : Better(i, j) /\ Better(j, k) => Better(i, k)
    BY <1>1
  <2>3. ASSUME NEW i \in S, NEW j \in S, i # j PROVE Better(i, j) \/ Better(j, i)
    <3>1. i \in Nat /\ j \in Nat /\ es[i].score \in Nat /\ es[j].score \in Nat
      BY <1>1
    <3> QED BY <2>3, <3>1
  <2> HIDE DEF Better
  <2> QED BY <1>3, <2>1, <2>2, <2>3 DEF Orders
<1> HIDE DEF before
<1> DEFINE l == Listed(S, before)
<1>5. /\ Cardinality(S) \in Nat /\ l \in [1..Cardinality(S) -> S]
      /\ \A m, n \in 1..Cardinality(S) : <<l[m], l[n]>> \in before <=> m < n
      /\ Covers(l, S)
  BY <1>2, <1>4, ListedFacts
<1> HIDE DEF l
<1>6. Cardinality(S) >= 1
  BY <1>2, <1>5, FS_EmptySet
<1>7. l[1] \in S /\ 1 \in 1..Cardinality(S)
  BY <1>5, <1>6
<1>8. ASSUME NEW j \in S
      PROVE  es[l[1]].score > es[j].score \/ (es[l[1]].score = es[j].score /\ l[1] <= j)
  <2>1. PICK n \in 1..Cardinality(S) : l[n] = j
    BY <1>5 DEF Covers
  <2>2. CASE n = 1
    BY <1>1, <1>7, <2>1, <2>2
  <2>3. CASE n # 1
    <3>1. <<l[1], l[n]>> \in before
      BY <1>5, <1>7, <2>3
    <3>2. Better(l[1], j)
      BY <1>3, <1>7, <2>1, <3>1
    <3>3. l[1] \in Nat /\ j \in Nat
      BY <1>1, <1>7
    <3>4. es[l[1]].score > es[j].score \/ (es[l[1]].score = es[j].score /\ l[1] < j)
      BY <3>2
    <3> HIDE DEF Better
    <3> QED BY <3>3, <3>4
  <2> QED BY <2>2, <2>3
<1> QED BY <1>7, <1>8 DEF Representative

\* The next cluster is a cluster from the k-th on, with enough raw entries.
LEMMA NextFacts ==
  ASSUME NEW es \in Seq(Entry), NEW s \in Synthesis, NEW k \in Nat, k >= 1
  PROVE  LET j == NextCluster(es, s, k) IN
         \/ j = 0
         \/ /\ j \in k..Len(s.clusters) /\ j # 0
            /\ Raw(es, s.clusters[j]) # {}
<1> DEFINE left == {j \in k..Len(s.clusters) :
                      Cardinality(Raw(es, s.clusters[j])) >= MinCluster}
<1>1. Len(s.clusters) \in Nat
  BY LenProperties DEF Synthesis
<1>2. left \in SUBSET Nat
  BY <1>1
<1>3. CASE left = {}
  BY <1>3 DEF NextCluster
<1>4. CASE left # {}
  <2>1. NextCluster(es, s, k) = First(left)
    BY <1>4 DEF NextCluster
  <2>2. First(left) \in left
    <3> HIDE DEF left
    <3> QED BY <1>2, <1>4, FirstFacts
  <2>3. First(left) \in k..Len(s.clusters)
        /\ Cardinality(Raw(es, s.clusters[First(left)])) >= MinCluster
    BY <2>2
  <2> HIDE DEF left
  <2> DEFINE j == First(left)
  <2>4. j # 0
    BY <1>1, <2>3
  <2>5. Raw(es, s.clusters[j]) # {}
    <3> SUFFICES ASSUME Raw(es, s.clusters[j]) = {} PROVE FALSE
      OBVIOUS
    <3>1. MinCluster >= 1 /\ MinCluster \in Nat
      BY TrajSizes
    <3>2. Cardinality(Raw(es, s.clusters[j])) = 0
      BY FS_EmptySet
    <3>3. Cardinality(Raw(es, s.clusters[j])) >= MinCluster
      BY <2>3
    <3> QED BY <3>1, <3>2, <3>3
  <2> QED BY <2>1, <2>3, <2>4, <2>5
<1> QED BY <1>3, <1>4

\* What the synthesis is after Proceed.
LEMMA Proceeded ==
  ASSUME NEW es \in Seq(Entry), NEW s \in Synthesis, NEW k \in Nat, k >= 1, Proceed(es, s, k)
  PROVE  \/ entries' = Removed(es, s.remove) /\ syn' = Idle
         \/ \E j \in k..Len(s.clusters) :
              /\ entries' = es /\ Raw(es, s.clusters[j]) # {}
              /\ syn'.pc = "asking" /\ syn'.at = j /\ syn'.clusters = s.clusters
              /\ syn'.remove = s.remove /\ syn'.sources = s.sources
              /\ syn'.batch = UNION {es[i].of : i \in Raw(es, s.clusters[j])}
              /\ syn'.class \in Classes
              /\ syn' \in Synthesis
<1> DEFINE j == NextCluster(es, s, k)
           raw == Raw(es, s.clusters[j])
<1>1. j = 0 \/ (j \in k..Len(s.clusters) /\ j # 0 /\ raw # {})
  BY NextFacts
<1>2. CASE j = 0
  BY <1>2 DEF Proceed
<1>3. CASE j # 0
  <2> DEFINE b == UNION {es[i].of : i \in raw}
             c == es[Representative(es, raw)].class
             x == \A i \in raw : es[i].class \in CodeClasses
  <2>1. /\ entries' = es
        /\ syn' = [s EXCEPT !.pc = "asking", !.at = j, !.batch = b, !.class = c, !.ctx = x]
    BY <1>3 DEF Proceed
  <2>2. x \in BOOLEAN
    OBVIOUS
  <2>3. raw \in SUBSET (1..Len(es)) /\ \A i \in raw : es[i] \in Entry
    BY RawFacts
  <2>4. c \in Classes
    <3>1. Representative(es, raw) \in raw
      <4> HIDE DEF raw
      <4> QED BY <1>1, <1>3, <2>3, RepresentativeFacts
    <3> QED BY <2>3, <3>1, TrajFields
  <2>5. b \in SUBSET (1..MaxSolved)
    <3>1. \A i \in raw : es[i].of \subseteq 1..MaxSolved
      BY <2>3, TrajFields
    <3> HIDE DEF raw
    <3> QED BY <3>1
  <2>6. j \in Nat
    <3>1. Len(s.clusters) \in Nat
      BY LenProperties DEF Synthesis
    <3> HIDE DEF j, raw
    <3> QED BY <1>1, <1>3, <3>1
  <2> HIDE DEF j, raw, b, c, x
  <2>7. /\ syn'.pc = "asking" /\ syn'.at = j /\ syn'.clusters = s.clusters
        /\ syn'.remove = s.remove /\ syn'.sources = s.sources /\ syn'.batch = b /\ syn'.class = c
        /\ syn' \in Synthesis
    BY <2>1, <2>2, <2>4, <2>5, <2>6 DEF Synthesis
  <2>8. j \in k..Len(s.clusters) /\ raw # {}
    BY <1>1, <1>3
  <2>9. syn'.batch = UNION {es[i].of : i \in Raw(es, s.clusters[j])}
    BY <2>7 DEF b, raw
  <2>10. Raw(es, s.clusters[j]) # {}
    BY <2>8 DEF raw
  <2>11. syn'.class \in Classes
    BY <2>4, <2>7
  <2>12. /\ entries' = es /\ syn'.pc = "asking" /\ syn'.at = j /\ syn'.clusters = s.clusters
         /\ syn'.remove = s.remove /\ syn'.sources = s.sources /\ syn' \in Synthesis
    BY <2>1, <2>7
  <2> QED BY <2>8, <2>9, <2>10, <2>11, <2>12
<1> QED BY <1>2, <1>3

LEMMA RemovedFacts ==
  ASSUME NEW es \in Seq(Entry), Len(es) <= MaxEntries, NEW gone
  PROVE  /\ Removed(es, gone) \in Seq(Entry) /\ Len(Removed(es, gone)) <= MaxEntries
         /\ Picked(Removed(es, gone), es)
         /\ \A i \in 1..Len(es) : i \notin gone =>
              \E n \in 1..Len(Removed(es, gone)) : Removed(es, gone)[n] = es[i]
         /\ Apart(es, gone) => Apart(Removed(es, gone), {})
<1> DEFINE places == DOMAIN es \ gone
<1>1. Len(es) \in Nat /\ DOMAIN es = 1..Len(es) /\ MaxEntries \in Nat
  BY TrajList, TrajSizes
<1>2. places \in SUBSET DOMAIN es /\ \A i \in 1..Len(es) : i \notin gone => i \in places
  BY <1>1
<1>3. Removed(es, gone) = At(es, places)
  BY DEF Removed
<1>4. Apart(es, gone) => Apart(es, 1..Len(es) \ places)
  BY <1>1 DEF Apart
<1> HIDE DEF places
<1>5. /\ At(es, places) \in Seq(Entry) /\ Len(At(es, places)) <= Len(es)
      /\ Picked(At(es, places), es)
      /\ \A i \in places : \E n \in 1..Len(At(es, places)) : At(es, places)[n] = es[i]
      /\ Apart(es, 1..Len(es) \ places) => Apart(At(es, places), {})
  BY <1>2, KeptFacts
<1>6. Len(At(es, places)) <= MaxEntries
  <2>1. Len(At(es, places)) \in Nat
    BY <1>5, LenProperties
  <2> QED BY <1>1, <1>5, <2>1
<1> QED BY <1>2, <1>3, <1>4, <1>5, <1>6

\* The types after Proceed.
LEMMA ProceedTypes ==
  ASSUME NEW es \in Seq(Entry), Len(es) <= MaxEntries, solved \in 0..MaxSolved,
         UpToSolved(es, solved), NEW s, SynTypes(s, solved), NEW k \in Nat, k >= 1,
         Proceed(es, s, k)
  PROVE  /\ entries' \in Seq(Entry) /\ Len(entries') <= MaxEntries
         /\ UpToSolved(entries', solved) /\ SynTypes(syn', solved)
         /\ syn'.pc = "idle" => syn' = Idle
         /\ syn'.pc # "idle" => syn'.class \in Classes /\ syn'.at >= 1
<1>1. s \in Synthesis /\ s.sources \subseteq 1..solved /\ Len(s.clusters) \in Nat
  BY LenProperties DEF SynTypes, Synthesis
<1>2. solved \in Nat
  BY TrajSizes
<1>3. CASE entries' = Removed(es, s.remove) /\ syn' = Idle
  <2>1. /\ Removed(es, s.remove) \in Seq(Entry) /\ Len(Removed(es, s.remove)) <= MaxEntries
        /\ Picked(Removed(es, s.remove), es)
    BY RemovedFacts
  <2>2. UpToSolved(Removed(es, s.remove), solved)
    BY <2>1, PickedFacts
  <2> QED BY <1>2, <1>3, <2>1, <2>2, IdleTypes
<1>4. ASSUME NEW j \in k..Len(s.clusters),
             entries' = es, syn'.pc = "asking", syn'.at = j, syn'.clusters = s.clusters,
             syn'.sources = s.sources,
             syn'.batch = UNION {es[i].of : i \in Raw(es, s.clusters[j])},
             syn'.class \in Classes, syn' \in Synthesis
      PROVE  /\ entries' \in Seq(Entry) /\ Len(entries') <= MaxEntries
             /\ UpToSolved(entries', solved) /\ SynTypes(syn', solved)
             /\ syn'.pc = "idle" => syn' = Idle
             /\ syn'.pc # "idle" => syn'.class \in Classes /\ syn'.at >= 1
  <2>1. \A i \in Raw(es, s.clusters[j]) : es[i].of \subseteq 1..solved
    BY RawFacts DEF UpToSolved
  <2>2. UNION {es[i].of : i \in Raw(es, s.clusters[j])} \subseteq 1..solved
    BY <2>1
  <2>3. j \in 0..Len(s.clusters) /\ j >= 1
    BY <1>1
  <2>4. SynTypes(syn', solved)
    BY <1>1, <1>4, <2>2, <2>3 DEF SynTypes
  <2> QED BY <1>4, <2>3, <2>4
<1> QED BY <1>1, <1>3, <1>4, Proceeded

\* Half-way a synthesis stays sound, and at its end no solution is there twice.
LEMMA ProceedSound ==
  ASSUME NEW es \in Seq(Entry), Len(es) <= MaxEntries, NEW s, SynTypes(s, solved),
         NEW k \in Nat, k >= 1, Midway(es, s, k), Proceed(es, s, k)
  PROVE  /\ Apart(entries', syn'.remove)
         /\ syn'.pc # "idle" => Midway(entries', syn', syn'.at) /\ Batched(entries', syn')
<1>1. s \in Synthesis /\ Len(s.clusters) \in Nat
  BY LenProperties DEF SynTypes, Synthesis
<1>2. CASE entries' = Removed(es, s.remove) /\ syn' = Idle
  <2>1. Apart(Removed(es, s.remove), {})
    BY RemovedFacts DEF Midway
  <2> QED BY <1>2, <2>1, IdleTypes
<1>3. ASSUME NEW j \in k..Len(s.clusters),
             entries' = es, syn'.pc = "asking", syn'.at = j, syn'.clusters = s.clusters,
             syn'.remove = s.remove, syn'.sources = s.sources,
             Raw(es, s.clusters[j]) # {},
             syn'.batch = UNION {es[i].of : i \in Raw(es, s.clusters[j])}
      PROVE  /\ Apart(entries', syn'.remove)
             /\ Midway(entries', syn', syn'.at) /\ Batched(entries', syn')
  <2>1. /\ ClustersFit(syn', es) /\ Stands(es, syn') /\ AllBeside(es, syn')
        /\ Apart(es, syn'.remove)
    BY <1>3 DEF Midway, ClustersFit, Stands, StoodFor, AllBeside, Beside
  <2>2. RemovesBefore(syn', j)
    <3>1. \A i \in s.remove : \E m \in 1..(k - 1) : i \in s.clusters[m]
      BY DEF Midway, RemovesBefore
    <3>2. \A m \in 1..(k - 1) : m \in 1..(j - 1)
      BY <1>1
    <3> QED BY <1>3, <3>1, <3>2 DEF RemovesBefore
  <2>3. Batched(es, syn')
    BY <1>3 DEF Batched
  <2> QED BY <1>3, <2>1, <2>2, <2>3 DEF Midway
<1>4. ASSUME ~(entries' = Removed(es, s.remove) /\ syn' = Idle)
      PROVE  /\ Apart(entries', syn'.remove)
             /\ Midway(entries', syn', syn'.at) /\ Batched(entries', syn')
  <2>1. PICK j \in k..Len(s.clusters) :
          /\ entries' = es /\ Raw(es, s.clusters[j]) # {}
          /\ syn'.pc = "asking" /\ syn'.at = j /\ syn'.clusters = s.clusters
          /\ syn'.remove = s.remove /\ syn'.sources = s.sources
          /\ syn'.batch = UNION {es[i].of : i \in Raw(es, s.clusters[j])}
    BY <1>1, <1>4, Proceeded
  <2> QED BY <1>3, <2>1
<1> QED BY <1>2, <1>4

\* No solution is lost, and those no longer raw were shown to the generalist.
LEMMA ProceedKeeps ==
  ASSUME NEW es \in Seq(Entry), Len(es) <= MaxEntries, NEW s, SynTypes(s, solved),
         NEW k \in Nat, k >= 1, Midway(es, s, k), Proceed(es, s, k),
         entries' \in Seq(Entry), RemovesBefore(s, Len(s.clusters) + 1)
  PROVE  /\ Holding(es, {"solved"}) \subseteq Holding(entries', Kinds)
         /\ Holding(es, {"solved"}) \ Holding(entries', {"solved"}) \subseteq s.sources
         /\ \A n \in Holding(es, Kinds) : n \notin Holding(entries', Kinds) =>
              \E i \in 1..Len(es) : /\ n \in es[i].of /\ es[i].kind # "solved"
                                   /\ Beside(es, i, s, s.sources)
<1>1. s \in Synthesis /\ Len(s.clusters) \in Nat
  BY LenProperties DEF SynTypes, Synthesis
<1>2. \A i \in 1..Len(es) : es[i].kind \in Kinds
  BY TrajList, TrajFields DEF Kinds
<1>3. ASSUME entries' = es
      PROVE  /\ Holding(es, {"solved"}) \subseteq Holding(entries', Kinds)
             /\ Holding(es, {"solved"}) \ Holding(entries', {"solved"}) \subseteq s.sources
  BY <1>2, <1>3, HoldingFacts
<1>4. ASSUME entries' = Removed(es, s.remove)
      PROVE  /\ Holding(es, {"solved"}) \subseteq Holding(entries', Kinds)
             /\ Holding(es, {"solved"}) \ Holding(entries', {"solved"}) \subseteq s.sources
  <2>1. \A i \in 1..Len(es) : i \notin s.remove => \E n \in 1..Len(entries') : entries'[n] = es[i]
    BY <1>4, RemovedFacts
  <2>2. ASSUME NEW n \in Holding(es, {"solved"})
        PROVE  n \in Holding(entries', Kinds)
               /\ (n \notin Holding(entries', {"solved"}) => n \in s.sources)
    <3>1. PICK i \in 1..Len(es) : es[i].kind = "solved" /\ n \in es[i].of
      BY HoldingFacts
    <3>2. CASE i \notin s.remove
      <4>1. PICK r \in 1..Len(entries') : entries'[r] = es[i]
        BY <2>1, <3>2
      <4> QED BY <1>2, <3>1, <4>1, HoldingFacts
    <3>3. CASE i \in s.remove
      <4>1. StoodFor(es, i, s)
        BY <3>1, <3>3 DEF Midway, Stands
      <4>2. n \in s.sources
        BY <3>1, <4>1 DEF StoodFor
      <4>3. PICK k2 \in 1..Len(es) : n \in es[k2].of
                                  /\ \A m \in 1..Len(s.clusters) : k2 \notin s.clusters[m]
        BY <3>1, <4>1 DEF StoodFor
      <4>4. k2 \notin s.remove
        <5>1. \A i2 \in s.remove : \E m \in 1..((Len(s.clusters) + 1) - 1) : i2 \in s.clusters[m]
          BY DEF RemovesBefore
        <5>2. (Len(s.clusters) + 1) - 1 = Len(s.clusters)
          BY <1>1
        <5> QED BY <4>3, <5>1, <5>2
      <4>5. PICK r \in 1..Len(entries') : entries'[r] = es[k2]
        BY <2>1, <4>4
      <4> QED BY <1>2, <4>2, <4>3, <4>5, HoldingFacts
    <3> QED BY <3>2, <3>3
  <2> QED BY <2>2
<1>5. ASSUME NEW n \in Holding(es, Kinds), n \notin Holding(entries', Kinds)
      PROVE  \E i \in 1..Len(es) : /\ n \in es[i].of /\ es[i].kind # "solved"
                                  /\ Beside(es, i, s, s.sources)
  <2>1. PICK i \in 1..Len(es) : es[i].kind \in Kinds /\ n \in es[i].of
    BY HoldingFacts
  <2>2. es[i].kind # "solved"
    <3> SUFFICES ASSUME es[i].kind = "solved" PROVE FALSE
      OBVIOUS
    <3>1. n \in Holding(es, {"solved"})
      BY <2>1, HoldingFacts
    <3>2. Holding(es, {"solved"}) \subseteq Holding(entries', Kinds)
      BY <1>1, <1>3, <1>4, Proceeded
    <3> QED BY <1>5, <3>1, <3>2
  <2>3. entries' # es
    BY <1>5
  <2>4. entries' = Removed(es, s.remove)
    BY <1>1, <2>3, Proceeded
  <2>5. i \in s.remove
    <3> SUFFICES ASSUME i \notin s.remove PROVE FALSE
      OBVIOUS
    <3>1. PICK r \in 1..Len(entries') : entries'[r] = es[i]
      BY <2>4, RemovedFacts
    <3> QED BY <1>5, <2>1, <3>1, HoldingFacts
  <2> QED BY <2>1, <2>2, <2>5 DEF Midway, AllBeside
<1> QED BY <1>1, <1>3, <1>4, <1>5, Proceeded

\* find_clusters(): places of entries, none in two clusters.
LEMMA FoundFacts ==
  ASSUME NEW es \in Seq(Entry), Len(es) <= MaxEntries
  PROVE  /\ Found(es) \in Seq(SUBSET (1..MaxEntries))
         /\ \A m \in 1..Len(Found(es)) : Found(es)[m] \subseteq 1..Len(es)
         /\ \A m, n \in 1..Len(Found(es)) : m # n => Found(es)[m] \cap Found(es)[n] = {}
<1> DEFINE big == {Positions(es, c) : c \in {d \in Classes :
                     Cardinality(Positions(es, d)) >= MinCluster}}
           before == {p \in Pairs(big) : First(p[1]) < First(p[2])}
           all == Listed(big, before)
<1>1. /\ Len(es) \in Nat /\ DOMAIN es = 1..Len(es) /\ MaxEntries \in Nat
      /\ MaxClusters \in Nat /\ MaxClusters >= 1 /\ MinCluster \in Nat /\ MinCluster >= 1
  BY TrajList, TrajSizes
<1>2. ASSUME NEW X \in big
      PROVE  X \in SUBSET (1..Len(es)) /\ X # {} /\ First(X) \in X /\ First(X) \in Nat
  <2>1. PICK c \in Classes : X = Positions(es, c) /\ Cardinality(X) >= MinCluster
    OBVIOUS
  <2>2. X \in SUBSET (1..Len(es))
    BY <1>1, <2>1 DEF Positions
  <2>3. X # {}
    <3> SUFFICES ASSUME X = {} PROVE FALSE
      OBVIOUS
    <3>1. Cardinality(X) = 0
      BY FS_EmptySet
    <3> QED BY <1>1, <2>1, <3>1
  <2>4. X \in SUBSET Nat
    BY <1>1, <2>2
  <2>5. First(X) \in X
    BY <2>3, <2>4, FirstFacts
  <2> QED BY <2>2, <2>3, <2>4, <2>5
<1>3. ASSUME NEW X \in big, NEW Y \in big, NEW i, i \in X, i \in Y
      PROVE  X = Y
  <2>1. PICK c \in Classes : X = Positions(es, c)
    OBVIOUS
  <2>2. PICK d \in Classes : Y = Positions(es, d)
    OBVIOUS
  <2>3. c = d
    BY <1>3, <2>1, <2>2 DEF Positions
  <2> QED BY <2>1, <2>2, <2>3
<1>4. \A X, Y \in big : <<X, Y>> \in before <=> First(X) < First(Y)
  BY DEF Pairs
<1> HIDE DEF big, before
<1>5. IsFiniteSet(big)
  <2>1. IsFiniteSet(SUBSET (1..Len(es)))
    BY <1>1, UpTo, FS_SUBSET
  <2>2. big \in SUBSET (SUBSET (1..Len(es)))
    BY <1>2
  <2> QED BY <2>1, <2>2, FS_Subset
<1>6. Orders(before, big)
  <2>1. \A X, Y \in big : First(X) = First(Y) => X = Y
    BY <1>2, <1>3
  <2>2. \A X \in big : First(X) \in Nat
    BY <1>2
  <2> QED BY <1>4, <2>1, <2>2 DEF Orders
<1>7. /\ Cardinality(big) \in Nat /\ all \in [1..Cardinality(big) -> big]
      /\ \A m, n \in 1..Cardinality(big) : all[m] = all[n] => m = n
  BY <1>5, <1>6, ListedFacts
<1>8. Found(es) = IF Len(all) <= MaxClusters THEN all ELSE SubSeq(all, 1, MaxClusters)
  BY DEF Found, big, before
<1> HIDE DEF all
<1>9. all \in Seq(big) /\ Len(all) = Cardinality(big)
  <2>1. all \in Seq(big) /\ DOMAIN all = 1..Cardinality(big)
    BY <1>7
  <2> QED BY <1>7, <2>1, LenProperties
<1> DEFINE found == Found(es)
<1>10. /\ found \in Seq(big) /\ Len(found) \in Nat /\ Len(found) <= Len(all)
       /\ \A m \in 1..Len(found) : found[m] = all[m]
  <2>1. CASE Len(all) <= MaxClusters
    BY <1>7, <1>8, <1>9, <2>1
  <2>2. CASE ~(Len(all) <= MaxClusters)
    <3>1. \A m \in 1..MaxClusters : all[m] \in big
      BY <1>1, <1>7, <1>9, <2>2
    <3>2. /\ SubSeq(all, 1, MaxClusters) \in Seq(big)
          /\ Len(SubSeq(all, 1, MaxClusters)) = IF 1 <= MaxClusters THEN MaxClusters - 1 + 1 ELSE 0
          /\ \A m \in 1..(MaxClusters - 1 + 1) : SubSeq(all, 1, MaxClusters)[m] = all[1 + m - 1]
      BY <1>1, <3>1, SubSeqProperties
    <3>3. found = SubSeq(all, 1, MaxClusters)
      BY <1>8, <2>2
    <3> HIDE DEF found
    <3>4. Len(found) = MaxClusters
      BY <1>1, <3>2, <3>3
    <3>5. \A m \in 1..MaxClusters : found[m] = all[m]
      BY <1>1, <3>2, <3>3
    <3> QED BY <1>1, <1>7, <1>9, <2>2, <3>2, <3>3, <3>4, <3>5
  <2> QED BY <2>1, <2>2
<1> HIDE DEF found
<1>11. \A m \in 1..Len(found) : m \in 1..Cardinality(big) /\ found[m] \in big
  BY <1>7, <1>9, <1>10
<1>12. \A m \in 1..Len(found) : found[m] \subseteq 1..Len(es)
  BY <1>2, <1>11
<1>13. \A m, n \in 1..Len(found) : m # n => found[m] \cap found[n] = {}
  BY <1>3, <1>7, <1>10, <1>11
<1>14. found \in Seq(SUBSET (1..MaxEntries))
  <2>1. \A m \in 1..Len(found) : found[m] \in SUBSET (1..MaxEntries)
    BY <1>1, <1>12
  <2>2. found \in [1..Len(found) -> SUBSET (1..MaxEntries)]
    <3>1. DOMAIN found = 1..Len(found) /\ found = [m \in DOMAIN found |-> found[m]]
      BY <1>10, LenProperties
    <3> QED BY <2>1, <3>1
  <2> QED BY <1>10, <2>2
<1> QED BY <1>12, <1>13, <1>14 DEF found

-------------------------------------------------------------------------------
(* The steps of the store.                                                  *)

\* What the two action properties say of a step.
Compresses ==
  syn' # syn /\ crashes' = crashes /\ ~disturbed'
    => Holding(entries, {"solved"}) \subseteq Holding(entries', Kinds)

RemovesSources ==
  syn' = Idle /\ syn.pc # "idle" /\ crashes' = crashes /\ ~disturbed'
    => Holding(entries, {"solved"}) \ Holding(entries', {"solved"})
         \subseteq Shown

RedoesMasters ==
  syn' = Idle /\ syn.pc # "idle" /\ crashes' = crashes /\ ~disturbed'
    => Holding(entries, Kinds) \ Holding(entries', Kinds)
         \subseteq UNION {entries[i].of : i \in {j \in Redone : entries[j].kind # "solved"}}

TrajStep == TrajInv' /\ Compresses /\ RemovesSources /\ RedoesMasters

\* What Redone is made of.
LEMMA RedoneFacts ==
  ASSUME TrajTypes, NEW n,
         \E i \in 1..Len(entries) : /\ n \in entries[i].of /\ entries[i].kind # "solved"
                                   /\ Beside(entries, i, syn, Shown)
  PROVE  n \in UNION {entries[i].of : i \in {j \in Redone : entries[j].kind # "solved"}}
<1>1. PICK i \in 1..Len(entries) : /\ n \in entries[i].of /\ entries[i].kind # "solved"
                                  /\ Beside(entries, i, syn, Shown)
  OBVIOUS
<1>2. DOMAIN syn.clusters = 1..Len(syn.clusters)
  BY LenProperties DEF TrajTypes, SynTypes, Synthesis
<1>3. i \in Redone
  BY <1>1, <1>2 DEF Beside, Redone
<1> QED BY <1>1, <1>3

LEMMA TrajUnchanged ==
  ASSUME TrajInv, UNCHANGED vars
  PROVE  TrajInv'
<1> USE DEF vars
<1>1. TrajTypes'
  BY DEF TrajInv, TrajTypes, UpToSolved, SynTypes, Idle, Synthesis
<1>2. Midway(entries, syn, syn.at) => Midway(entries', syn', syn'.at)
  BY DEF Midway
<1>3. Batched(entries, syn) => Batched(entries', syn')
  BY DEF Batched
<1>4. Apart(entries, syn.remove) => Apart(entries', syn'.remove)
  BY DEF Apart
<1>5. TrajSound'
  BY <1>2, <1>3, <1>4 DEF TrajInv, TrajSound
<1> QED BY <1>1, <1>5 DEF TrajInv

\* A list that begins with es, whose entries beyond are not raw in a cluster.
LEMMA Grown ==
  ASSUME NEW es \in Seq(Entry), NEW e \in Entry, NEW s, s \in Synthesis, NEW k, ClustersFit(s, es),
         RemovesBefore(s, k), Stands(es, s), AllBeside(es, s), k \in 1..Len(s.clusters)
  PROVE  /\ ClustersFit(s, Append(es, e)) /\ Stands(Append(es, e), s)
         /\ AllBeside(Append(es, e), s)
         /\ \A c \in 1..Len(s.clusters) :
              Raw(Append(es, e), s.clusters[c]) = Raw(es, s.clusters[c])
         /\ Len(es) + 1 \notin s.remove
<1> DEFINE all == Append(es, e)
<1>1. /\ Len(es) \in Nat /\ DOMAIN es = 1..Len(es)
      /\ all \in Seq(Entry) /\ Len(all) = Len(es) + 1
      /\ \A i \in 1..Len(es) : all[i] = es[i]
      /\ all[Len(es) + 1] = e
  BY TrajList, AppendProperties
<1> HIDE DEF all
<1>2. DOMAIN all = 1..(Len(es) + 1)
  BY <1>1, TrajList
<1>3. ClustersFit(s, all)
  BY <1>1, SMTT(60) DEF ClustersFit
<1>4. \A i \in s.remove : i \in 1..Len(es)
  <2>1. Len(s.clusters) \in Nat
    BY LenProperties DEF Synthesis
  <2>2. \A m \in 1..(k - 1) : m \in 1..Len(s.clusters)
    BY <2>1
  <2> QED BY <2>2 DEF RemovesBefore, ClustersFit
<1>5. Stands(all, s)
  <2> SUFFICES ASSUME NEW i \in 1..Len(all), i \in s.remove, all[i].kind = "solved"
               PROVE  StoodFor(all, i, s)
    BY DEF Stands
  <2>1. i \in 1..Len(es) /\ all[i] = es[i]
    BY <1>1, <1>4
  <2>2. StoodFor(es, i, s)
    BY <2>1 DEF Stands
  <2>3. \A j \in 1..Len(es) : j \in 1..Len(all)
    BY <1>1
  <2> QED BY <1>1, <2>1, <2>2, <2>3 DEF StoodFor
<1>6. ASSUME NEW c \in 1..Len(s.clusters)
      PROVE  Raw(all, s.clusters[c]) = Raw(es, s.clusters[c])
  <2>1. s.clusters[c] \subseteq 1..Len(es)
    BY DEF ClustersFit
  <2>2. \A i \in s.clusters[c] : i \in DOMAIN all /\ i \in DOMAIN es /\ all[i] = es[i]
    BY <1>1, <1>2, <2>1
  <2> QED BY <2>2 DEF Raw
<1>7. Len(es) + 1 \notin s.remove
  BY <1>1, <1>4
<1>8. AllBeside(all, s)
  <2>1. \A m \in 1..Len(s.clusters) : \A j \in s.clusters[m] : all[j] = es[j]
    BY <1>1 DEF ClustersFit
  <2> QED BY <2>1 DEF AllBeside, Beside
<1> QED BY <1>3, <1>5, <1>6, <1>7, <1>8 DEF all

\* A new entry whose solutions no other has.
LEMMA ApartGrown ==
  ASSUME NEW es \in Seq(Entry), NEW e \in Entry, NEW gone, Apart(es, gone),
         \A i \in 1..Len(es) : i \notin gone => es[i].of \cap e.of = {}
  PROVE  Apart(Append(es, e), gone)
<1> DEFINE all == Append(es, e)
<1>1. /\ Len(es) \in Nat /\ Len(all) = Len(es) + 1
      /\ \A i \in 1..Len(es) : all[i] = es[i]
      /\ all[Len(es) + 1] = e
  BY TrajList, AppendProperties
<1> HIDE DEF all
<1>2. \A i \in 1..Len(all) : i \in 1..Len(es) \/ i = Len(es) + 1
  BY <1>1
<1>3. ASSUME NEW i \in 1..Len(all), NEW j \in 1..Len(all), i \notin gone, j \notin gone, i # j
      PROVE  all[i].of \cap all[j].of = {}
  <2>1. CASE i \in 1..Len(es) /\ j \in 1..Len(es)
    BY <1>1, <1>3, <2>1 DEF Apart
  <2>2. CASE i \in 1..Len(es) /\ j = Len(es) + 1
    BY <1>1, <1>3, <2>2
  <2>3. CASE i = Len(es) + 1 /\ j \in 1..Len(es)
    BY <1>1, <1>3, <2>3
  <2> QED BY <1>2, <1>3, <2>1, <2>2, <2>3
<1> QED BY <1>3 DEF Apart, all

LEMMA SolvedGrown ==
  ASSUME NEW es \in Seq(Entry), NEW e \in Entry, NEW n, UpToSolved(es, n), e.of \subseteq 1..n
  PROVE  UpToSolved(Append(es, e), n)
<1>1. /\ Len(es) \in Nat /\ Len(Append(es, e)) = Len(es) + 1
      /\ \A i \in 1..Len(es) : Append(es, e)[i] = es[i]
      /\ Append(es, e)[Len(es) + 1] = e
  BY TrajList, AppendProperties
<1>2. \A i \in 1..Len(Append(es, e)) : i \in 1..Len(es) \/ i = Len(es) + 1
  BY <1>1
<1> QED BY <1>1, <1>2 DEF UpToSolved

\* A new solution has a number no entry has.
LEMMA SolveStep ==
  ASSUME TrajInv, NEW c \in Classes, NEW score \in Scores, Solve(c, score)
  PROVE  TrajStep
<1> USE DEF TrajInv
<1> DEFINE e == [of |-> {solved'}, class |-> c, kind |-> "solved", score |-> score, uses |-> 0]
           n == solved + 1
<1>1. /\ solved < MaxSolved /\ solved' = n /\ entries' = Stored(entries, e)
      /\ disturbed' = (disturbed \/ (syn # Idle /\ Full(entries)))
      /\ syn' = syn /\ crashes' = crashes
  BY DEF Solve
<1>2. solved \in Nat /\ n \in 1..MaxSolved /\ n \in 0..MaxSolved
  BY <1>1, TrajSizes DEF TrajTypes
<1>3. e \in Entry /\ e.of = {n}
  BY <1>1, <1>2, TrajSizes DEF Entry
<1> HIDE DEF e
<1>4. /\ entries \in Seq(Entry) /\ Len(entries) <= MaxEntries /\ Len(entries) \in Nat
      /\ UpToSolved(entries, solved)
  BY LenProperties DEF TrajTypes
<1>5. /\ entries' \in Seq(Entry) /\ Len(entries') <= MaxEntries
      /\ Picked(entries', Append(entries, e))
      /\ ~Full(entries) => entries' = Append(entries, e)
  BY <1>1, <1>3, <1>4, StoredFacts
<1>6. UpToSolved(entries', n)
  <2>1. UpToSolved(entries, n)
    BY <1>2, <1>4 DEF UpToSolved
  <2>2. n \in 1..n
    BY <1>2
  <2>3. UpToSolved(Append(entries, e), n)
    BY <1>3, <1>4, <2>1, <2>2, SolvedGrown
  <2> QED BY <1>5, <2>3, PickedFacts
<1>7. TrajTypes'
  <2>1. SynTypes(syn, n)
    BY <1>2 DEF TrajTypes, SynTypes
  <2>2. disturbed' \in BOOLEAN
    BY <1>1 DEF TrajTypes
  <2>3. SynTypes(syn', n) /\ crashes' \in 0..MaxCrashes
    BY <1>1, <2>1 DEF TrajTypes
  <2>4. (syn'.pc = "idle" => syn' = Idle) /\ (syn'.pc # "idle" => syn'.class \in Classes /\ syn'.at >= 1)
    BY <1>1 DEF TrajTypes
  <2>5. solved' \in 0..MaxSolved /\ UpToSolved(entries', solved') /\ SynTypes(syn', solved')
    BY <1>1, <1>2, <1>6, <2>3
  <2> HIDE DEF n
  <2> QED BY <1>5, <2>2, <2>3, <2>4, <2>5 DEF TrajTypes
<1>8. TrajSound'
  <2> SUFFICES ASSUME ~disturbed'
               PROVE  /\ Apart(entries', syn'.remove)
                      /\ syn'.pc # "idle" => Midway(entries', syn', syn'.at) /\ Batched(entries', syn')
    BY DEF TrajSound
  <2>1. /\ ~disturbed /\ Apart(entries, syn.remove)
        /\ syn.pc # "idle" => Midway(entries, syn, syn.at) /\ Batched(entries, syn)
    BY <1>1 DEF TrajSound
  <2>2. \A i \in 1..Len(entries) : entries[i].of \cap e.of = {}
    BY <1>2, <1>3, <1>4 DEF UpToSolved
  <2>3. Apart(Append(entries, e), syn.remove)
    BY <1>3, <1>4, <2>1, <2>2, ApartGrown
  <2>4. CASE syn.pc = "idle"
    <3>1. syn.remove = {}
      BY <2>4, IdleTypes DEF TrajTypes
    <3>2. Apart(entries', {})
      BY <1>5, <2>3, <3>1, PickedFacts
    <3> QED BY <1>1, <2>4, <3>1, <3>2
  <2>5. CASE syn.pc # "idle"
    <3>1. entries' = Append(entries, e)
      BY <1>1, <1>5, <2>5, IdleTypes
    <3>2. syn \in Synthesis /\ syn.at \in 1..Len(syn.clusters)
      <4>1. syn \in Synthesis /\ Len(syn.clusters) \in Nat
        BY LenProperties DEF TrajTypes, SynTypes, Synthesis
      <4> QED BY <2>5, <4>1 DEF TrajTypes, SynTypes
    <3>3. /\ ClustersFit(syn, entries) /\ RemovesBefore(syn, syn.at) /\ Stands(entries, syn)
          /\ AllBeside(entries, syn) /\ Batched(entries, syn)
      BY <2>1, <2>5 DEF Midway
    <3>4. /\ ClustersFit(syn, Append(entries, e)) /\ Stands(Append(entries, e), syn)
          /\ AllBeside(Append(entries, e), syn)
          /\ Raw(Append(entries, e), syn.clusters[syn.at]) = Raw(entries, syn.clusters[syn.at])
      BY <1>3, <1>4, <3>2, <3>3, Grown
    <3>5. Batched(Append(entries, e), syn)
      <4>1. \A i \in Raw(entries, syn.clusters[syn.at]) : Append(entries, e)[i] = entries[i]
        BY <1>3, <1>4, RawFacts, AppendProperties
      <4> QED BY <3>3, <3>4, <4>1 DEF Batched
    <3>6. Midway(Append(entries, e), syn, syn.at)
      BY <2>3, <3>3, <3>4 DEF Midway
    <3> QED BY <1>1, <2>3, <3>1, <3>5, <3>6
  <2> QED BY <2>4, <2>5
<1>9. Compresses /\ RemovesSources /\ RedoesMasters
  BY <1>1, IdleTypes DEF Compresses, RemovesSources, RedoesMasters
<1> QED BY <1>7, <1>8, <1>9 DEF TrajStep

\* A retrieval changes uses only.
LEMMA RetrieveStep ==
  ASSUME TrajInv, NEW S \in SUBSET DOMAIN entries, Retrieve(S)
  PROVE  TrajStep
<1> USE DEF TrajInv
<1> DEFINE ds == [i \in DOMAIN entries |->
                    IF i \in S THEN [entries[i] EXCEPT !.uses = @ + 1] ELSE entries[i]]
<1>1. /\ entries' = ds /\ \A i \in S : entries[i].uses < MaxUses
      /\ solved' = solved /\ syn' = syn /\ disturbed' = disturbed /\ crashes' = crashes
  BY DEF Retrieve
<1>2. /\ entries \in Seq(Entry) /\ Len(entries) <= MaxEntries /\ Len(entries) \in Nat
      /\ DOMAIN entries = 1..Len(entries) /\ \A i \in 1..Len(entries) : entries[i] \in Entry
  BY TrajList DEF TrajTypes
<1>3. ASSUME NEW i \in 1..Len(entries)
      PROVE  ds[i] \in Entry /\ ds[i].of = entries[i].of /\ ds[i].kind = entries[i].kind
  <2>1. CASE i \in S
    <3>1. ds[i] = [entries[i] EXCEPT !.uses = @ + 1]
      BY <1>2, <2>1
    <3>2. entries[i].uses \in 0..MaxUses /\ entries[i].uses < MaxUses /\ MaxUses \in Nat
      BY <1>1, <1>2, <2>1, TrajFields, TrajSizes
    <3>3. entries[i].uses + 1 \in 0..MaxUses
      BY <3>2
    <3> HIDE DEF ds
    <3> QED BY <1>2, <3>1, <3>3 DEF Entry
  <2>2. CASE i \notin S
    BY <1>2, <2>2
  <2> QED BY <2>1, <2>2
<1>4. DOMAIN ds = 1..Len(entries)
  BY <1>2
<1>5. ds \in [1..Len(entries) -> Entry]
  <2>1. ds = [i \in 1..Len(entries) |-> ds[i]]
    BY <1>2
  <2> HIDE DEF ds
  <2> QED BY <1>3, <2>1
<1> HIDE DEF ds
<1>6. ds \in Seq(Entry) /\ Len(ds) = Len(entries)
  <2>1. ds \in Seq(Entry)
    BY <1>2, <1>5
  <2> QED BY <1>2, <1>4, <2>1, LenProperties
<1>7. /\ entries' \in Seq(Entry) /\ Len(entries') = Len(entries) /\ DOMAIN entries' = 1..Len(entries)
      /\ \A i \in 1..Len(entries) : entries'[i].of = entries[i].of /\ entries'[i].kind = entries[i].kind
  BY <1>1, <1>3, <1>4, <1>6
<1>8. UpToSolved(entries, solved) => UpToSolved(entries', solved)
  BY <1>7 DEF UpToSolved
<1>9. TrajTypes'
  <2>1. SynTypes(syn, solved)' /\ (syn'.pc = "idle" => syn' = Idle)
    BY <1>1 DEF TrajTypes
  <2> QED BY <1>1, <1>2, <1>7, <1>8, <2>1 DEF TrajTypes
<1>10. Apart(entries, syn.remove) => Apart(entries', syn.remove)
  BY <1>7 DEF Apart
<1>11. \A X : Raw(entries', X) = Raw(entries, X)
  BY <1>2, <1>7 DEF Raw
<1>12. Batched(entries, syn) => Batched(entries', syn)
  <2>1. \A i \in Raw(entries, syn.clusters[syn.at]) : i \in 1..Len(entries)
    BY <1>2, RawFacts
  <2> QED BY <1>7, <1>11, <2>1 DEF Batched
<1>13. Stands(entries, syn) => Stands(entries', syn)
  <2> SUFFICES ASSUME Stands(entries, syn), NEW i \in 1..Len(entries'),
                      i \in syn.remove, entries'[i].kind = "solved"
               PROVE  StoodFor(entries', i, syn)
    BY DEF Stands
  <2>1. StoodFor(entries, i, syn)
    BY <1>7 DEF Stands
  <2> QED BY <1>7, <2>1 DEF StoodFor
<1>14. ClustersFit(syn, entries) => ClustersFit(syn, entries')
  BY <1>7 DEF ClustersFit
<1>15. Midway(entries, syn, syn.at) => Midway(entries', syn, syn.at)
  <2>1. ClustersFit(syn, entries) /\ AllBeside(entries, syn) => AllBeside(entries', syn)
    BY <1>7 DEF ClustersFit, AllBeside, Beside
  <2> QED BY <1>10, <1>13, <1>14, <2>1 DEF Midway
<1>16. TrajSound'
  BY <1>1, <1>10, <1>12, <1>15 DEF TrajSound
<1>17. Compresses /\ RemovesSources /\ RedoesMasters
  BY <1>1, IdleTypes DEF Compresses, RemovesSources, RedoesMasters
<1> QED BY <1>9, <1>16, <1>17 DEF TrajStep

\* A restart ends a synthesis.
LEMMA RestartStep ==
  ASSUME TrajInv, Restart
  PROVE  TrajStep
<1> USE DEF TrajInv
<1> DEFINE places == {i \in DOMAIN entries : Trusted(entries[i])}
<1>1. /\ crashes < MaxCrashes /\ crashes' = crashes + 1 /\ entries' = At(entries, places)
      /\ syn' = Idle /\ disturbed' = (disturbed \/ syn # Idle) /\ solved' = solved
  BY DEF Restart
<1>2. places \in SUBSET DOMAIN entries
  OBVIOUS
<1> HIDE DEF places
<1>3. /\ entries \in Seq(Entry) /\ Len(entries) <= MaxEntries /\ Len(entries) \in Nat
      /\ MaxEntries \in Nat /\ crashes \in Nat /\ solved \in Nat
  BY LenProperties, TrajSizes DEF TrajTypes
<1>4. entries' \in Seq(Entry) /\ Len(entries') <= Len(entries) /\ Picked(entries', entries)
  BY <1>1, <1>2, <1>3, KeptFacts
<1>5. Len(entries') <= MaxEntries
  <2>1. Len(entries') \in Nat
    BY <1>4, LenProperties
  <2> QED BY <1>3, <1>4, <2>1
<1>6. UpToSolved(entries', solved)
  BY <1>4, PickedFacts DEF TrajTypes
<1>7. TrajTypes'
  <2>1. crashes' \in 0..MaxCrashes
    BY <1>1, <1>3, TrajSizes
  <2>2. disturbed' \in BOOLEAN
    BY <1>1 DEF TrajTypes
  <2> QED BY <1>1, <1>3, <1>4, <1>5, <1>6, <2>1, <2>2, IdleTypes DEF TrajTypes
<1>8. TrajSound'
  <2> SUFFICES ASSUME ~disturbed' PROVE Apart(entries', {})
    BY <1>1, IdleTypes DEF TrajSound
  <2>1. Apart(entries, {})
    BY <1>1, IdleTypes DEF TrajSound
  <2> QED BY <1>4, <2>1, PickedFacts
<1>9. crashes' # crashes
  BY <1>1, <1>3
<1> QED BY <1>7, <1>8, <1>9 DEF TrajStep, Compresses, RemovesSources, RedoesMasters

\* A synthesis begins with clusters and nothing removed.
LEMMA BeginStep ==
  ASSUME TrajInv, SynthBegin
  PROVE  TrajStep
<1> USE DEF TrajInv
<1> DEFINE found == Found(entries)
           s == [Idle EXCEPT !.clusters = found]
<1>1. /\ syn.pc = "idle" /\ Proceed(entries, s, 1)
      /\ solved' = solved /\ disturbed' = disturbed /\ crashes' = crashes
  BY DEF SynthBegin
<1>2. /\ entries \in Seq(Entry) /\ Len(entries) <= MaxEntries /\ UpToSolved(entries, solved)
      /\ solved \in 0..MaxSolved /\ solved \in Nat
  BY TrajSizes DEF TrajTypes
<1>3. /\ found \in Seq(SUBSET (1..MaxEntries)) /\ Len(found) \in Nat
      /\ \A m \in 1..Len(found) : found[m] \subseteq 1..Len(entries)
      /\ \A m, n \in 1..Len(found) : m # n => found[m] \cap found[n] = {}
  BY <1>2, FoundFacts, LenProperties
<1> HIDE DEF found
<1>4. /\ Idle \in Synthesis /\ Idle.at = 0 /\ Idle.batch = {} /\ Idle.sources = {} /\ Idle.remove = {}
  BY <1>2, IdleTypes DEF SynTypes, Idle
<1>5. /\ s \in Synthesis /\ s.clusters = found /\ s.at = 0 /\ s.batch = {} /\ s.sources = {}
      /\ s.remove = {}
  <2> HIDE DEF Idle
  <2> QED BY <1>3, <1>4 DEF Synthesis
<1> HIDE DEF s
<1>6. SynTypes(s, solved)
  BY <1>3, <1>5 DEF SynTypes
<1>7. /\ entries' \in Seq(Entry) /\ Len(entries') <= MaxEntries
      /\ UpToSolved(entries', solved) /\ SynTypes(syn', solved)
      /\ syn'.pc = "idle" => syn' = Idle
      /\ syn'.pc # "idle" => syn'.class \in Classes /\ syn'.at >= 1
  BY <1>1, <1>2, <1>6, ProceedTypes
<1>8. TrajTypes'
  BY <1>1, <1>2, <1>7 DEF TrajTypes
<1>9. RemovesBefore(s, Len(s.clusters) + 1)
  BY <1>5 DEF RemovesBefore
<1>10. ASSUME ~disturbed PROVE Midway(entries, s, 1)
  <2>1. Apart(entries, {})
    BY <1>1, <1>10, IdleTypes DEF TrajSound, TrajTypes
  <2> QED BY <1>3, <1>5, <2>1 DEF Midway, ClustersFit, RemovesBefore, Stands, AllBeside
<1>11. TrajSound'
  <2> SUFFICES ASSUME ~disturbed
               PROVE  /\ Apart(entries', syn'.remove)
                      /\ syn'.pc # "idle" => Midway(entries', syn', syn'.at) /\ Batched(entries', syn')
    BY <1>1 DEF TrajSound
  <2> QED BY <1>1, <1>2, <1>6, <1>10, ProceedSound
<1>12. Compresses /\ RemovesSources /\ RedoesMasters
  <2>1. ASSUME ~disturbed
        PROVE  Holding(entries, {"solved"}) \subseteq Holding(entries', Kinds)
    BY <1>1, <1>2, <1>6, <1>7, <1>9, <1>10, <2>1, ProceedKeeps
  <2> QED BY <1>1, <2>1 DEF Compresses, RemovesSources, RedoesMasters
<1> QED BY <1>8, <1>11, <1>12 DEF TrajStep

\* What is known of a synthesis at work.
LEMMA AtWork ==
  ASSUME TrajInv, syn.pc # "idle"
  PROVE  /\ syn \in Synthesis /\ syn.at \in 1..Len(syn.clusters) /\ syn.at \in Nat
         /\ syn.at + 1 \in Nat /\ syn.at + 1 >= 1 /\ Len(syn.clusters) \in Nat
         /\ syn.batch \subseteq 1..solved /\ syn.sources \subseteq 1..solved
         /\ ~disturbed => /\ Midway(entries, syn, syn.at) /\ Batched(entries, syn)
                          /\ RemovesBefore(syn, syn.at + 1)
                          /\ RemovesBefore(syn, Len(syn.clusters) + 1)
<1> USE DEF TrajInv
<1>1. syn \in Synthesis /\ Len(syn.clusters) \in Nat
  BY LenProperties DEF TrajTypes, SynTypes, Synthesis
<1>2. syn.at \in 1..Len(syn.clusters)
  BY <1>1 DEF TrajTypes, SynTypes
<1>3. ASSUME ~disturbed
      PROVE  /\ Midway(entries, syn, syn.at) /\ Batched(entries, syn)
             /\ RemovesBefore(syn, syn.at + 1)
             /\ RemovesBefore(syn, Len(syn.clusters) + 1)
  <2>1. Midway(entries, syn, syn.at) /\ Batched(entries, syn)
    BY <1>3 DEF TrajSound
  <2>2. \A m \in 1..(syn.at - 1) :
          m \in 1..((syn.at + 1) - 1) /\ m \in 1..((Len(syn.clusters) + 1) - 1)
    BY <1>1, <1>2
  <2>3. \A i \in syn.remove : \E m \in 1..(syn.at - 1) : i \in syn.clusters[m]
    BY <2>1 DEF Midway, RemovesBefore
  <2> QED BY <2>1, <2>2, <2>3 DEF RemovesBefore
<1>4. syn.at \in Nat /\ syn.at + 1 \in Nat /\ syn.at + 1 >= 1
  BY <1>1, <1>2
<1>5. syn.batch \subseteq 1..solved /\ syn.sources \subseteq 1..solved
  BY DEF TrajTypes, SynTypes
<1> QED BY <1>1, <1>2, <1>3, <1>4, <1>5

\* The cluster is left alone.
LEMMA FailsStep ==
  ASSUME TrajInv, GeneralistFails
  PROVE  TrajStep
<1>1. /\ syn.pc # "idle" /\ Proceed(entries, syn, syn.at + 1)
      /\ solved' = solved /\ disturbed' = disturbed /\ crashes' = crashes
  BY DEF GeneralistFails
<1>2. /\ entries \in Seq(Entry) /\ Len(entries) <= MaxEntries /\ UpToSolved(entries, solved)
      /\ solved \in 0..MaxSolved /\ SynTypes(syn, solved)
  BY DEF TrajInv, TrajTypes
<1>3. /\ syn.at + 1 \in Nat /\ syn.at + 1 >= 1
      /\ ~disturbed => Midway(entries, syn, syn.at + 1) /\ RemovesBefore(syn, Len(syn.clusters) + 1)
  BY <1>1, AtWork DEF Midway
<1>4. /\ entries' \in Seq(Entry) /\ Len(entries') <= MaxEntries
      /\ UpToSolved(entries', solved) /\ SynTypes(syn', solved)
      /\ syn'.pc = "idle" => syn' = Idle
      /\ syn'.pc # "idle" => syn'.class \in Classes /\ syn'.at >= 1
  BY <1>1, <1>2, <1>3, ProceedTypes
<1>5. TrajTypes'
  BY <1>1, <1>2, <1>4 DEF TrajTypes, TrajInv
<1>6. TrajSound'
  <2> SUFFICES ASSUME ~disturbed
               PROVE  /\ Apart(entries', syn'.remove)
                      /\ syn'.pc # "idle" => Midway(entries', syn', syn'.at) /\ Batched(entries', syn')
    BY <1>1 DEF TrajSound
  <2> QED BY <1>1, <1>2, <1>3, ProceedSound
<1>7. Compresses /\ RemovesSources /\ RedoesMasters
  <2>1. ASSUME ~disturbed
        PROVE  /\ Holding(entries, {"solved"}) \subseteq Holding(entries', Kinds)
               /\ Holding(entries, {"solved"}) \ Holding(entries', {"solved"}) \subseteq Shown
               /\ Holding(entries, Kinds) \ Holding(entries', Kinds) \subseteq
                    UNION {entries[i].of : i \in {j \in Redone : entries[j].kind # "solved"}}
    <3>1. /\ Holding(entries, {"solved"}) \subseteq Holding(entries', Kinds)
          /\ Holding(entries, {"solved"}) \ Holding(entries', {"solved"}) \subseteq syn.sources
          /\ \A n \in Holding(entries, Kinds) : n \notin Holding(entries', Kinds) =>
               \E i \in 1..Len(entries) : /\ n \in entries[i].of /\ entries[i].kind # "solved"
                                         /\ Beside(entries, i, syn, syn.sources)
      BY <1>1, <1>2, <1>3, <1>4, <2>1, ProceedKeeps
    <3>2. \A i : Beside(entries, i, syn, syn.sources) => Beside(entries, i, syn, Shown)
      BY DEF Beside, Shown
    <3>3. TrajTypes
      BY DEF TrajInv
    <3>4. \A n \in Holding(entries, Kinds) : n \notin Holding(entries', Kinds) =>
            n \in UNION {entries[i].of : i \in {j \in Redone : entries[j].kind # "solved"}}
      BY <3>1, <3>2, <3>3, RedoneFacts
    <3> QED BY <3>1, <3>4 DEF Shown
  <2> QED BY <1>1, <2>1 DEF Compresses, RemovesSources, RedoesMasters
<1> QED BY <1>5, <1>6, <1>7 DEF TrajStep, TrajInv

\* The master stands for its cluster.
LEMMA DistilledStep ==
  ASSUME TrajInv, syn.pc # "idle", NEW kind_ \in {"rule", "proven"}, Distilled(kind_)
  PROVE  TrajStep
<1> DEFINE e == Master(kind_)
           gone == syn.remove \cup syn.clusters[syn.at]
           shown == syn.sources \cup syn.batch
           s == [syn EXCEPT !.remove = gone, !.sources = shown]
           es == Stored(entries, e)
           all == Append(entries, e)
           k == syn.at + 1
<1>1. /\ Proceed(es, s, k)
      /\ disturbed' = (disturbed \/ Full(entries)) /\ solved' = solved /\ crashes' = crashes
  BY DEF Distilled
<1>2. /\ entries \in Seq(Entry) /\ Len(entries) <= MaxEntries /\ UpToSolved(entries, solved)
      /\ solved \in 0..MaxSolved /\ SynTypes(syn, solved) /\ Len(entries) \in Nat
      /\ solved \in Nat /\ solved <= MaxSolved /\ MaxSolved \in Nat /\ syn.class \in Classes
  BY LenProperties, TrajSizes DEF TrajInv, TrajTypes
<1>3. /\ syn \in Synthesis /\ syn.at \in 1..Len(syn.clusters) /\ Len(syn.clusters) \in Nat
      /\ k \in Nat /\ k >= 1
      /\ syn.batch \subseteq 1..solved /\ syn.sources \subseteq 1..solved
      /\ ~disturbed => /\ Midway(entries, syn, syn.at) /\ Batched(entries, syn)
                       /\ RemovesBefore(syn, k) /\ RemovesBefore(syn, Len(syn.clusters) + 1)
  BY AtWork
<1>4. e \in Entry /\ e.of = syn.batch /\ e.kind = kind_
  <2>1. syn.batch \in SUBSET (1..MaxSolved)
    BY <1>2, <1>3
  <2>2. (IF kind_ = "proven" THEN 1 ELSE 0) \in Scores \cup {0, 1}
    OBVIOUS
  <2>3. 0 \in 0..MaxUses
    BY TrajSizes
  <2> QED BY <1>2, <2>1, <2>2, <2>3 DEF Master, Entry
<1>5. /\ s \in Synthesis /\ s.remove = gone /\ s.sources = shown /\ s.at = syn.at
      /\ s.clusters = syn.clusters /\ s.batch = syn.batch
  <2>1. gone \in SUBSET (1..MaxEntries)
    <3>1. syn.clusters[syn.at] \in SUBSET (1..MaxEntries)
      <4>1. syn.clusters \in Seq(SUBSET (1..MaxEntries))
        BY <1>3 DEF Synthesis
      <4> QED BY <1>3, <4>1, ElementOfSeq
    <3>2. syn.remove \in SUBSET (1..MaxEntries)
      BY <1>3 DEF Synthesis
    <3> QED BY <3>1, <3>2
  <2>2. shown \in SUBSET (1..MaxSolved)
    BY <1>2, <1>3
  <2> HIDE DEF gone, shown
  <2> QED BY <1>3, <2>1, <2>2 DEF Synthesis
<1> HIDE DEF e, s, k
<1>6. SynTypes(s, solved)
  BY <1>2, <1>3, <1>5 DEF SynTypes
<1>7. /\ es \in Seq(Entry) /\ Len(es) <= MaxEntries /\ Picked(es, all)
      /\ ~Full(entries) => es = all
  BY <1>2, <1>4, StoredFacts
<1>8. UpToSolved(es, solved)
  <2>1. UpToSolved(all, solved)
    BY <1>2, <1>3, <1>4, SolvedGrown
  <2> QED BY <1>7, <2>1, PickedFacts
<1> HIDE DEF es
<1>9. /\ entries' \in Seq(Entry) /\ Len(entries') <= MaxEntries
      /\ UpToSolved(entries', solved) /\ SynTypes(syn', solved)
      /\ syn'.pc = "idle" => syn' = Idle
      /\ syn'.pc # "idle" => syn'.class \in Classes /\ syn'.at >= 1
  BY <1>1, <1>2, <1>3, <1>6, <1>7, <1>8, ProceedTypes
<1>10. TrajTypes'
  <2>1. disturbed' \in BOOLEAN
    BY <1>1 DEF TrajInv, TrajTypes
  <2> QED BY <1>1, <1>2, <1>9, <2>1 DEF TrajTypes, TrajInv
<1>11. /\ Len(all) = Len(entries) + 1 /\ all[Len(entries) + 1] = e
       /\ \A i \in 1..Len(entries) : all[i] = entries[i]
       /\ all \in Seq(Entry)
  BY <1>2, <1>4, AppendProperties
<1>12. ASSUME ~disturbed'
       PROVE  ~disturbed /\ es = all /\ Midway(all, s, k)
              /\ RemovesBefore(s, Len(s.clusters) + 1)
  <2>1. ~disturbed /\ es = all
    BY <1>1, <1>7, <1>12
  <2>2. /\ ClustersFit(syn, entries) /\ RemovesBefore(syn, syn.at) /\ Stands(entries, syn)
        /\ AllBeside(entries, syn) /\ Apart(entries, syn.remove)
        /\ Batched(entries, syn) /\ RemovesBefore(syn, k)
        /\ RemovesBefore(syn, Len(syn.clusters) + 1)
    BY <1>3, <2>1 DEF Midway
  <2>3. /\ ClustersFit(syn, all) /\ Stands(all, syn) /\ AllBeside(all, syn)
    BY <1>2, <1>3, <1>4, <2>2, Grown
  <2>4. ClustersFit(s, all)
    BY <1>5, <2>3 DEF ClustersFit
  <2>5. RemovesBefore(s, k) /\ RemovesBefore(s, Len(s.clusters) + 1)
    <3>1. syn.at \in 1..(k - 1) /\ syn.at \in 1..((Len(syn.clusters) + 1) - 1)
      BY <1>3 DEF k
    <3> QED BY <1>5, <2>2, <3>1 DEF RemovesBefore
  <2>6. Len(entries) + 1 \in 1..Len(all)
        /\ \A m \in 1..Len(syn.clusters) : Len(entries) + 1 \notin syn.clusters[m]
    BY <1>2, <1>11, <2>2 DEF ClustersFit
  <2>7. Stands(all, s)
    <3> SUFFICES ASSUME NEW i \in 1..Len(all), i \in gone, all[i].kind = "solved"
                 PROVE  StoodFor(all, i, s)
      BY <1>5 DEF Stands
    <3>1. CASE i \in syn.remove
      <4>1. StoodFor(all, i, syn)
        BY <2>3, <3>1 DEF Stands
      <4> QED BY <1>5, <4>1 DEF StoodFor
    <3>2. CASE i \in syn.clusters[syn.at]
      <4>1. i \in 1..Len(entries) /\ all[i] = entries[i]
        BY <1>3, <1>11, <2>2, <3>2 DEF ClustersFit
      <4>2. i \in Raw(entries, syn.clusters[syn.at])
        BY <1>2, <3>2, <4>1, TrajList DEF Raw
      <4>3. \A n \in all[i].of : n \in syn.batch
        BY <2>2, <4>1, <4>2 DEF Batched
      <4>4. \A n \in all[i].of : n \in s.sources /\ n \in all[Len(entries) + 1].of
        BY <1>4, <1>5, <1>11, <4>3
      <4> QED BY <1>5, <2>6, <4>4 DEF StoodFor
    <3> QED BY <3>1, <3>2
  <2>8. Apart(all, s.remove)
    <3>1. Apart(entries, gone)
      BY <2>2 DEF Apart
    <3>2. ASSUME NEW i \in 1..Len(entries), i \notin gone, NEW n \in entries[i].of, n \in syn.batch
          PROVE  FALSE
      <4>1. PICK j \in Raw(entries, syn.clusters[syn.at]) : n \in entries[j].of
        BY <2>2, <3>2 DEF Batched
      <4>2. j \in syn.clusters[syn.at] /\ j \in 1..Len(entries)
        BY <1>2, RawFacts
      <4>3. j \notin syn.remove
        <5> SUFFICES ASSUME j \in syn.remove PROVE FALSE
          OBVIOUS
        <5>1. PICK m \in 1..(syn.at - 1) : j \in syn.clusters[m]
          BY <2>2 DEF RemovesBefore
        <5>2. m \in 1..Len(syn.clusters) /\ m # syn.at
          BY <1>3
        <5> QED BY <1>3, <2>2, <4>2, <5>1, <5>2 DEF ClustersFit
      <4>4. i \notin syn.remove /\ i # j
        BY <3>2, <4>2
      <4> QED BY <2>2, <3>2, <4>1, <4>2, <4>3, <4>4 DEF Apart
    <3>3. \A i \in 1..Len(entries) : i \notin gone => entries[i].of \cap e.of = {}
      BY <1>4, <3>2
    <3> HIDE DEF gone, all
    <3> QED BY <1>2, <1>4, <1>5, <3>1, <3>3, ApartGrown DEF all
  <2>9. AllBeside(all, s)
    <3> SUFFICES ASSUME NEW i \in gone PROVE Beside(all, i, s, shown)
      BY <1>5 DEF AllBeside
    <3>1. CASE i \in syn.remove
      BY <1>5, <2>3, <3>1 DEF AllBeside, Beside
    <3>2. CASE i \in syn.clusters[syn.at]
      <4>1. PICK j \in Raw(entries, syn.clusters[syn.at]) : TRUE
        BY <2>2 DEF Batched
      <4>2. /\ j \in syn.clusters[syn.at] /\ j \in 1..Len(entries)
            /\ entries[j].kind = "solved" /\ all[j] = entries[j]
        BY <1>2, <1>11, <4>1, RawFacts
      <4>3. entries[j].of \subseteq shown
        BY <2>2, <4>1 DEF Batched
      <4> HIDE DEF all, shown
      <4> QED BY <1>3, <1>5, <3>2, <4>2, <4>3 DEF Beside
    <3> QED BY <3>1, <3>2
  <2> QED BY <2>1, <2>4, <2>5, <2>7, <2>8, <2>9 DEF Midway
<1>13. TrajSound'
  <2> SUFFICES ASSUME ~disturbed'
               PROVE  /\ Apart(entries', syn'.remove)
                      /\ syn'.pc # "idle" => Midway(entries', syn', syn'.at) /\ Batched(entries', syn')
    BY DEF TrajSound
  <2>1. Midway(es, s, k)
    BY <1>12
  <2> QED BY <1>1, <1>3, <1>6, <1>7, <2>1, ProceedSound
<1>14. Compresses /\ RemovesSources /\ RedoesMasters
  <2>1. ASSUME ~disturbed'
        PROVE  /\ Holding(entries, {"solved"}) \subseteq Holding(entries', Kinds)
               /\ Holding(entries, {"solved"}) \ Holding(entries', {"solved"}) \subseteq shown
               /\ \A n \in Holding(entries, Kinds) : n \notin Holding(entries', Kinds) =>
                    \E i \in 1..Len(entries) : /\ n \in entries[i].of /\ entries[i].kind # "solved"
                                              /\ Beside(entries, i, syn, shown)
    <3>1. es = all /\ Midway(es, s, k) /\ RemovesBefore(s, Len(s.clusters) + 1)
      BY <1>12, <2>1
    <3>2. /\ Holding(es, {"solved"}) \subseteq Holding(entries', Kinds)
          /\ Holding(es, {"solved"}) \ Holding(entries', {"solved"}) \subseteq s.sources
          /\ \A n \in Holding(es, Kinds) : n \notin Holding(entries', Kinds) =>
               \E i \in 1..Len(es) : /\ n \in es[i].of /\ es[i].kind # "solved"
                                    /\ Beside(es, i, s, s.sources)
      BY <1>1, <1>3, <1>6, <1>7, <1>9, <3>1, ProceedKeeps
    <3>3. \A kinds : \A n \in Holding(entries, kinds) : n \in Holding(all, kinds)
      <4> SUFFICES ASSUME NEW kinds, NEW n \in Holding(entries, kinds)
                   PROVE  n \in Holding(all, kinds)
        OBVIOUS
      <4>1. PICK i \in 1..Len(entries) : entries[i].kind \in kinds /\ n \in entries[i].of
        BY <1>2, HoldingFacts
      <4>2. i \in 1..Len(all) /\ all[i] = entries[i]
        BY <1>2, <1>11
      <4> HIDE DEF all
      <4> QED BY <1>11, <4>1, <4>2, HoldingFacts
    <3>4. ASSUME NEW i, Beside(all, i, s, shown)
          PROVE  i \in 1..Len(entries) /\ all[i] = entries[i] /\ Beside(entries, i, syn, shown)
      <4>1. \A m \in 1..Len(syn.clusters) : syn.clusters[m] \subseteq 1..Len(entries)
        <5>1. ~disturbed
          BY <1>12, <2>1
        <5> QED BY <1>3, <5>1 DEF Midway, ClustersFit
      <4>2. \A m \in 1..Len(syn.clusters) : \A j \in syn.clusters[m] :
              j \in 1..Len(entries) /\ all[j] = entries[j]
        BY <1>11, <4>1
      <4> HIDE DEF all, shown
      <4> QED BY <1>5, <3>4, <4>2 DEF Beside
    <3> HIDE DEF all, shown
    <3>5. ASSUME NEW n \in Holding(entries, Kinds), n \notin Holding(entries', Kinds)
          PROVE  \E i \in 1..Len(entries) : /\ n \in entries[i].of /\ entries[i].kind # "solved"
                                           /\ Beside(entries, i, syn, shown)
      <4>1. PICK i \in 1..Len(all) : /\ n \in all[i].of /\ all[i].kind # "solved"
                                    /\ Beside(all, i, s, shown)
        BY <1>5, <3>1, <3>2, <3>3, <3>5
      <4> QED BY <3>4, <4>1
    <3> QED BY <1>5, <3>1, <3>2, <3>3, <3>5
  <2>2. shown = Shown /\ TrajTypes
    BY DEF Shown, TrajInv
  <2> HIDE DEF shown
  <2>3. ~disturbed' => \A n \in Holding(entries, Kinds) : n \notin Holding(entries', Kinds) =>
          n \in UNION {entries[i].of : i \in {j \in Redone : entries[j].kind # "solved"}}
    BY <2>1, <2>2, RedoneFacts
  <2> QED BY <2>1, <2>2, <2>3 DEF Compresses, RemovesSources, RedoesMasters
<1> QED BY <1>10, <1>13, <1>14 DEF TrajStep, TrajInv

\* The generalist's answer goes to the verifier, or is stored as it is.
LEMMA AnswersStep ==
  ASSUME TrajInv, GeneralistAnswers
  PROVE  TrajStep
<1>1. syn.pc = "asking"
  BY DEF GeneralistAnswers
<1>2. CASE ~syn.ctx
  <2>1. Distilled("rule")
    BY <1>2 DEF GeneralistAnswers
  <2> QED BY <1>1, <2>1, DistilledStep
<1>3. CASE syn.ctx
  <2>1. /\ syn' = [syn EXCEPT !.pc = "proving"] /\ entries' = entries /\ solved' = solved
        /\ disturbed' = disturbed /\ crashes' = crashes
    BY <1>3 DEF GeneralistAnswers
  <2>2. syn \in Synthesis
    BY <1>1, AtWork
  <2>3. /\ syn' \in Synthesis /\ syn'.pc = "proving" /\ syn'.clusters = syn.clusters
        /\ syn'.at = syn.at /\ syn'.batch = syn.batch /\ syn'.remove = syn.remove
        /\ syn'.sources = syn.sources /\ syn'.class = syn.class
    BY <2>1, <2>2 DEF Synthesis
  <2>4. TrajTypes'
    <3>1. SynTypes(syn', solved)
      BY <2>3 DEF TrajInv, TrajTypes, SynTypes
    <3> QED BY <1>1, <2>1, <2>3, <3>1 DEF TrajInv, TrajTypes
  <2>5. Midway(entries, syn, syn.at) => Midway(entries, syn', syn.at)
    <3>1. Stands(entries, syn) => Stands(entries, syn')
      BY <2>3 DEF Stands, StoodFor
    <3>2. AllBeside(entries, syn) => AllBeside(entries, syn')
      BY <2>3 DEF AllBeside, Beside
    <3>3. ClustersFit(syn, entries) => ClustersFit(syn', entries)
      BY <2>3 DEF ClustersFit
    <3>4. RemovesBefore(syn, syn.at) => RemovesBefore(syn', syn.at)
      BY <2>3 DEF RemovesBefore
    <3> QED BY <2>3, <3>1, <3>2, <3>3, <3>4 DEF Midway
  <2>6. Batched(entries, syn) => Batched(entries, syn')
    BY <2>3 DEF Batched
  <2>7. TrajSound'
    BY <1>1, <2>1, <2>3, <2>5, <2>6 DEF TrajInv, TrajSound
  <2>8. \A i \in 1..Len(entries) : entries[i].kind \in Kinds
    BY TrajList, TrajFields DEF TrajInv, TrajTypes, Kinds
  <2>9. Holding(entries, {"solved"}) \subseteq Holding(entries, Kinds)
    BY <2>8, HoldingFacts DEF TrajInv, TrajTypes
  <2>10. Compresses /\ RemovesSources /\ RedoesMasters
    BY <2>1, <2>3, <2>9, IdleTypes DEF Compresses, RemovesSources, RedoesMasters
  <2> QED BY <2>4, <2>7, <2>10 DEF TrajStep, TrajInv
<1> QED BY <1>2, <1>3

LEMMA ProofEndsStep ==
  ASSUME TrajInv, NEW ok \in BOOLEAN, ProofEnds(ok)
  PROVE  TrajStep
<1>1. syn.pc # "idle" /\ Distilled(IF ok THEN "proven" ELSE "rule")
  BY DEF ProofEnds
<1>2. (IF ok THEN "proven" ELSE "rule") \in {"rule", "proven"}
  OBVIOUS
<1> QED BY <1>1, <1>2, DistilledStep

LEMMA TrajSteps ==
  ASSUME TrajInv, Next
  PROVE  TrajStep
<1>1. ASSUME NEW c \in Classes, NEW score \in Scores, Solve(c, score) PROVE TrajStep
  BY <1>1, SolveStep
<1>2. ASSUME NEW S \in SUBSET DOMAIN entries, Retrieve(S) PROVE TrajStep
  BY <1>2, RetrieveStep
<1>3. ASSUME SynthBegin PROVE TrajStep
  BY <1>3, BeginStep
<1>4. ASSUME GeneralistFails PROVE TrajStep
  BY <1>4, FailsStep
<1>5. ASSUME GeneralistAnswers PROVE TrajStep
  BY <1>5, AnswersStep
<1>6. ASSUME NEW ok \in BOOLEAN, ProofEnds(ok) PROVE TrajStep
  BY <1>6, ProofEndsStep
<1>7. ASSUME Restart PROVE TrajStep
  BY <1>7, RestartStep
<1> QED BY <1>1, <1>2, <1>3, <1>4, <1>5, <1>6, <1>7 DEF Next

-------------------------------------------------------------------------------
(* The results.                                                             *)

LEMMA TrajBegins == Init => TrajInv
<1> SUFFICES ASSUME Init PROVE TrajInv
  OBVIOUS
<1> USE DEF Init
<1>1. <<>> \in Seq(Entry) /\ Len(<<>>) = 0
  BY EmptySeq
<1>2. TrajTypes
  <2>1. 0 \in 0..MaxSolved /\ 0 \in 0..MaxCrashes /\ 0 <= MaxEntries /\ 0 \in Nat
    BY TrajSizes
  <2>2. UpToSolved(<<>>, 0)
    BY <1>1 DEF UpToSolved
  <2>3. SynTypes(Idle, 0) /\ Idle.pc = "idle"
    BY <2>1, IdleTypes
  <2>4. disturbed \in BOOLEAN
    OBVIOUS
  <2> QED BY <1>1, <2>1, <2>2, <2>3, <2>4 DEF TrajTypes
<1>3. TrajSound
  BY <1>1, IdleTypes DEF TrajSound, Apart
<1> QED BY <1>2, <1>3 DEF TrajInv

LEMMA StoresKeepTraj ==
  ASSUME TrajInv, [StoresNext]_storeVars
  PROVE  TrajInv' /\ (TrajStep \/ UNCHANGED vars)
<1>1. CASE Distils
  BY <1>1, TrajSteps DEF Distils, TrajStep
<1>2. CASE UNCHANGED vars
  BY <1>2, TrajUnchanged
<1>3. Distils \/ UNCHANGED vars
  BY DEF StoresNext, Remembers, Records, storeVars
<1> QED BY <1>1, <1>2, <1>3

THEOREM TrajInvariant == StoresSpec => []TrajInv
<1>1. StoresInit => TrajInv
  BY TrajBegins DEF StoresInit
<1>2. TrajInv /\ [StoresNext]_storeVars => TrajInv'
  BY StoresKeepTraj
<1> QED BY <1>1, <1>2, PTL DEF StoresSpec

\* After a synthesis no solution is in the store twice (synthesize_trajectories()),
\* and the store is never larger than max_entries.
THEOREM DistilledOnceAlways == StoresSpec => []DistilledOnce
<1>1. TrajInv => DistilledOnce
  <2> SUFFICES ASSUME TrajInv PROVE DistilledOnce
    OBVIOUS
  <2> USE DEF TrajInv
  <2>1. TypeOK
    <3>1. syn \in Synthesis /\ syn.at \in 0..Len(syn.clusters)
          /\ syn.batch \subseteq 1..solved /\ syn.sources \subseteq 1..solved
      BY DEF TrajTypes, SynTypes
    <3>2. /\ syn.pc \in {"idle", "asking", "proving"}
          /\ syn.clusters \in Seq(SUBSET (1..MaxEntries))
          /\ syn.remove \subseteq 1..MaxEntries
      BY <3>1 DEF Synthesis
    <3> QED BY <3>1, <3>2 DEF TypeOK, TrajTypes
  <2>2. ASSUME syn.pc = "idle", ~disturbed, NEW i \in DOMAIN entries, NEW j \in DOMAIN entries, i # j
        PROVE  entries[i].of \cap entries[j].of = {}
    <3>1. Apart(entries, {}) /\ DOMAIN entries = 1..Len(entries)
      BY <2>2, IdleTypes, TrajList DEF TrajTypes, TrajSound
    <3> QED BY <2>2, <3>1 DEF Apart
  <2> QED BY <2>1, <2>2 DEF DistilledOnce
<1> QED BY <1>1, TrajInvariant, PTL

\* A synthesis loses no raw solution: raw entries it removes were shown to the
\* generalist and a master stands for them, and what is lost with old masters is lost
\* in clusters that got a new one (synthesize_trajectories()).
THEOREM NothingIsForgotten == StoresSpec => NothingForgotten
<1>1. TrajInv /\ [StoresNext]_storeVars => [Compresses]_vars /\ [RemovesSources]_vars /\ [RedoesMasters]_vars
  BY StoresKeepTraj DEF TrajStep
<1>2. StoresSpec => [][Compresses]_vars /\ [][RemovesSources]_vars /\ [][RedoesMasters]_vars
  BY <1>1, TrajInvariant, PTL DEF StoresSpec
<1> QED BY <1>2, PTL DEF NothingForgotten, NoDataLoss, OnlySourcesRemoved, OnlyMastersReplaced,
                         Compresses, RemovesSources, RedoesMasters

-------------------------------------------------------------------------------
(***************************************************************************)
(* The audit log.  First, what is read of a file to which a line is added.  *)
(***************************************************************************)

\* f lists the numbers in S from the least.
Lists(f, S) ==
  /\ f \in [1..Cardinality(S) -> S]
  /\ \A m, n \in 1..Cardinality(S) : f[m] < f[n] <=> m < n
  /\ Covers(f, S)

\* There is one such list.
LEMMA ListsOnce ==
  ASSUME NEW S \in SUBSET Nat, IsFiniteSet(S), NEW f, NEW g, Lists(f, S), Lists(g, S)
  PROVE  f = g
<1> DEFINE before == {p \in S \X S : p[1] < p[2]}
           c == Cardinality(S)
<1>1. c \in Nat
  BY FS_CardinalityType
<1>2. \A i, k \in S : <<i, k>> \in before <=> i < k
  OBVIOUS
<1> HIDE DEF before, c
<1>3. Orders(before, S)
  BY <1>2 DEF Orders
<1>4. ASSUME NEW h, Lists(h, S), NEW n \in 1..c
      PROVE  Earlier(S, before, h[n]) = n - 1
  <2> DEFINE E == {j \in S : <<j, h[n]>> \in before}
             b == [m \in 1..(n - 1) |-> h[m]]
  <2>1. /\ h \in [1..c -> S] /\ \A m, r \in 1..c : h[m] < h[r] <=> m < r
        /\ \A i \in S : \E m \in 1..c : h[m] = i
    BY <1>4 DEF Lists, Covers, c
  <2>2. h[n] \in S /\ \A j \in S : j \in E <=> j < h[n]
    BY <1>2, <2>1
  <2>3. \A m \in 1..(n - 1) : m \in 1..c /\ m < n
    BY <1>1
  <2>4. b \in [1..(n - 1) -> E]
    BY <2>1, <2>2, <2>3
  <2>5. \A m, r \in 1..(n - 1) : b[m] = b[r] => m = r
    <3> SUFFICES ASSUME NEW m \in 1..(n - 1), NEW r \in 1..(n - 1), h[m] = h[r] PROVE m = r
      OBVIOUS
    <3>1. h[m] \in Nat /\ h[r] \in Nat
      BY <2>1, <2>3
    <3>2. ~(m < r) /\ ~(r < m)
      BY <2>1, <2>3, <3>1
    <3> QED BY <3>2
  <2>6. \A j \in E : \E m \in 1..(n - 1) : b[m] = j
    <3> SUFFICES ASSUME NEW j \in E PROVE \E m \in 1..(n - 1) : h[m] = j
      OBVIOUS
    <3>1. PICK m \in 1..c : h[m] = j
      BY <2>1
    <3>2. m < n
      BY <2>1, <2>2, <3>1
    <3>3. m \in 1..(n - 1)
      BY <1>1, <3>2
    <3> QED BY <3>1, <3>3
  <2> HIDE DEF b, E
  <2>7. b \in Bijection(1..(n - 1), E)
    BY <2>4, <2>5, <2>6 DEF Bijection, Injection, IsInjective, Surjection
  <2>8. n - 1 \in Nat
    BY <1>1
  <2>9. Cardinality(E) = n - 1
    BY <2>7, <2>8, UpTo, FS_Bijection DEF ExistsBijection
  <2> QED BY <2>9 DEF Earlier, E
<1>5. ASSUME NEW n \in 1..c PROVE f[n] = g[n]
  <2>1. Earlier(S, before, f[n]) = Earlier(S, before, g[n])
    BY <1>4
  <2>2. f[n] \in S /\ g[n] \in S
    BY DEF Lists, c
  <2> QED BY <1>3, <2>1, <2>2, EarlierCounts
<1>6. f = [n \in 1..c |-> f[n]] /\ g = [n \in 1..c |-> g[n]]
  BY DEF Lists, c
<1> QED BY <1>5, <1>6

\* What a filtered list keeps is listed by such a list.
LEMMA AtLists ==
  ASSUME NEW T, NEW list \in Seq(T), NEW places \in SUBSET DOMAIN list
  PROVE  \E f : /\ Lists(f, places)
               /\ \A n \in 1..Cardinality(places) : At(list, places)[n] = list[f[n]]
<1>1. PICK f \in [1..Cardinality(places) -> places] :
        /\ \A n \in 1..Cardinality(places) : At(list, places)[n] = list[f[n]]
        /\ \A m, n \in 1..Cardinality(places) : f[m] < f[n] <=> m < n
        /\ \A m, n \in 1..Cardinality(places) : f[m] = f[n] => m = n
        /\ Covers(f, places)
  BY AtFacts, SMTT(60)
<1>2. Lists(f, places)
  BY <1>1 DEF Lists
<1> QED BY <1>1, <1>2

LogLine == Audit!Record \cup {Garbage}

\* The places of the lines that can be read.
Legible(lines) == {i \in DOMAIN lines : lines[i] # Garbage}

\* The records of a file, by their places.
LEMMA ReadableFacts ==
  ASSUME NEW lines \in Seq(LogLine)
  PROVE  /\ Legible(lines) \in SUBSET (1..Len(lines)) /\ IsFiniteSet(Legible(lines))
         /\ Cardinality(Legible(lines)) \in Nat /\ Len(lines) \in Nat
         /\ Audit!Readable(lines) \in Seq(Audit!Record)
         /\ Len(Audit!Readable(lines)) = Cardinality(Legible(lines))
         /\ \E f : /\ Lists(f, Legible(lines))
                   /\ \A n \in 1..Cardinality(Legible(lines)) : Audit!Readable(lines)[n] = lines[f[n]]
<1> DEFINE places == Legible(lines)
           ds == At(lines, places)
           c == Cardinality(places)
<1>1. Len(lines) \in Nat /\ DOMAIN lines = 1..Len(lines) /\ \A i \in 1..Len(lines) : lines[i] \in LogLine
  BY LenProperties, ElementOfSeq
<1>2. places \in SUBSET DOMAIN lines /\ places \in SUBSET (1..Len(lines))
  BY <1>1 DEF Legible
<1>3. Audit!Readable(lines) = ds
  BY DEF Audit!Readable, Audit!At, At, Audit!Ascending, Ascending, Audit!Cardinality, Cardinality, Legible
<1> HIDE DEF places
<1>4. IsFiniteSet(places)
  BY <1>1, <1>2, UpTo, FS_Subset
<1>5. lines \in Seq(LogLine) /\ places \in SUBSET DOMAIN lines
  BY <1>2
<1>6. /\ ds \in Seq(LogLine) /\ Len(ds) = c /\ c \in Nat /\ DOMAIN ds = 1..c
  BY <1>5, AtFacts
<1>7. PICK f : Lists(f, places) /\ \A n \in 1..c : ds[n] = lines[f[n]]
  <2> HIDE DEF c, ds
  <2>1. \E f : Lists(f, places) /\ \A n \in 1..Cardinality(places) : At(lines, places)[n] = lines[f[n]]
    BY <1>5, AtLists
  <2> QED BY <2>1, Zenon DEF c, ds
<1>8. \A n \in 1..c : ds[n] \in Audit!Record
  <2> SUFFICES ASSUME NEW n \in 1..c PROVE ds[n] \in Audit!Record
    OBVIOUS
  <2>1. f[n] \in places
    BY <1>7 DEF Lists
  <2>2. lines[f[n]] \in LogLine /\ lines[f[n]] # Garbage
    BY <1>1, <1>2, <2>1 DEF places, Legible
  <2> QED BY <1>7, <2>2 DEF LogLine
<1>9. ds \in Seq(Audit!Record)
  <2> HIDE DEF ds
  <2>1. ds = [n \in 1..c |-> ds[n]]
    BY <1>6
  <2>2. ds \in [1..c -> Audit!Record]
    BY <1>8, <2>1
  <2> QED BY <1>6, <2>2
<1> QED BY <1>1, <1>2, <1>3, <1>4, <1>6, <1>7, <1>9 DEF places

\* Adding a line.
LEMMA ReadableAppend ==
  ASSUME NEW lines \in Seq(LogLine), NEW r \in LogLine
  PROVE  Audit!Readable(Append(lines, r)) =
           IF r = Garbage THEN Audit!Readable(lines) ELSE Append(Audit!Readable(lines), r)
<1> DEFINE all == Append(lines, r)
           S == Legible(lines)
           T == Legible(all)
           ds == Audit!Readable(lines)
           es == Audit!Readable(all)
           c == Cardinality(S)
           new == Len(lines) + 1
<1>1. /\ all \in Seq(LogLine) /\ Len(all) = new /\ \A i \in 1..Len(lines) : all[i] = lines[i]
      /\ all[new] = r /\ Len(lines) \in Nat /\ DOMAIN lines = 1..Len(lines) /\ DOMAIN all = 1..Len(all)
  BY AppendProperties, LenProperties
<1> HIDE DEF all
<1>2. PICK f : Lists(f, S) /\ \A n \in 1..c : ds[n] = lines[f[n]]
  BY ReadableFacts
<1>3. PICK g : Lists(g, T) /\ \A n \in 1..Cardinality(T) : es[n] = all[g[n]]
  BY <1>1, ReadableFacts
<1>4. /\ S \in SUBSET (1..Len(lines)) /\ IsFiniteSet(S) /\ c \in Nat
      /\ ds \in Seq(Audit!Record) /\ Len(ds) = c /\ DOMAIN ds = 1..c
  BY ReadableFacts, LenProperties
<1>5. /\ T \in SUBSET (1..Len(all)) /\ IsFiniteSet(T)
      /\ es \in Seq(Audit!Record) /\ Len(es) = Cardinality(T) /\ DOMAIN es = 1..Cardinality(T)
  BY <1>1, ReadableFacts, LenProperties
<1>6. T = IF r = Garbage THEN S ELSE S \cup {new}
  BY <1>1 DEF Legible
<1>7. S \in SUBSET Nat /\ T \in SUBSET Nat /\ new \notin S
  BY <1>1, <1>4, <1>5
<1>8. /\ f \in [1..c -> S]
      /\ \A m, n \in 1..c : f[m] < f[n] <=> m < n
      /\ \A i \in S : \E n \in 1..c : f[n] = i
  BY <1>2 DEF Lists, Covers
<1> HIDE DEF S, T, ds, es
<1>9. CASE r = Garbage
  <2>1. T = S
    BY <1>6, <1>9
  <2>2. f = g
    BY <1>2, <1>3, <1>4, <1>7, <2>1, ListsOnce
  <2>3. \A n \in 1..c : f[n] \in 1..Len(lines)
    BY <1>4, <1>8
  <2>4. \A n \in 1..c : es[n] = ds[n]
    BY <1>1, <1>2, <1>3, <2>1, <2>2, <2>3
  <2>5. es = ds
    <3>1. ds = [n \in 1..c |-> ds[n]] /\ es = [n \in 1..c |-> es[n]]
      BY <1>4, <1>5, <2>1, LenProperties
    <3> QED BY <2>4, <3>1
  <2> QED BY <1>9, <2>5 DEF all, ds, es
<1>10. CASE r # Garbage
  <2> DEFINE h == [n \in 1..(c + 1) |-> IF n = c + 1 THEN new ELSE f[n]]
  <2>1. T = S \cup {new}
    BY <1>6, <1>10
  <2>2. Cardinality(T) = c + 1
    BY <1>4, <1>7, <2>1, FS_AddElement
  <2>3. \A n \in 1..(c + 1) : n = c + 1 \/ (n \in 1..c /\ n # c + 1)
    BY <1>4
  <2>4. \A n \in 1..c : n \in 1..(c + 1) /\ n # c + 1
    BY <1>4
  <2>5. h[c + 1] = new /\ \A n \in 1..c : h[n] = f[n]
    BY <1>4, <2>4
  <2>6. h \in [1..(c + 1) -> T]
    BY <1>8, <2>1, <2>3
  <2> HIDE DEF h
  <2>7. \A i \in T : \E n \in 1..(c + 1) : h[n] = i
    <3>1. c + 1 \in 1..(c + 1)
      BY <1>4
    <3> QED BY <1>8, <2>1, <2>4, <2>5, <3>1
  <2>8. ASSUME NEW n \in 1..c PROVE f[n] \in Nat /\ f[n] < new
    <3>1. f[n] \in S
      BY <1>8
    <3>2. f[n] \in 1..Len(lines)
      BY <1>4, <3>1
    <3> QED BY <1>1, <3>2
  <2>9. ASSUME NEW m \in 1..(c + 1), NEW n \in 1..(c + 1)
        PROVE  h[m] < h[n] <=> m < n
    <3>1. CASE m \in 1..c /\ n \in 1..c
      BY <1>8, <2>5, <3>1
    <3>2. CASE m \in 1..c /\ n = c + 1
      BY <1>4, <2>5, <2>8, <3>2
    <3>3. CASE m = c + 1 /\ n \in 1..c
      <4>1. ~(m < n) /\ ~(new < f[n])
        BY <1>1, <1>4, <2>8, <3>3
      <4> QED BY <2>5, <3>3, <4>1
    <3>4. CASE m = c + 1 /\ n = c + 1
      BY <1>1, <1>4, <2>5, <3>4
    <3> QED BY <2>3, <3>1, <3>2, <3>3, <3>4
  <2>10. Lists(h, T)
    BY <2>2, <2>6, <2>7, <2>9 DEF Lists, Covers
  <2>11. h = g
    BY <1>3, <1>5, <1>7, <2>10, ListsOnce
  <2>12. r \in Audit!Record
    BY <1>10 DEF LogLine
  <2>13. /\ Append(ds, r) \in Seq(Audit!Record) /\ Len(Append(ds, r)) = c + 1
         /\ \A n \in 1..c : Append(ds, r)[n] = ds[n]
         /\ Append(ds, r)[c + 1] = r
    BY <1>4, <2>12, AppendProperties
  <2>14. \A n \in 1..c : f[n] \in 1..Len(lines)
    BY <1>4, <1>8
  <2>15. ASSUME NEW n \in 1..(c + 1)
         PROVE  es[n] = Append(ds, r)[n]
    <3>1. es[n] = all[h[n]]
      BY <1>3, <2>2, <2>11
    <3>2. CASE n \in 1..c
      BY <1>1, <1>2, <2>5, <2>13, <2>14, <3>1, <3>2
    <3>3. CASE n = c + 1
      BY <1>1, <2>5, <2>13, <3>1, <3>3
    <3> QED BY <2>3, <3>2, <3>3
  <2>16. es = Append(ds, r)
    <3>1. DOMAIN Append(ds, r) = 1..(c + 1)
      BY <2>13, LenProperties
    <3>2. /\ es = [n \in 1..(c + 1) |-> es[n]]
      BY <1>5, <2>2, LenProperties
    <3>3. Append(ds, r) = [n \in 1..(c + 1) |-> Append(ds, r)[n]]
      BY <2>13, <3>1, LenProperties
    <3> QED BY <2>15, <3>2, <3>3
  <2> QED BY <1>10, <2>16 DEF all, ds, es
<1> QED BY <1>9, <1>10

\* A file without garbage is read as it is.
LEMMA ReadableWhole ==
  ASSUME NEW lines \in Seq(LogLine), \A i \in 1..Len(lines) : lines[i] # Garbage
  PROVE  Audit!Readable(lines) = lines
<1>1. DOMAIN lines = 1..Len(lines)
  BY LenProperties
<1>2. {i \in DOMAIN lines : lines[i] # Garbage} = DOMAIN lines
  BY <1>1
<1> QED BY <1>2 DEF Audit!Readable, Audit!At

-------------------------------------------------------------------------------
(* The inductive invariant of the log.                                      *)

\* A call that is under way: its entry was made at the time it took.
Calls ==
  {c \in [stage : {"number", "append"}, since : Audit!Times, record : Audit!Record] :
     c.record.intact /\ c.record.trans = c.since}

NoGarbage(lines) == \A i \in 1..Len(lines) : lines[i] # Garbage

\* What no chain has: it shows that the file was changed.
Broken(lines) ==
  \E i \in 1..Len(lines) : lines[i] = Garbage \/ lines[i].seq # i \/ ~lines[i].intact

AuditTypes ==
  /\ log \in Seq(LogLine)
  /\ open \in BOOLEAN
  /\ open => Len(log) > 0
  /\ call \in [Writers -> Calls \cup {Audit!NoCall}]
  /\ now \in Audit!Times /\ begun \in 0..MaxRecords
  /\ written \in Seq(Audit!Record)
  /\ logFaults \subseteq Audit!Faults

\* Of writers that take turns one is at work.
TakeTurns ==
  "overlap" \notin logFaults =>
    \A v, w \in Writers : Audit!InCall(v) /\ Audit!InCall(w) => v = w

\* What a call under way has read is still so.
Continues(c) ==
  /\ c.record.prev = Audit!LastHash
  /\ c.stage = "append" => c.record.seq = Audit!NextSequenceNumber

\* Then the chain holds, and the next record continues it.
ChainHolds ==
  logFaults \subseteq {"torn"} =>
    /\ Audit!Chained(Audit!Readable(log))
    /\ \A w \in Writers : Audit!InCall(w) => Continues(call[w])

\* A file nothing happened to has complete lines only.
Clean == logFaults = {} => ~open /\ NoGarbage(log)

\* A file whose records were left as they are and can be read has all of them.
Complete == logFaults \cap {"damage", "cut"} = {} /\ NoGarbage(log) => log = written

\* Damage to the records of one writer at a time shows.
DamageShows == "damage" \in logFaults /\ "overlap" \notin logFaults => Broken(log)

AuditInv == AuditTypes /\ TakeTurns /\ ChainHolds /\ Clean /\ Complete /\ DamageShows

\* The i-th record continues the one before it.
Linked(rs, i) ==
  /\ rs[i].seq = i
  /\ rs[i].prev = IF i = 1 THEN 0 ELSE rs[i-1].id
  /\ rs[i].intact

LEMMA LogSizes == MaxRecords \in Nat /\ MaxTime \in Nat
BY StoresAssumption

LEMMA RecordFields ==
  ASSUME NEW r \in Audit!Record
  PROVE  /\ r.id \in 1..MaxRecords /\ r.seq \in Nat /\ r.prev \in (1..MaxRecords) \cup {0}
         /\ r.job \in Jobs /\ r.valid \in 0..MaxTime /\ r.trans \in 0..MaxTime
         /\ r.fixes \in (1..MaxRecords) \cup {0}
BY DEF Audit!Record, Audit!Ids, Audit!Times

LEMMA LogList ==
  ASSUME NEW T, NEW list \in Seq(T)
  PROVE  /\ Len(list) \in Nat /\ DOMAIN list = 1..Len(list)
         /\ \A i \in 1..Len(list) : list[i] \in T
BY LenProperties, ElementOfSeq

\* A file of lines that are records is a list of them.
LEMMA LinesAreRecords ==
  ASSUME NEW lines \in Seq(LogLine), NoGarbage(lines)
  PROVE  lines \in Seq(Audit!Record) /\ Audit!Readable(lines) = lines
<1>1. Len(lines) \in Nat /\ DOMAIN lines = 1..Len(lines) /\ \A i \in 1..Len(lines) : lines[i] \in LogLine
  BY LogList
<1>2. \A i \in 1..Len(lines) : lines[i] \in Audit!Record
  BY <1>1 DEF NoGarbage, LogLine
<1>3. lines = [i \in 1..Len(lines) |-> lines[i]]
  BY <1>1
<1>4. lines \in [1..Len(lines) -> Audit!Record]
  BY <1>2, <1>3
<1>5. lines \in Seq(Audit!Record)
  BY <1>1, <1>4
<1> QED BY <1>5, ReadableWhole DEF NoGarbage

\* An open line is spoiled by what is written after it.
LEMMA SpoiledLast ==
  ASSUME NEW lines \in Seq(LogLine), Len(lines) > 0
  PROVE  \E front \in Seq(LogLine), last \in LogLine :
           /\ lines = Append(front, last)
           /\ [lines EXCEPT ![Len(lines)] = Garbage] = Append(front, Garbage)
<1> DEFINE n == Len(lines)
           front == [i \in 1..(n - 1) |-> lines[i]]
           spoiled == [lines EXCEPT ![n] = Garbage]
<1>1. n \in Nat /\ n > 0 /\ DOMAIN lines = 1..n /\ \A i \in 1..n : lines[i] \in LogLine
  BY LogList
<1>2. n - 1 \in Nat /\ n \in 1..n /\ \A i \in 1..n : i = n \/ (i \in 1..(n - 1) /\ i # n)
  <2>1. n \in Nat /\ n > 0
    BY <1>1
  <2> HIDE DEF n
  <2> QED BY <2>1
<1>3. \A i \in 1..(n - 1) : i \in 1..n /\ i # n
  <2>1. n \in Nat
    BY <1>1, SMTT(60)
  <2> HIDE DEF n
  <2> QED BY <2>1
<1>4. front \in [1..(n - 1) -> LogLine]
  BY <1>1, <1>3
<1>5. DOMAIN front = 1..(n - 1) /\ \A i \in 1..(n - 1) : front[i] = lines[i]
  BY SMTT(60)
<1>6. spoiled[n] = Garbage /\ DOMAIN spoiled = 1..n /\ \A i \in 1..(n - 1) : spoiled[i] = lines[i]
  BY <1>1, <1>2, <1>3
<1>7. lines = [i \in 1..n |-> lines[i]] /\ spoiled = [i \in 1..n |-> spoiled[i]]
  <2>1. lines = [i \in 1..n |-> lines[i]]
    <3> HIDE DEF n
    <3> QED BY <1>1
  <2>2. spoiled = [i \in 1..n |-> spoiled[i]]
    <3>1. spoiled \in [1..n -> LogLine]
      <4> HIDE DEF n
      <4>1. lines \in [1..n -> LogLine]
        BY <1>1, <2>1
      <4> QED BY <4>1 DEF LogLine
    <3> HIDE DEF spoiled, n
    <3> QED BY <3>1
  <2> QED BY <2>1, <2>2
<1> HIDE DEF n, front, spoiled
<1>8. front \in Seq(LogLine)
  BY <1>2, <1>4
<1>9. Len(front) = n - 1
  BY <1>2, <1>5, <1>8, LenProperties
<1>10. ASSUME NEW last \in LogLine, NEW g, DOMAIN g = 1..n, g = [i \in 1..n |-> g[i]],
              g[n] = last, \A i \in 1..(n - 1) : g[i] = lines[i]
       PROVE  g = Append(front, last)
  <2> DEFINE a == Append(front, last)
  <2>1. /\ a \in Seq(LogLine) /\ Len(a) = n /\ a[n] = last
        /\ \A i \in 1..(n - 1) : a[i] = front[i]
    BY <1>1, <1>2, <1>8, <1>9, AppendProperties
  <2> HIDE DEF a
  <2>2. a = [i \in 1..n |-> a[i]]
    BY <2>1, LenProperties
  <2>3. \A i \in 1..n : a[i] = g[i]
    BY <1>2, <1>5, <1>10, <2>1
  <2> QED BY <1>10, <2>2, <2>3 DEF a
<1>11. Garbage \in LogLine /\ lines[n] \in LogLine
  BY <1>1, <1>2 DEF LogLine
<1>12. lines = Append(front, lines[n]) /\ spoiled = Append(front, Garbage)
  BY <1>1, <1>6, <1>7, <1>10, <1>11
<1> QED BY <1>8, <1>11, <1>12 DEF n, spoiled

\* A chain without its end is one.
LEMMA ChainShortened ==
  ASSUME NEW rs \in Seq(Audit!Record), NEW r \in Audit!Record, Audit!Chained(Append(rs, r))
  PROVE  Audit!Chained(rs)
<1> DEFINE all == Append(rs, r)
<1>1. /\ Len(rs) \in Nat /\ DOMAIN rs = 1..Len(rs) /\ DOMAIN all = 1..(Len(rs) + 1)
      /\ \A i \in 1..Len(rs) : all[i] = rs[i]
  BY AppendProperties, LenProperties
<1> HIDE DEF all
<1>2. Audit!Chained(all)
  BY DEF all
<1>3. ASSUME NEW i \in 1..Len(rs)
      PROVE  Linked(rs, i)
  <2>1. i \in 1..(Len(rs) + 1) /\ (i = 1 \/ i - 1 \in 1..Len(rs))
    BY <1>1
  <2>2. Linked(all, i)
    BY <1>1, <1>2, <2>1 DEF Audit!Chained, Linked
  <2>3. all[i] = rs[i] /\ (i = 1 \/ all[i-1] = rs[i-1])
    BY <1>1, <2>1
  <2> QED BY <2>2, <2>3 DEF Linked
<1> QED BY <1>1, <1>3 DEF Audit!Chained, Linked

\* A record that continues a chain makes it longer.
LEMMA ChainContinued ==
  ASSUME NEW rs \in Seq(Audit!Record), NEW r \in Audit!Record, Audit!Chained(rs), r.intact,
         r.prev = IF rs = <<>> THEN 0 ELSE rs[Len(rs)].id,
         r.seq = IF rs = <<>> THEN 1 ELSE rs[Len(rs)].seq + 1
  PROVE  Audit!Chained(Append(rs, r))
<1> DEFINE all == Append(rs, r)
           n == Len(rs)
<1>1. /\ n \in Nat /\ DOMAIN rs = 1..n /\ DOMAIN all = 1..(n + 1)
      /\ all[n + 1] = r /\ \A i \in 1..n : all[i] = rs[i]
  BY AppendProperties, LenProperties
<1>2. rs = <<>> <=> n = 0
  BY EmptySeq
<1> HIDE DEF all, n
<1>3. \A i \in 1..n : Linked(rs, i)
  BY <1>1 DEF Audit!Chained, Linked
<1>4. ASSUME NEW i \in 1..n
      PROVE  Linked(all, i)
  <2>1. i = 1 \/ i - 1 \in 1..n
    BY <1>1
  <2>2. Linked(rs, i)
    BY <1>3
  <2>3. all[i] = rs[i] /\ (i = 1 \/ all[i-1] = rs[i-1])
    BY <1>1, <2>1
  <2> QED BY <2>2, <2>3 DEF Linked
<1>5. Linked(all, n + 1)
  <2>1. CASE n = 0
    <3>1. r.prev = 0 /\ r.seq = 1
      BY <1>2, <2>1
    <3>2. n + 1 = 1
      BY <2>1
    <3> QED BY <1>1, <3>1, <3>2 DEF Linked
  <2>2. CASE n # 0
    <3>1. r.prev = rs[n].id /\ r.seq = rs[n].seq + 1
      BY <1>2, <2>2 DEF n
    <3>2. n \in 1..n /\ n + 1 # 1 /\ (n + 1) - 1 = n
      BY <1>1, <2>2
    <3>3. rs[n].seq = n
      BY <1>3, <3>2 DEF Linked
    <3>4. all[(n + 1) - 1] = rs[n]
      BY <1>1, <3>2
    <3> QED BY <1>1, <3>1, <3>2, <3>3, <3>4 DEF Linked
  <2> QED BY <2>1, <2>2
<1>6. \A i \in 1..(n + 1) : i = n + 1 \/ i \in 1..n
  BY <1>1
<1>7. \A i \in DOMAIN all : Linked(all, i)
  BY <1>1, <1>4, <1>5, <1>6
<1> QED BY <1>7 DEF Audit!Chained, Linked, all

\* What is read of a file that ends in garbage is what is read before it.
LEMMA ReadableSpoiled ==
  ASSUME NEW lines \in Seq(LogLine), Len(lines) > 0
  PROVE  LET spoiled == [lines EXCEPT ![Len(lines)] = Garbage] IN
         /\ spoiled \in Seq(LogLine) /\ Len(spoiled) = Len(lines) /\ ~NoGarbage(spoiled)
         /\ Audit!Chained(Audit!Readable(lines)) => Audit!Chained(Audit!Readable(spoiled))
         /\ Broken(spoiled)
<1> DEFINE spoiled == [lines EXCEPT ![Len(lines)] = Garbage]
<1>1. PICK front \in Seq(LogLine), last \in LogLine :
        lines = Append(front, last) /\ spoiled = Append(front, Garbage)
  BY SpoiledLast
<1> HIDE DEF spoiled
<1>2. Garbage \in LogLine
  BY DEF LogLine
<1>3. /\ spoiled \in Seq(LogLine) /\ Len(spoiled) = Len(front) + 1 /\ Len(lines) = Len(front) + 1
      /\ spoiled[Len(front) + 1] = Garbage /\ Len(front) \in Nat
  BY <1>1, <1>2, AppendProperties, LenProperties
<1>4. Len(front) + 1 \in 1..Len(spoiled)
  BY <1>3
<1>5. ~NoGarbage(spoiled) /\ Broken(spoiled)
  BY <1>3, <1>4 DEF NoGarbage, Broken
<1>6. Audit!Readable(spoiled) = Audit!Readable(front)
  BY <1>1, <1>2, ReadableAppend
<1>7. CASE last = Garbage
  BY <1>1, <1>3, <1>5, <1>7 DEF spoiled
<1>8. CASE last # Garbage
  <2>1. Audit!Readable(lines) = Append(Audit!Readable(front), last) /\ last \in Audit!Record
    BY <1>1, <1>8, ReadableAppend DEF LogLine
  <2>2. Audit!Readable(front) \in Seq(Audit!Record)
    BY ReadableFacts
  <2>3. Audit!Chained(Append(Audit!Readable(front), last)) => Audit!Chained(Audit!Readable(front))
    BY <2>1, <2>2, ChainShortened
  <2> QED BY <1>3, <1>5, <1>6, <2>1, <2>3 DEF spoiled
<1> QED BY <1>7, <1>8

\* What record() reads.
LEMMA LastFacts ==
  ASSUME log \in Seq(LogLine)
  PROVE  LET rs == Audit!Readable(log) IN
         /\ rs \in Seq(Audit!Record)
         /\ Audit!LastHash = IF rs = <<>> THEN 0 ELSE rs[Len(rs)].id
         /\ Audit!NextSequenceNumber = IF rs = <<>> THEN 1 ELSE rs[Len(rs)].seq + 1
         /\ Audit!LastHash \in (1..MaxRecords) \cup {0}
         /\ Audit!NextSequenceNumber \in Nat
<1> DEFINE rs == Audit!Readable(log)
<1>1. rs \in Seq(Audit!Record)
  BY ReadableFacts
<1>2. /\ Audit!LastHash = IF rs = <<>> THEN 0 ELSE rs[Len(rs)].id
      /\ Audit!NextSequenceNumber = IF rs = <<>> THEN 1 ELSE rs[Len(rs)].seq + 1
  BY DEF Audit!LastHash, Audit!NextSequenceNumber, Audit!Last
<1> HIDE DEF rs
<1>3. rs # <<>> => rs[Len(rs)] \in Audit!Record
  <2>1. rs # <<>> => Len(rs) \in 1..Len(rs)
    BY <1>1, LogList, EmptySeq
  <2> QED BY <1>1, <2>1, LogList
<1>4. Audit!LastHash \in (1..MaxRecords) \cup {0} /\ Audit!NextSequenceNumber \in Nat
  <2>1. CASE rs = <<>>
    BY <1>2, <2>1
  <2>2. CASE rs # <<>>
    <3>1. rs[Len(rs)].id \in 1..MaxRecords /\ rs[Len(rs)].seq \in Nat
      BY <1>3, <2>2, RecordFields
    <3> QED BY <1>2, <2>2, <3>1
  <2> QED BY <2>1, <2>2
<1> QED BY <1>1, <1>2, <1>4 DEF rs

LEMMA CallFacts ==
  /\ Audit!NoCall.stage = "idle"
  /\ \A c \in Calls : /\ c.stage \in {"number", "append"} /\ c.since \in Audit!Times
                      /\ c.record \in Audit!Record
                      /\ c.record.intact /\ c.record.trans = c.since
  /\ \A c \in Calls : c.stage # "idle"
<1>1. ASSUME NEW c \in Calls
      PROVE  /\ c.stage \in {"number", "append"} /\ c.since \in Audit!Times
             /\ c.record \in Audit!Record
  BY DEF Calls
<1>2. ASSUME NEW c \in Calls PROVE c.record.intact /\ c.record.trans = c.since
  BY Zenon DEF Calls
<1>3. \A c \in Calls : c.stage # "idle"
  BY <1>1
<1>4. Audit!NoCall.stage = "idle"
  BY DEF Audit!NoCall
<1> QED BY <1>1, <1>2, <1>3, <1>4

\* One writer moves.
LEMMA CallMoved ==
  ASSUME call \in [Writers -> Calls \cup {Audit!NoCall}], NEW w \in Writers,
         NEW c \in Calls \cup {Audit!NoCall}, call' = [call EXCEPT ![w] = c]
  PROVE  /\ call' \in [Writers -> Calls \cup {Audit!NoCall}]
         /\ call'[w] = c /\ \A v \in Writers : v # w => call'[v] = call[v]
         /\ \A v \in Writers : Audit!InCall(v) <=> call[v] \in Calls
         /\ \A v \in Writers : Audit!InCall(v)' <=> call'[v] \in Calls
<1>1. /\ call' \in [Writers -> Calls \cup {Audit!NoCall}]
      /\ call'[w] = c /\ \A v \in Writers : v # w => call'[v] = call[v]
  OBVIOUS
<1>2. ASSUME NEW g \in [Writers -> Calls \cup {Audit!NoCall}], NEW v \in Writers
      PROVE  g[v].stage # "idle" <=> g[v] \in Calls
  <2>1. g[v] \in Calls \/ g[v] = Audit!NoCall
    OBVIOUS
  <2> QED BY <2>1, CallFacts
<1>3. \A v \in Writers : Audit!InCall(v) <=> call[v] \in Calls
  BY <1>2 DEF Audit!InCall
<1>4. \A v \in Writers : Audit!InCall(v)' <=> call'[v] \in Calls
  <2>1. ASSUME NEW v \in Writers PROVE Audit!InCall(v)' <=> call'[v].stage # "idle"
    BY DEF Audit!InCall
  <2>2. PICK g : g = call'
    OBVIOUS
  <2>3. \A v \in Writers : g[v].stage # "idle" <=> g[v] \in Calls
    BY <1>1, <1>2, <2>2
  <2> QED BY <2>1, <2>2, <2>3
<1> QED BY <1>1, <1>3, <1>4

LEMMA AuditUnchanged ==
  ASSUME AuditInv, UNCHANGED logVars
  PROVE  AuditInv'
<1>1. /\ log' = log /\ open' = open /\ call' = call /\ now' = now /\ begun' = begun
      /\ written' = written /\ logFaults' = logFaults
  BY DEF logVars
<1>2. AuditTypes'
  <2>1. AuditTypes
    BY DEF AuditInv
  <2> QED BY <1>1, <2>1, Zenon DEF AuditTypes
<1>3. TakeTurns' /\ DamageShows' /\ Complete' /\ Clean'
  BY <1>1 DEF AuditInv, TakeTurns, DamageShows, Complete, Clean, Audit!InCall
<1>4. ChainHolds'
  BY <1>1 DEF AuditInv, ChainHolds, Continues, Audit!InCall, Audit!LastHash, Audit!NextSequenceNumber
<1> QED BY <1>2, <1>3, <1>4 DEF AuditInv

\* Adding a line.
LEMMA LineAdded ==
  ASSUME NEW lines \in Seq(LogLine), NEW line \in LogLine
  PROVE  LET more == Append(lines, line) IN
         /\ more \in Seq(LogLine) /\ Len(more) = Len(lines) + 1 /\ Len(lines) \in Nat
         /\ NoGarbage(more) <=> NoGarbage(lines) /\ line # Garbage
         /\ Broken(lines) => Broken(more)
<1> DEFINE more == Append(lines, line)
           n == Len(lines)
<1>1. /\ more \in Seq(LogLine) /\ Len(more) = n + 1 /\ n \in Nat
      /\ more[n + 1] = line /\ \A i \in 1..n : more[i] = lines[i]
  BY AppendProperties, LenProperties
<1> HIDE DEF more, n
<1>2. /\ n + 1 \in 1..(n + 1) /\ \A i \in 1..n : i \in 1..(n + 1)
      /\ \A i \in 1..(n + 1) : i = n + 1 \/ i \in 1..n
  BY <1>1
<1>3. NoGarbage(more) <=> NoGarbage(lines) /\ line # Garbage
  BY <1>1, <1>2 DEF NoGarbage, n
<1>4. Broken(lines) => Broken(more)
  <2> SUFFICES ASSUME Broken(lines) PROVE Broken(more)
    OBVIOUS
  <2>1. PICK i \in 1..n : lines[i] = Garbage \/ lines[i].seq # i \/ ~lines[i].intact
    BY DEF Broken, n
  <2>2. i \in 1..Len(more) /\ more[i] = lines[i]
    BY <1>1, <1>2
  <2>3. more[i] = Garbage \/ more[i].seq # i \/ ~more[i].intact
    BY <2>1, <2>2, Zenon
  <2> QED BY <2>2, <2>3, Zenon DEF Broken
<1> QED BY <1>1, <1>3, <1>4 DEF more, n

\* A line is written: that of a call, or a part of it.
LEMMA AppendStep ==
  ASSUME AuditInv, NEW w \in Writers, call[w].stage = "append",
         NEW line \in {call[w].record, Garbage}, NEW torn \in SUBSET {"torn"},
         log' = Audit!Appended(line), open' \in BOOLEAN,
         open' => torn # {}, line = Garbage => torn # {},
         written' = IF line = Garbage THEN written ELSE Append(written, line),
         call' = [call EXCEPT ![w] = Audit!NoCall],
         logFaults' = logFaults \cup torn, now' = now, begun' = begun
  PROVE  AuditInv'
<1> DEFINE c == call[w]
<1>1. /\ log \in Seq(LogLine) /\ call \in [Writers -> Calls \cup {Audit!NoCall}]
      /\ now \in Audit!Times /\ begun \in 0..MaxRecords /\ written \in Seq(Audit!Record)
      /\ logFaults \subseteq Audit!Faults /\ (open => Len(log) > 0)
  BY DEF AuditInv, AuditTypes
<1>2. /\ call' \in [Writers -> Calls \cup {Audit!NoCall}]
      /\ call'[w] = Audit!NoCall /\ \A v \in Writers : v # w => call'[v] = call[v]
      /\ \A v \in Writers : Audit!InCall(v) <=> call[v] \in Calls
      /\ \A v \in Writers : Audit!InCall(v)' <=> call'[v] \in Calls
  BY <1>1, CallMoved
<1>3. Audit!NoCall \notin Calls
  BY CallFacts
<1>4. c \in Calls /\ Audit!InCall(w) /\ c.record \in Audit!Record /\ c.stage = "append"
  <2>1. c.stage # "idle"
    OBVIOUS
  <2>2. c \in Calls
    BY <1>1, <2>1, CallFacts
  <2> QED BY <1>2, <2>2, CallFacts
<1>5. c.record.intact
  BY <1>4, CallFacts, Zenon
<1> HIDE DEF c
<1>6. line \in LogLine /\ (line # Garbage => line = c.record) /\ c.record # Garbage
  BY <1>4, GarbageIsNoRecord DEF LogLine, c
<1>7. \A v \in Writers : Audit!InCall(v)' => v # w /\ Audit!InCall(v)
  BY <1>2, <1>3
<1>8. /\ logFaults' \subseteq Audit!Faults /\ logFaults \subseteq logFaults'
      /\ logFaults' \ logFaults \subseteq {"torn"}
  BY <1>1 DEF Audit!Faults
<1>9. TakeTurns'
  BY <1>7, <1>8 DEF AuditInv, TakeTurns
<1>10. logFaults' \subseteq {"torn"} => \A v \in Writers : ~Audit!InCall(v)'
  <2> SUFFICES ASSUME logFaults' \subseteq {"torn"}, NEW v \in Writers, Audit!InCall(v)' PROVE FALSE
    OBVIOUS
  <2>1. "overlap" \notin logFaults
    BY <1>8
  <2> QED BY <1>4, <1>7, <2>1 DEF AuditInv, TakeTurns
<1>11. written' \in Seq(Audit!Record)
  BY <1>1, <1>4, <1>6, AppendProperties
<1>12. CASE open
  <2> DEFINE spoiled == [log EXCEPT ![Len(log)] = Garbage]
  <2>1. log' = spoiled
    BY <1>12 DEF Audit!Appended
  <2>2. Len(log) > 0 /\ Len(log) \in Nat
    BY <1>1, <1>12, LogList
  <2>3. /\ spoiled \in Seq(LogLine) /\ Len(spoiled) = Len(log) /\ ~NoGarbage(spoiled)
        /\ Audit!Chained(Audit!Readable(log)) => Audit!Chained(Audit!Readable(spoiled))
        /\ Broken(spoiled)
    BY <1>1, <2>2, ReadableSpoiled
  <2> HIDE DEF spoiled
  <2>4. AuditTypes'
    <3>1. log' \in Seq(LogLine) /\ Len(log') > 0
      BY <2>1, <2>2, <2>3
    <3>2. now' \in Audit!Times /\ begun' \in 0..MaxRecords
      BY <1>1
    <3> QED BY <1>2, <1>8, <1>11, <3>1, <3>2 DEF AuditTypes
  <2>5. ChainHolds'
    <3> SUFFICES ASSUME logFaults' \subseteq {"torn"} PROVE Audit!Chained(Audit!Readable(log'))
      BY <1>10 DEF ChainHolds
    <3>1. Audit!Chained(Audit!Readable(log))
      BY <1>8 DEF AuditInv, ChainHolds
    <3> QED BY <2>1, <2>3, <3>1
  <2>6. Clean'
    BY <1>8, <1>12 DEF AuditInv, Clean
  <2>7. Complete' /\ DamageShows'
    BY <2>1, <2>3 DEF Complete, DamageShows
  <2> QED BY <1>9, <2>4, <2>5, <2>6, <2>7 DEF AuditInv
<1>13. CASE ~open
  <2> DEFINE more == Append(log, line)
  <2>1. log' = more
    BY <1>13 DEF Audit!Appended
  <2>2. /\ more \in Seq(LogLine) /\ Len(more) = Len(log) + 1 /\ Len(log) \in Nat
        /\ NoGarbage(more) <=> NoGarbage(log) /\ line # Garbage
        /\ Broken(log) => Broken(more)
    BY <1>1, <1>6, LineAdded
  <2>3. Audit!Readable(more) =
          IF line = Garbage THEN Audit!Readable(log) ELSE Append(Audit!Readable(log), line)
    BY <1>1, <1>6, ReadableAppend
  <2> HIDE DEF more
  <2>4. AuditTypes'
    <3>1. log' \in Seq(LogLine) /\ Len(log') > 0
      BY <2>1, <2>2
    <3>2. now' \in Audit!Times /\ begun' \in 0..MaxRecords
      BY <1>1
    <3> QED BY <1>2, <1>8, <1>11, <3>1, <3>2 DEF AuditTypes
  <2>5. ChainHolds'
    <3> SUFFICES ASSUME logFaults' \subseteq {"torn"} PROVE Audit!Chained(Audit!Readable(log'))
      BY <1>10 DEF ChainHolds
    <3>1. Audit!Chained(Audit!Readable(log)) /\ Continues(c)
      BY <1>4, <1>8 DEF AuditInv, ChainHolds, c
    <3>2. CASE line = Garbage
      BY <2>1, <2>3, <3>1, <3>2
    <3>3. CASE line # Garbage
      <4> DEFINE rs == Audit!Readable(log)
                 r == c.record
      <4>1. /\ rs \in Seq(Audit!Record)
            /\ Audit!LastHash = IF rs = <<>> THEN 0 ELSE rs[Len(rs)].id
            /\ Audit!NextSequenceNumber = IF rs = <<>> THEN 1 ELSE rs[Len(rs)].seq + 1
        BY <1>1, LastFacts
      <4>2. r.prev = Audit!LastHash /\ r.seq = Audit!NextSequenceNumber
        BY <1>4, <3>1 DEF Continues
      <4>3. r \in Audit!Record /\ Audit!Chained(rs) /\ line = r
        BY <1>4, <1>6, <3>1, <3>3
      <4>4. r.intact
        BY <1>5, Zenon
      <4> HIDE DEF rs, r
      <4>5. /\ r.prev = IF rs = <<>> THEN 0 ELSE rs[Len(rs)].id
            /\ r.seq = IF rs = <<>> THEN 1 ELSE rs[Len(rs)].seq + 1
        BY <4>1, <4>2
      <4>6. Audit!Chained(Append(rs, r))
        BY <4>1, <4>3, <4>4, <4>5, ChainContinued
      <4> QED BY <2>1, <2>3, <3>3, <4>3, <4>6 DEF rs
    <3> QED BY <3>2, <3>3
  <2>6. Clean'
    <3> SUFFICES ASSUME logFaults' = {} PROVE ~open' /\ NoGarbage(log')
      BY DEF Clean
    <3>1. logFaults = {} /\ torn = {}
      BY <1>8
    <3>2. NoGarbage(log)
      BY <3>1 DEF AuditInv, Clean
    <3> QED BY <2>1, <2>2, <3>1, <3>2
  <2>7. Complete'
    <3> SUFFICES ASSUME logFaults' \cap {"damage", "cut"} = {}, NoGarbage(log') PROVE log' = written'
      BY DEF Complete
    <3>1. NoGarbage(log) /\ line # Garbage /\ logFaults \cap {"damage", "cut"} = {}
      BY <1>8, <2>1, <2>2
    <3>2. log = written
      BY <3>1 DEF AuditInv, Complete
    <3> QED BY <2>1, <3>1, <3>2 DEF more
  <2>8. DamageShows'
    <3> SUFFICES ASSUME "damage" \in logFaults', "overlap" \notin logFaults' PROVE Broken(log')
      BY DEF DamageShows
    <3>1. "damage" \in logFaults /\ "overlap" \notin logFaults
      BY <1>8
    <3> QED BY <2>1, <2>2, <3>1 DEF AuditInv, DamageShows
  <2> QED BY <1>9, <2>4, <2>5, <2>6, <2>7, <2>8 DEF AuditInv
<1> QED BY <1>12, <1>13

\* What a call writes is a record.
LEMMA RecordWritten ==
  ASSUME AuditInv, NEW w \in Writers, call[w].stage = "append"
  PROVE  call[w] \in Calls /\ call[w].record \in Audit!Record /\ call[w].record # Garbage
<1>1. call[w] \in Calls \cup {Audit!NoCall}
  BY DEF AuditInv, AuditTypes
<1>2. call[w] \in Calls
  BY <1>1, CallFacts
<1> QED BY <1>2, CallFacts, GarbageIsNoRecord

LEMMA WriteStep ==
  ASSUME AuditInv, NEW w \in Writers, Audit!Write(w)
  PROVE  AuditInv'
<1> DEFINE line == call[w].record
           torn == {}
<1>1. /\ call[w].stage = "append" /\ log' = Audit!Appended(line) /\ open' = FALSE
      /\ written' = Append(written, line) /\ call' = [call EXCEPT ![w] = Audit!NoCall]
      /\ now' = now /\ begun' = begun /\ logFaults' = logFaults
  BY DEF Audit!Write, Audit!Returns
<1>2. line # Garbage
  BY <1>1, RecordWritten
<1>3. line \in {call[w].record, Garbage} /\ torn \in SUBSET {"torn"} /\ logFaults' = logFaults \cup torn
  BY <1>1
<1> HIDE DEF line, torn
<1>4. open' \in BOOLEAN /\ (open' => torn # {}) /\ (line = Garbage => torn # {})
  BY <1>1, <1>2
<1>5. written' = IF line = Garbage THEN written ELSE Append(written, line)
  BY <1>1, <1>2
<1> QED BY <1>1, <1>3, <1>4, <1>5, AppendStep

LEMMA DiesWritingStep ==
  ASSUME AuditInv, NEW w \in Writers, NEW whole \in BOOLEAN, Audit!DiesWriting(w, whole)
  PROVE  AuditInv'
<1> DEFINE line == IF whole THEN call[w].record ELSE Garbage
           torn == {"torn"}
<1>1. /\ call[w].stage = "append" /\ log' = Audit!Appended(line) /\ open' = TRUE
      /\ written' = (IF whole THEN Append(written, call[w].record) ELSE written)
      /\ call' = [call EXCEPT ![w] = Audit!NoCall]
      /\ now' = now /\ begun' = begun /\ logFaults' = logFaults \cup torn
  BY DEF Audit!DiesWriting, Audit!Returns
<1>2. call[w].record # Garbage
  BY <1>1, RecordWritten
<1>3. line \in {call[w].record, Garbage} /\ torn \in SUBSET {"torn"}
  OBVIOUS
<1>4. written' = IF line = Garbage THEN written ELSE Append(written, line)
  BY <1>1, <1>2
<1>5. open' \in BOOLEAN /\ (open' => torn # {}) /\ (line = Garbage => torn # {})
  BY <1>1
<1> HIDE DEF line, torn
<1> QED BY <1>1, <1>3, <1>4, <1>5, AppendStep

LEMMA WriteFailsStep ==
  ASSUME AuditInv, NEW w \in Writers, Audit!WriteFails(w)
  PROVE  AuditInv'
<1>1. /\ call' = [call EXCEPT ![w] = Audit!NoCall] /\ log' = log /\ open' = open /\ now' = now
      /\ begun' = begun /\ written' = written /\ logFaults' = logFaults
  BY DEF Audit!WriteFails, Audit!Returns
<1>2. call \in [Writers -> Calls \cup {Audit!NoCall}] /\ AuditTypes
  BY DEF AuditInv, AuditTypes
<1>3. /\ call' \in [Writers -> Calls \cup {Audit!NoCall}]
      /\ call'[w] = Audit!NoCall /\ \A v \in Writers : v # w => call'[v] = call[v]
      /\ \A v \in Writers : Audit!InCall(v) <=> call[v] \in Calls
      /\ \A v \in Writers : Audit!InCall(v)' <=> call'[v] \in Calls
  BY <1>1, <1>2, CallMoved
<1>4. \A v \in Writers : Audit!InCall(v)' => Audit!InCall(v) /\ call'[v] = call[v]
  BY <1>3, CallFacts
<1>5. AuditTypes'
  BY <1>1, <1>2, <1>3, Zenon DEF AuditTypes
<1>6. TakeTurns'
  BY <1>1, <1>4 DEF AuditInv, TakeTurns
<1>7. ChainHolds'
  <2> SUFFICES ASSUME logFaults' \subseteq {"torn"}
               PROVE  /\ Audit!Chained(Audit!Readable(log'))
                      /\ \A v \in Writers : Audit!InCall(v)' => Continues(call[v])' 
    BY DEF ChainHolds, Continues
  <2>1. Audit!Chained(Audit!Readable(log)) /\ \A v \in Writers : Audit!InCall(v) => Continues(call[v])
    BY <1>1 DEF AuditInv, ChainHolds
  <2> QED BY <1>1, <1>4, <2>1 DEF Continues, Audit!LastHash, Audit!NextSequenceNumber
<1>8. Clean' /\ Complete' /\ DamageShows'
  BY <1>1 DEF AuditInv, Clean, Complete, DamageShows
<1> QED BY <1>5, <1>6, <1>7, <1>8 DEF AuditInv

LEMMA CallBeginsStep ==
  ASSUME AuditInv, NEW w \in Writers, NEW j \in Jobs, NEW t \in 0..now,
         NEW f \in {r.id : r \in Audit!Range(Audit!Readable(log))} \cup {0},
         Audit!Begin(w, j, t, f)
  PROVE  AuditInv'
<1> DEFINE c == [stage |-> "number", since |-> now, record |-> Audit!Entry(j, t, f)]
<1>1. /\ ~Audit!InCall(w) /\ begun < MaxRecords /\ begun' = begun + 1
      /\ call' = [call EXCEPT ![w] = c]
      /\ logFaults' = logFaults \cup IF \E v \in Writers : Audit!InCall(v) THEN {"overlap"} ELSE {}
      /\ log' = log /\ open' = open /\ now' = now /\ written' = written
  BY DEF Audit!Begin
<1>2. /\ log \in Seq(LogLine) /\ call \in [Writers -> Calls \cup {Audit!NoCall}]
      /\ now \in 0..MaxTime /\ begun \in 0..MaxRecords /\ AuditTypes
      /\ logFaults \subseteq Audit!Faults
  BY DEF AuditInv, AuditTypes, Audit!Times
<1>3. Audit!LastHash \in (1..MaxRecords) \cup {0} /\ Audit!Readable(log) \in Seq(Audit!Record)
  BY <1>2, LastFacts
<1>4. f \in (1..MaxRecords) \cup {0}
  <2>1. ASSUME NEW r \in Audit!Range(Audit!Readable(log)) PROVE r.id \in 1..MaxRecords
    <3>1. r \in Audit!Record
      BY <1>3, LogList DEF Audit!Range
    <3> QED BY <3>1, RecordFields
  <2> QED BY <2>1
<1>5. c \in Calls /\ c.record.prev = Audit!LastHash /\ c.stage = "number"
  <2> DEFINE r == Audit!Entry(j, t, f)
  <2>1. begun + 1 \in 1..MaxRecords /\ t \in 0..MaxTime
    BY <1>1, <1>2, LogSizes
  <2>2. r \in Audit!Record
    BY <1>2, <1>3, <1>4, <2>1, LogSizes DEF Audit!Record, Audit!Ids, Audit!Times, Audit!Entry
  <2>3. r.trans = now /\ r.prev = Audit!LastHash
    BY DEF Audit!Entry
  <2>4. r.intact
    BY Zenon DEF Audit!Entry
  <2> HIDE DEF r
  <2> DEFINE d == [stage |-> "number", since |-> now, record |-> r]
  <2>5. d \in [stage : {"number", "append"}, since : Audit!Times, record : Audit!Record]
    BY <1>2, <2>2 DEF Audit!Times
  <2>6. d.record = r /\ d.since = now /\ d.stage = "number"
    OBVIOUS
  <2> HIDE DEF d
  <2>7. d.record.intact
    BY <2>4, <2>6, Zenon
  <2>8. d.record.trans = d.since
    BY <2>3, <2>6
  <2>9. d \in Calls
    BY <2>5, <2>7, <2>8, Zenon DEF Calls
  <2> QED BY <2>3, <2>6, <2>9, Zenon DEF d, r
<1> HIDE DEF c
<1>6. /\ call' \in [Writers -> Calls \cup {Audit!NoCall}]
      /\ call'[w] = c /\ \A v \in Writers : v # w => call'[v] = call[v]
      /\ \A v \in Writers : Audit!InCall(v) <=> call[v] \in Calls
      /\ \A v \in Writers : Audit!InCall(v)' <=> call'[v] \in Calls
  BY <1>1, <1>2, <1>5, CallMoved
<1>7. \A v \in Writers : v # w => (Audit!InCall(v)' <=> Audit!InCall(v))
  BY <1>6
<1>8. /\ logFaults' \subseteq Audit!Faults /\ logFaults \subseteq logFaults'
      /\ logFaults' \ logFaults \subseteq {"overlap"}
      /\ "overlap" \notin logFaults' => \A v \in Writers : ~Audit!InCall(v)
  BY <1>1, <1>2 DEF Audit!Faults
<1>9. AuditTypes'
  <2>1. begun' \in 0..MaxRecords
    BY <1>1, <1>2, LogSizes
  <2> QED BY <1>1, <1>2, <1>6, <1>8, <2>1, Zenon DEF AuditTypes
<1>10. TakeTurns'
  BY <1>7, <1>8 DEF TakeTurns
<1>11. ChainHolds'
  <2> SUFFICES ASSUME logFaults' \subseteq {"torn"}
               PROVE  /\ Audit!Chained(Audit!Readable(log'))
                      /\ \A v \in Writers : Audit!InCall(v)' => Continues(call[v])'
    BY DEF ChainHolds, Continues
  <2>1. logFaults \subseteq {"torn"} /\ \A v \in Writers : ~Audit!InCall(v)
    BY <1>8
  <2>2. Audit!Chained(Audit!Readable(log))
    BY <2>1 DEF AuditInv, ChainHolds
  <2>3. ASSUME NEW v \in Writers, Audit!InCall(v)' PROVE Continues(call[v])'
    <3>1. v = w
      BY <1>7, <2>1, <2>3
    <3> QED BY <1>1, <1>5, <1>6, <3>1 DEF Continues, Audit!LastHash
  <2> QED BY <1>1, <2>2, <2>3
<1>12. Clean' /\ Complete' /\ DamageShows'
  BY <1>1, <1>8 DEF AuditInv, Clean, Complete, DamageShows
<1> QED BY <1>9, <1>10, <1>11, <1>12 DEF AuditInv

\* The number is the only thing record() adds to its entry.
LEMMA Renumbered ==
  ASSUME NEW S, NEW T, NEW R, NEW c \in [stage : S, since : T, record : R], NEW n
  PROVE  [c EXCEPT !.stage = "append", !.record.seq = n] =
           [stage |-> "append", since |-> c.since, record |-> [c.record EXCEPT !.seq = n]]
<1> DEFINE e == [c EXCEPT !.stage = "append"]
           r == [c.record EXCEPT !.seq = n]
<1>1. e = [stage |-> "append", since |-> c.since, record |-> c.record] /\ e.record = c.record
  OBVIOUS
<1>2. [c EXCEPT !.stage = "append", !.record.seq = n] = [e EXCEPT !.record = r]
  BY <1>1
<1> HIDE DEF r, e
<1>3. [e EXCEPT !.record = r] = [stage |-> "append", since |-> c.since, record |-> r]
  BY <1>1
<1> QED BY <1>2, <1>3 DEF r

LEMMA NumberStep ==
  ASSUME AuditInv, NEW w \in Writers, Audit!Number(w)
  PROVE  AuditInv'
<1> DEFINE c == call[w]
           d == [c EXCEPT !.stage = "append", !.record.seq = Audit!NextSequenceNumber]
           r == [c.record EXCEPT !.seq = Audit!NextSequenceNumber]
<1>1. /\ c.stage = "number" /\ call' = [call EXCEPT ![w] = d]
      /\ log' = log /\ open' = open /\ now' = now /\ begun' = begun /\ written' = written
      /\ logFaults' = logFaults
  BY DEF Audit!Number
<1>2. log \in Seq(LogLine) /\ call \in [Writers -> Calls \cup {Audit!NoCall}] /\ AuditTypes
  BY DEF AuditInv, AuditTypes
<1>3. c \in Calls
  BY <1>1, <1>2, CallFacts
<1>4. Audit!NextSequenceNumber \in Nat
  BY <1>2, LastFacts
<1> DEFINE n == Audit!NextSequenceNumber
<1> HIDE DEF n
<1>5. d \in Calls /\ d.stage = "append" /\ d.record.seq = n /\ d.record.prev = c.record.prev
  <2>1. c \in [stage : {"number", "append"}, since : Audit!Times, record : Audit!Record]
    BY <1>3 DEF Calls
  <2>2. d = [stage |-> "append", since |-> c.since, record |-> r]
    BY <2>1, Renumbered
  <2>3. c.record \in Audit!Record
    BY <2>1
  <2>4. r \in Audit!Record /\ r.seq = n /\ r.prev = c.record.prev /\ r.trans = c.record.trans
    BY <1>4, <2>3 DEF Audit!Record, n
  <2>5. r.intact
    <3>1. c.record.intact
      BY <1>3, CallFacts, Zenon
    <3>2. r.intact = c.record.intact
      BY <2>3 DEF Audit!Record
    <3> QED BY <3>1, <3>2, Zenon
  <2>6. c.record.trans = c.since /\ c.since \in Audit!Times
    BY <1>3, CallFacts
  <2> HIDE DEF d, r, c
  <2>7. d.stage = "append" /\ d.since = c.since /\ d.record = r
    BY <2>2
  <2>8. d \in [stage : {"number", "append"}, since : Audit!Times, record : Audit!Record]
    BY <2>2, <2>4, <2>6
  <2>9. d.record.intact
    BY <2>5, <2>7, Zenon
  <2>10. d.record.trans = d.since
    BY <2>4, <2>6, <2>7
  <2>11. d \in Calls
    BY <2>8, <2>9, <2>10, Zenon DEF Calls
  <2> QED BY <2>4, <2>7, <2>11
<1> HIDE DEF c, d
<1>6. /\ call' \in [Writers -> Calls \cup {Audit!NoCall}]
      /\ call'[w] = d /\ \A v \in Writers : v # w => call'[v] = call[v]
      /\ \A v \in Writers : Audit!InCall(v) <=> call[v] \in Calls
      /\ \A v \in Writers : Audit!InCall(v)' <=> call'[v] \in Calls
  BY <1>1, <1>2, <1>5, CallMoved
<1>7. Audit!InCall(w) /\ \A v \in Writers : Audit!InCall(v)' <=> Audit!InCall(v)
  BY <1>3, <1>5, <1>6 DEF c
<1>8. AuditTypes'
  BY <1>1, <1>2, <1>6, Zenon DEF AuditTypes
<1>9. TakeTurns'
  BY <1>1, <1>7 DEF AuditInv, TakeTurns
<1>10. ChainHolds'
  <2> SUFFICES ASSUME logFaults' \subseteq {"torn"}
               PROVE  /\ Audit!Chained(Audit!Readable(log'))
                      /\ \A v \in Writers : Audit!InCall(v)' => Continues(call[v])'
    BY DEF ChainHolds, Continues
  <2>1. Audit!Chained(Audit!Readable(log)) /\ \A v \in Writers : Audit!InCall(v) => Continues(call[v])
    BY <1>1 DEF AuditInv, ChainHolds
  <2>2. Audit!LastHash' = Audit!LastHash /\ Audit!NextSequenceNumber' = Audit!NextSequenceNumber
    BY <1>1 DEF Audit!LastHash, Audit!NextSequenceNumber
  <2>3. ASSUME NEW v \in Writers, Audit!InCall(v)' PROVE Continues(call[v])'
    <3>1. Continues(call[v])
      BY <1>7, <2>1, <2>3
    <3>2. CASE v = w
      BY <1>5, <1>6, <2>2, <3>1, <3>2 DEF Continues, c, n
    <3>3. CASE v # w
      BY <1>6, <2>2, <3>1, <3>3 DEF Continues
    <3> QED BY <3>2, <3>3
  <2> QED BY <1>1, <2>1, <2>3
<1>11. Clean' /\ Complete' /\ DamageShows'
  BY <1>1 DEF AuditInv, Clean, Complete, DamageShows
<1> QED BY <1>8, <1>9, <1>10, <1>11 DEF AuditInv

LEMMA LogTickStep ==
  ASSUME AuditInv, Audit!Tick
  PROVE  AuditInv'
<1>1. /\ log' = log /\ open' = open /\ call' = call /\ begun' = begun
      /\ written' = written /\ logFaults' = logFaults /\ now < MaxTime /\ now' = now + 1
  BY DEF Audit!Tick
<1>2. AuditTypes'
  <2>1. AuditTypes /\ now \in 0..MaxTime
    BY DEF AuditInv, AuditTypes, Audit!Times
  <2>2. now' \in Audit!Times
    BY <1>1, <2>1, LogSizes DEF Audit!Times
  <2> QED BY <1>1, <2>1, <2>2, Zenon DEF AuditTypes
<1>3. TakeTurns' /\ DamageShows' /\ Complete' /\ Clean'
  BY <1>1 DEF AuditInv, TakeTurns, DamageShows, Complete, Clean, Audit!InCall
<1>4. ChainHolds'
  BY <1>1 DEF AuditInv, ChainHolds, Continues, Audit!InCall, Audit!LastHash, Audit!NextSequenceNumber
<1> QED BY <1>2, <1>3, <1>4 DEF AuditInv

LEMMA FunctionList ==
  ASSUME NEW T, NEW n \in Nat, NEW list \in [1..n -> T]
  PROVE  list \in Seq(T) /\ Len(list) = n
<1>1. list \in Seq(T) /\ DOMAIN list = 1..n
  OBVIOUS
<1> QED BY <1>1, LenProperties

LEMMA MigrateStep ==
  ASSUME AuditInv, NEW rows \in [1..2 -> Jobs \X (0..now)], Audit!Migrate(rows)
  PROVE  AuditInv'
<1> DEFINE Row(i) == [id |-> begun + i, seq |-> i, prev |-> IF i = 1 THEN 0 ELSE begun + i - 1,
                      job |-> rows[i][1], valid |-> rows[i][2], trans |-> now, fixes |-> 0,
                      intact |-> TRUE]
           new == [i \in 1..2 |-> Row(i)]
<1>1. DOMAIN rows = 1..2 /\ Len(rows) = 2
  <2>1. DOMAIN rows = 1..2
    OBVIOUS
  <2> QED BY <2>1, FunctionList
<1>2. /\ log = <<>> /\ begun + 2 <= MaxRecords /\ log' = new
      /\ written' = written \o log' /\ begun' = begun + 2
      /\ logFaults' = logFaults \cup IF \E v \in Writers : Audit!InCall(v) THEN {"overlap"} ELSE {}
      /\ open' = open /\ call' = call /\ now' = now
  BY <1>1 DEF Audit!Migrate
<1>3. /\ log \in Seq(LogLine) /\ now \in 0..MaxTime /\ begun \in 0..MaxRecords /\ AuditTypes
      /\ written \in Seq(Audit!Record) /\ logFaults \subseteq Audit!Faults /\ (open => Len(log) > 0)
  BY DEF AuditInv, AuditTypes, Audit!Times
<1>4. ASSUME NEW i \in 1..2 PROVE Row(i) \in Audit!Record
  <2>1. begun + i \in 1..MaxRecords
    BY <1>2, <1>3, LogSizes
  <2>2. (IF i = 1 THEN 0 ELSE begun + i - 1) \in (1..MaxRecords) \cup {0}
    BY <1>2, <1>3, LogSizes
  <2>3. rows[i][1] \in Jobs /\ rows[i][2] \in 0..MaxTime
    <3>1. rows[i] \in Jobs \X (0..now)
      OBVIOUS
    <3>2. rows[i][2] \in 0..now
      BY <3>1
    <3> QED BY <1>3, <3>1, <3>2, LogSizes
  <2>4. i \in Nat /\ now \in 0..MaxTime
    BY <1>3
  <2> QED BY <2>1, <2>2, <2>3, <2>4 DEF Audit!Record, Audit!Ids, Audit!Times
<1>5. Row(1).seq = 1 /\ Row(1).prev = 0 /\ Row(2).seq = 2 /\ Row(2).prev = Row(1).id
  <2>1. begun + 2 - 1 = begun + 1
    BY <1>3
  <2> QED BY <2>1
<1>6. Row(1).intact /\ Row(2).intact
  BY Zenon
<1>7. new[1] = Row(1) /\ new[2] = Row(2) /\ DOMAIN new = 1..2
  OBVIOUS
<1>8. new \in [1..2 -> Audit!Record]
  BY <1>4
<1> HIDE DEF Row, new
<1>9. new \in Seq(Audit!Record)
  BY <1>8, FunctionList
<1>10. Len(new) = 2
  BY <1>8, FunctionList
<1>11. new \in Seq(LogLine) /\ NoGarbage(new)
  <2>1. \A i \in 1..2 : new[i] \in LogLine /\ new[i] # Garbage
    BY <1>8, GarbageIsNoRecord DEF LogLine
  <2>2. new = [i \in 1..2 |-> new[i]]
    BY <1>8
  <2>3. new \in [1..2 -> LogLine]
    BY <2>1, <2>2
  <2>4. new \in Seq(LogLine)
    BY <2>3, FunctionList
  <2> QED BY <1>10, <2>1, <2>4 DEF NoGarbage
<1>12. Audit!Readable(new) = new
  BY <1>11, LinesAreRecords
<1>13. Audit!Chained(new)
  <2>1. Linked(new, 1)
    BY <1>5, <1>6, <1>7 DEF Linked
  <2>2. Linked(new, 2)
    BY <1>5, <1>6, <1>7 DEF Linked
  <2>3. \A i \in DOMAIN new : i = 1 \/ i = 2
    BY <1>7
  <2>4. \A i \in DOMAIN new : Linked(new, i)
    BY <2>1, <2>2, <2>3
  <2> QED BY <2>4 DEF Audit!Chained, Linked
<1>14. /\ logFaults' \subseteq Audit!Faults /\ logFaults \subseteq logFaults'
       /\ logFaults' \ logFaults \subseteq {"overlap"}
       /\ "overlap" \notin logFaults' => \A v \in Writers : ~Audit!InCall(v)
  BY <1>2, <1>3 DEF Audit!Faults
<1>15. Len(log) = 0
  BY <1>2, <1>3, EmptySeq
<1>16. AuditTypes'
  <2>1. begun' \in 0..MaxRecords /\ now' \in Audit!Times
    BY <1>2, <1>3, LogSizes DEF Audit!Times
  <2>2. written' \in Seq(Audit!Record)
    BY <1>2, <1>3, <1>9, ConcatProperties
  <2>3. log' \in Seq(LogLine) /\ (open' => Len(log') > 0)
    BY <1>2, <1>10, <1>11
  <2>4. open' \in BOOLEAN /\ call' \in [Writers -> Calls \cup {Audit!NoCall}]
    BY <1>2, <1>3, Zenon DEF AuditTypes
  <2> QED BY <1>14, <2>1, <2>2, <2>3, <2>4, Zenon DEF AuditTypes
<1>17. \A v \in Writers : Audit!InCall(v)' <=> Audit!InCall(v)
  BY <1>2 DEF Audit!InCall
<1>18. TakeTurns'
  BY <1>14, <1>17 DEF TakeTurns
<1>19. ChainHolds'
  <2> SUFFICES ASSUME logFaults' \subseteq {"torn"}
               PROVE  /\ Audit!Chained(Audit!Readable(log'))
                      /\ \A v \in Writers : ~Audit!InCall(v)'
    BY DEF ChainHolds
  <2>1. \A v \in Writers : ~Audit!InCall(v)
    BY <1>14
  <2> QED BY <1>2, <1>12, <1>13, <1>17, <2>1
<1>20. Clean'
  BY <1>2, <1>11, <1>14 DEF AuditInv, Clean
<1>21. Complete'
  <2> SUFFICES ASSUME logFaults' \cap {"damage", "cut"} = {} PROVE log' = written'
    BY DEF Complete
  <2>1. logFaults \cap {"damage", "cut"} = {} /\ NoGarbage(log)
    BY <1>14, <1>15 DEF NoGarbage
  <2>2. written = <<>>
    BY <1>2, <2>1 DEF AuditInv, Complete
  <2> QED BY <1>2, <1>9, <2>2, ConcatEmptySeq
<1>22. DamageShows'
  <2> SUFFICES ASSUME "damage" \in logFaults', "overlap" \notin logFaults' PROVE FALSE
    BY DEF DamageShows
  <2>1. Broken(log)
    BY <1>14 DEF AuditInv, DamageShows
  <2> QED BY <1>15, <2>1 DEF Broken
<1> QED BY <1>16, <1>18, <1>19, <1>20, <1>21, <1>22 DEF AuditInv

\* A list without its i-th element.
LEMMA RemovedAt ==
  ASSUME NEW T, NEW list \in Seq(T), NEW i \in 1..Len(list)
  PROVE  /\ Audit!RemoveAt(list, i) \in Seq(T) /\ Len(Audit!RemoveAt(list, i)) = Len(list) - 1
         /\ \A k \in 1..(i - 1) : Audit!RemoveAt(list, i)[k] = list[k]
         /\ \A k \in i..(Len(list) - 1) : Audit!RemoveAt(list, i)[k] = list[k + 1]
<1> DEFINE n == Len(list)
           left == SubSeq(list, 1, i - 1)
           right == SubSeq(list, i + 1, n)
           rest == Audit!RemoveAt(list, i)
<1>1. n \in Nat /\ i \in Int /\ 1 <= i /\ i <= n /\ \A k \in 1..n : list[k] \in T
  BY LogList
<1>2. rest = left \o right
  BY DEF Audit!RemoveAt
<1> HIDE DEF n, rest
<1>3. left \in Seq(T) /\ Len(left) = i - 1 /\ \A k \in 1..(i - 1) : left[k] = list[k]
  <2>1. 1 \in Int /\ i - 1 \in Int /\ \A k \in 1..(i - 1) : list[k] \in T
    BY <1>1
  <2>2. /\ left \in Seq(T) /\ Len(left) = (IF 1 <= i - 1 THEN (i - 1) - 1 + 1 ELSE 0)
        /\ \A k \in 1..((i - 1) - 1 + 1) : left[k] = list[1 + k - 1]
    BY <2>1, SubSeqProperties
  <2> HIDE DEF left
  <2> QED BY <1>1, <2>2
<1>4. right \in Seq(T) /\ Len(right) = n - i /\ \A k \in 1..(n - i) : right[k] = list[i + k]
  <2>1. i + 1 \in Int /\ n \in Int /\ \A k \in (i + 1)..n : list[k] \in T
    BY <1>1
  <2>2. /\ right \in Seq(T) /\ Len(right) = (IF i + 1 <= n THEN n - (i + 1) + 1 ELSE 0)
        /\ \A k \in 1..(n - (i + 1) + 1) : right[k] = list[(i + 1) + k - 1]
    BY <2>1, SubSeqProperties
  <2> HIDE DEF right
  <2> QED BY <1>1, <2>2
<1> HIDE DEF left, right
<1>5. /\ rest \in Seq(T) /\ Len(rest) = (i - 1) + (n - i)
      /\ \A k \in 1..((i - 1) + (n - i)) : rest[k] = IF k <= i - 1 THEN left[k] ELSE right[k - (i - 1)]
  BY <1>2, <1>3, <1>4, ConcatProperties
<1>6. ASSUME NEW k \in 1..(i - 1) PROVE rest[k] = list[k]
  <2>1. k \in 1..((i - 1) + (n - i)) /\ k <= i - 1
    BY <1>1
  <2> QED BY <1>3, <1>5, <2>1
<1>7. ASSUME NEW k \in i..(n - 1) PROVE rest[k] = list[k + 1]
  <2>1. k \in 1..((i - 1) + (n - i)) /\ ~(k <= i - 1) /\ k - (i - 1) \in 1..(n - i)
    BY <1>1
  <2>2. i + (k - (i - 1)) = k + 1
    BY <1>1
  <2> QED BY <1>4, <1>5, <2>1, <2>2
<1>8. (i - 1) + (n - i) = n - 1
  BY <1>1
<1> QED BY <1>5, <1>6, <1>7, <1>8 DEF rest, n

\* A list with an element more at i.
LEMMA InsertedAt ==
  ASSUME NEW T, NEW list \in Seq(T), NEW i \in 1..Len(list), NEW e \in T
  PROVE  /\ Audit!InsertAt(list, i, e) \in Seq(T)
         /\ Len(Audit!InsertAt(list, i, e)) = Len(list) + 1
         /\ \A k \in 1..(i - 1) : Audit!InsertAt(list, i, e)[k] = list[k]
         /\ \A k \in (i + 1)..(Len(list) + 1) : Audit!InsertAt(list, i, e)[k] = list[k - 1]
<1> DEFINE n == Len(list)
           left == SubSeq(list, 1, i - 1)
           right == SubSeq(list, i, n)
           both == left \o <<e>>
           all == Audit!InsertAt(list, i, e)
<1>1. n \in Nat /\ i \in Int /\ 1 <= i /\ i <= n /\ \A k \in 1..n : list[k] \in T
  BY LogList
<1>2. all = both \o right
  BY DEF Audit!InsertAt
<1> HIDE DEF n, all
<1>3. left \in Seq(T) /\ Len(left) = i - 1 /\ \A k \in 1..(i - 1) : left[k] = list[k]
  <2>1. 1 \in Int /\ i - 1 \in Int /\ \A k \in 1..(i - 1) : list[k] \in T
    BY <1>1
  <2>2. /\ left \in Seq(T) /\ Len(left) = (IF 1 <= i - 1 THEN (i - 1) - 1 + 1 ELSE 0)
        /\ \A k \in 1..((i - 1) - 1 + 1) : left[k] = list[1 + k - 1]
    BY <2>1, SubSeqProperties
  <2> HIDE DEF left
  <2> QED BY <1>1, <2>2
<1>4. right \in Seq(T) /\ Len(right) = n - i + 1 /\ \A k \in 1..(n - i + 1) : right[k] = list[i + k - 1]
  <2>1. i \in Int /\ n \in Int /\ \A k \in i..n : list[k] \in T
    BY <1>1
  <2>2. /\ right \in Seq(T) /\ Len(right) = (IF i <= n THEN n - i + 1 ELSE 0)
        /\ \A k \in 1..(n - i + 1) : right[k] = list[i + k - 1]
    BY <2>1, SubSeqProperties
  <2> HIDE DEF right
  <2> QED BY <1>1, <2>2
<1> HIDE DEF left, right
<1> DEFINE one == <<e>>
<1>5. one \in Seq(T) /\ Len(one) = 1
  OBVIOUS
<1>6. both = left \o one
  OBVIOUS
<1> HIDE DEF one, both
<1>7. /\ both \in Seq(T) /\ Len(both) = (i - 1) + 1
      /\ \A k \in 1..((i - 1) + 1) : both[k] = IF k <= i - 1 THEN left[k] ELSE one[k - (i - 1)]
  <2>1. /\ both \in Seq(T) /\ Len(both) = Len(left) + Len(one)
        /\ \A k \in 1..(Len(left) + Len(one)) :
             both[k] = IF k <= Len(left) THEN left[k] ELSE one[k - Len(left)]
    BY <1>3, <1>5, <1>6, ConcatProperties
  <2> QED BY <1>3, <1>5, <2>1
<1>8. Len(both) = i /\ \A k \in 1..(i - 1) : both[k] = list[k]
  <2>1. Len(both) = i
    BY <1>1, <1>7
  <2>2. ASSUME NEW k \in 1..(i - 1) PROVE both[k] = list[k]
    <3>1. k \in 1..((i - 1) + 1) /\ k <= i - 1
      BY <1>1
    <3> QED BY <1>3, <1>7, <3>1
  <2> QED BY <2>1, <2>2
<1>9. /\ all \in Seq(T) /\ Len(all) = i + (n - i + 1)
      /\ \A k \in 1..(i + (n - i + 1)) : all[k] = IF k <= i THEN both[k] ELSE right[k - i]
  <2>1. /\ all \in Seq(T) /\ Len(all) = Len(both) + Len(right)
        /\ \A k \in 1..(Len(both) + Len(right)) :
             all[k] = IF k <= Len(both) THEN both[k] ELSE right[k - Len(both)]
    BY <1>2, <1>4, <1>7, ConcatProperties
  <2> QED BY <1>4, <1>8, <2>1
<1>10. ASSUME NEW k \in 1..(i - 1) PROVE all[k] = list[k]
  <2>1. k \in 1..(i + (n - i + 1)) /\ k <= i
    BY <1>1
  <2> QED BY <1>8, <1>9, <2>1
<1>11. ASSUME NEW k \in (i + 1)..(n + 1) PROVE all[k] = list[k - 1]
  <2>1. k \in 1..(i + (n - i + 1)) /\ ~(k <= i) /\ k - i \in 1..(n - i + 1)
    BY <1>1
  <2>2. i + (k - i) - 1 = k - 1
    BY <1>1
  <2> QED BY <1>4, <1>9, <2>1, <2>2
<1>12. i + (n - i + 1) = n + 1
  BY <1>1
<1> QED BY <1>9, <1>10, <1>11, <1>12 DEF all, n

\* What damage leaves is a file, and shows if the file held a chain.
LEMMA AlteredLine ==
  ASSUME NEW lines \in Seq(LogLine), NEW i \in 1..Len(lines), lines[i] # Garbage
  PROVE  LET left == [lines EXCEPT ![i] = Audit!Altered(@)] IN
         left \in Seq(LogLine) /\ Len(left) = Len(lines) /\ Broken(left)
<1> DEFINE r == lines[i]
           a == Audit!Altered(r)
           left == [lines EXCEPT ![i] = Audit!Altered(@)]
<1>1. r \in Audit!Record
  BY LogList DEF LogLine
<1>2. a \in Audit!Record
  <2>1. MaxTime - r.valid \in 0..MaxTime
    BY <1>1, RecordFields, LogSizes
  <2> QED BY <1>1, <2>1 DEF Audit!Altered, Audit!Record, Audit!Times
<1>3. a.intact = FALSE
  BY <1>1 DEF Audit!Altered, Audit!Record
<1>4. left = [lines EXCEPT ![i] = a]
  OBVIOUS
<1> HIDE DEF a, left
<1>5. a \in LogLine
  BY <1>2 DEF LogLine
<1>6. left \in Seq(LogLine) /\ Len(left) = Len(lines) /\ left[i] = a
  BY <1>4, <1>5, ExceptSeq
<1>7. ~left[i].intact
  BY <1>3, <1>6
<1> QED BY <1>6, <1>7, Zenon DEF Broken, left

LEMMA SpoiledLine ==
  ASSUME NEW lines \in Seq(LogLine), NEW i \in 1..Len(lines)
  PROVE  LET left == [lines EXCEPT ![i] = Garbage] IN
         left \in Seq(LogLine) /\ Len(left) = Len(lines) /\ Broken(left)
<1> DEFINE left == [lines EXCEPT ![i] = Garbage]
<1>1. Garbage \in LogLine
  BY DEF LogLine
<1>2. left \in Seq(LogLine) /\ Len(left) = Len(lines) /\ left[i] = Garbage
  BY <1>1, ExceptSeq
<1> HIDE DEF left
<1> QED BY <1>2, Zenon DEF Broken, left

\* In a chain without garbage each record has its place.
LEMMA PlacesNumbered ==
  ASSUME NEW lines \in Seq(LogLine), Audit!Chained(Audit!Readable(lines)), NoGarbage(lines)
  PROVE  \A k \in 1..Len(lines) : lines[k].seq = k
<1>1. Audit!Readable(lines) = lines /\ DOMAIN lines = 1..Len(lines)
  BY LinesAreRecords, LogList
<1>2. \A k \in DOMAIN lines : Linked(lines, k)
  BY <1>1 DEF Audit!Chained, Linked
<1> QED BY <1>1, <1>2 DEF Linked

LEMMA LostLine ==
  ASSUME NEW lines \in Seq(LogLine), NEW i \in 1..Len(lines), lines[i] # Garbage
  PROVE  LET left == Audit!RemoveAt(lines, i) IN
         /\ left \in Seq(LogLine) /\ Len(left) = Len(lines) - 1
         /\ i # Len(lines) /\ Audit!Chained(Audit!Readable(lines)) => Broken(left)
<1> DEFINE left == Audit!RemoveAt(lines, i)
           n == Len(lines)
<1>1. /\ left \in Seq(LogLine) /\ Len(left) = n - 1
      /\ \A k \in 1..(i - 1) : left[k] = lines[k]
      /\ \A k \in i..(n - 1) : left[k] = lines[k + 1]
  BY RemovedAt
<1>2. n \in Nat /\ 1 <= i /\ i <= n /\ i \in Nat
  BY LogList
<1> HIDE DEF left, n
<1>3. ASSUME i # n, Audit!Chained(Audit!Readable(lines)) PROVE Broken(left)
  <2>1. CASE NoGarbage(lines)
    <3>1. i \in i..(n - 1) /\ i \in 1..(n - 1) /\ i + 1 \in 1..n /\ i + 1 # i
      BY <1>2, <1>3
    <3>2. lines[i + 1].seq = i + 1
      BY <1>3, <2>1, <3>1, PlacesNumbered DEF n
    <3>3. left[i].seq # i /\ i \in 1..Len(left)
      BY <1>1, <3>1, <3>2
    <3> QED BY <3>3, Zenon DEF Broken
  <2>2. CASE ~NoGarbage(lines)
    <3>1. PICK k \in 1..n : lines[k] = Garbage
      BY <2>2 DEF NoGarbage, n
    <3>2. k # i /\ k \in Nat
      BY <1>2, <3>1
    <3>3. CASE k < i
      <4>1. k \in 1..(i - 1) /\ k \in 1..(n - 1)
        BY <1>2, <3>2, <3>3
      <4>2. left[k] = Garbage /\ k \in 1..Len(left)
        BY <1>1, <3>1, <4>1
      <4> QED BY <4>2, Zenon DEF Broken
    <3>4. CASE k > i
      <4>1. k - 1 \in i..(n - 1) /\ k - 1 \in 1..(n - 1) /\ (k - 1) + 1 = k
        BY <1>2, <3>2, <3>4
      <4>2. left[k - 1] = Garbage /\ k - 1 \in 1..Len(left)
        BY <1>1, <3>1, <4>1
      <4> QED BY <4>2, Zenon DEF Broken
    <3> QED BY <1>2, <3>2, <3>3, <3>4
  <2> QED BY <2>1, <2>2
<1> QED BY <1>1, <1>3 DEF left, n

LEMMA DoubledLine ==
  ASSUME NEW lines \in Seq(LogLine), NEW i \in 1..Len(lines), lines[i] # Garbage
  PROVE  LET left == Audit!InsertAt(lines, i, lines[i]) IN
         /\ left \in Seq(LogLine) /\ Len(left) = Len(lines) + 1
         /\ Audit!Chained(Audit!Readable(lines)) => Broken(left)
<1> DEFINE left == Audit!InsertAt(lines, i, lines[i])
           n == Len(lines)
<1>0. lines[i] \in LogLine
  BY LogList
<1>1. /\ left \in Seq(LogLine) /\ Len(left) = n + 1
      /\ \A k \in 1..(i - 1) : left[k] = lines[k]
      /\ \A k \in (i + 1)..(n + 1) : left[k] = lines[k - 1]
  BY <1>0, InsertedAt, ZenonT(60)
<1>2. n \in Nat /\ 1 <= i /\ i <= n /\ i \in Nat
  BY LogList
<1> HIDE DEF left, n
<1>3. ASSUME Audit!Chained(Audit!Readable(lines)) PROVE Broken(left)
  <2>1. CASE NoGarbage(lines)
    <3>1. i + 1 \in (i + 1)..(n + 1) /\ i + 1 \in 1..(n + 1) /\ (i + 1) - 1 = i /\ i + 1 # i /\ i \in 1..n
      BY <1>2
    <3>2. lines[i].seq = i
      BY <1>3, <2>1, <3>1, PlacesNumbered DEF n
    <3>3. left[i + 1].seq # i + 1 /\ i + 1 \in 1..Len(left)
      BY <1>1, <3>1, <3>2
    <3> QED BY <3>3, Zenon DEF Broken
  <2>2. CASE ~NoGarbage(lines)
    <3>1. PICK k \in 1..n : lines[k] = Garbage
      BY <2>2 DEF NoGarbage, n
    <3>2. k # i /\ k \in Nat
      BY <1>2, <3>1
    <3>3. CASE k < i
      <4>1. k \in 1..(i - 1) /\ k \in 1..(n + 1)
        BY <1>2, <3>2, <3>3
      <4>2. left[k] = Garbage /\ k \in 1..Len(left)
        BY <1>1, <3>1, <4>1
      <4> QED BY <4>2, Zenon DEF Broken
    <3>4. CASE k > i
      <4>1. k + 1 \in (i + 1)..(n + 1) /\ k + 1 \in 1..(n + 1) /\ (k + 1) - 1 = k
        BY <1>2, <3>2, <3>4
      <4>2. left[k + 1] = Garbage /\ k + 1 \in 1..Len(left)
        BY <1>1, <3>1, <4>1
      <4> QED BY <4>2, Zenon DEF Broken
    <3> QED BY <1>2, <3>2, <3>3, <3>4
  <2> QED BY <2>1, <2>2
<1> QED BY <1>1, <1>3 DEF left, n

LEMMA SwappedLines ==
  ASSUME NEW lines \in Seq(LogLine), NEW i \in 1..Len(lines), i < Len(lines)
  PROVE  LET left == [lines EXCEPT ![i] = lines[i+1], ![i+1] = lines[i]] IN
         /\ left \in Seq(LogLine) /\ Len(left) = Len(lines)
         /\ Audit!Chained(Audit!Readable(lines)) => Broken(left)
<1> DEFINE n == Len(lines)
           one == [lines EXCEPT ![i] = lines[i+1]]
           left == [lines EXCEPT ![i] = lines[i+1], ![i+1] = lines[i]]
<1>1. n \in Nat /\ i \in 1..n /\ i + 1 \in 1..n /\ i # i + 1
  BY LogList
<1>2. lines[i] \in LogLine /\ lines[i+1] \in LogLine
  BY <1>1, LogList
<1>3. left = [one EXCEPT ![i+1] = lines[i]]
  OBVIOUS
<1>4. /\ one \in Seq(LogLine) /\ Len(one) = n
      /\ \A k \in 1..n : one[k] = IF k = i THEN lines[i+1] ELSE lines[k]
  BY <1>2, ExceptSeq
<1> HIDE DEF left, one, n
<1>5. /\ left \in Seq(LogLine) /\ Len(left) = n
      /\ \A k \in 1..n : left[k] = IF k = i + 1 THEN lines[i] ELSE one[k]
  BY <1>1, <1>2, <1>3, <1>4, ExceptSeq
<1>6. left[i] = lines[i+1] /\ left[i+1] = lines[i]
  BY <1>1, <1>4, <1>5
<1>7. \A k \in 1..n : k # i /\ k # i + 1 => left[k] = lines[k]
  BY <1>4, <1>5
<1>8. ASSUME Audit!Chained(Audit!Readable(lines)) PROVE Broken(left)
  <2>1. CASE NoGarbage(lines)
    <3>1. lines[i+1].seq = i + 1
      BY <1>1, <1>8, <2>1, PlacesNumbered DEF n
    <3>2. left[i].seq # i /\ i \in 1..Len(left)
      BY <1>1, <1>5, <1>6, <3>1
    <3> QED BY <3>2, Zenon DEF Broken
  <2>2. CASE ~NoGarbage(lines)
    <3>1. PICK k \in 1..n : lines[k] = Garbage
      BY <2>2 DEF NoGarbage, n
    <3>2. \E m \in 1..n : left[m] = Garbage
      BY <1>1, <1>6, <1>7, <3>1
    <3> QED BY <1>5, <3>2, Zenon DEF Broken
  <2> QED BY <2>1, <2>2
<1> QED BY <1>5, <1>8 DEF left, n

LEMMA DamageStep ==
  ASSUME AuditInv, NEW i \in DOMAIN log, NEW what \in Audit!Kinds, Audit!Damage(i, what)
  PROVE  AuditInv'
<1> DEFINE cut == what = "lose" /\ i = Len(log)
<1>1. /\ logFaults \cap {"damage", "cut"} = {} /\ log[i] # Garbage
      /\ \/ what = "alter"  /\ log' = [log EXCEPT ![i] = Audit!Altered(@)]
         \/ what = "spoil"  /\ log' = [log EXCEPT ![i] = Garbage]
         \/ what = "lose"   /\ log' = Audit!RemoveAt(log, i)
         \/ what = "double" /\ log' = Audit!InsertAt(log, i, log[i])
         \/ /\ what = "swap" /\ i < Len(log)
            /\ log' = [log EXCEPT ![i] = log[i+1], ![i+1] = log[i]]
      /\ open' = (open /\ ~cut)
      /\ logFaults' = logFaults \cup {IF cut THEN "cut" ELSE "damage"}
      /\ call' = call /\ now' = now /\ begun' = begun /\ written' = written
  BY DEF Audit!Damage
<1>2. log \in Seq(LogLine) /\ AuditTypes
  BY DEF AuditInv, AuditTypes
<1>3. i \in 1..Len(log) /\ Len(log) \in Nat
  BY <1>2, LogList
<1>4. /\ log' \in Seq(LogLine) /\ (~cut => Len(log') > 0)
      /\ ~cut /\ Audit!Chained(Audit!Readable(log)) => Broken(log')
  <2>1. CASE what = "alter" /\ log' = [log EXCEPT ![i] = Audit!Altered(@)]
    <3> DEFINE left == [log EXCEPT ![i] = Audit!Altered(@)]
    <3>1. left \in Seq(LogLine) /\ Len(left) = Len(log)
          /\ (Audit!Chained(Audit!Readable(log)) => Broken(left))
      BY <1>1, <1>2, <1>3, <2>1, AlteredLine
    <3>2. log' = left
      BY <2>1
    <3> HIDE DEF left
    <3> QED BY <1>3, <3>1, <3>2
  <2>2. CASE what = "spoil" /\ log' = [log EXCEPT ![i] = Garbage]
    <3> DEFINE left == [log EXCEPT ![i] = Garbage]
    <3>1. left \in Seq(LogLine) /\ Len(left) = Len(log)
          /\ (Audit!Chained(Audit!Readable(log)) => Broken(left))
      BY <1>1, <1>2, <1>3, <2>2, SpoiledLine
    <3>2. log' = left
      BY <2>2
    <3> HIDE DEF left
    <3> QED BY <1>3, <3>1, <3>2
  <2>3. CASE what = "lose" /\ log' = Audit!RemoveAt(log, i)
    BY <1>1, <1>2, <1>3, <2>3, LostLine
  <2>4. CASE what = "double" /\ log' = Audit!InsertAt(log, i, log[i])
    BY <1>1, <1>2, <1>3, <2>4, DoubledLine
  <2>5. CASE /\ what = "swap" /\ i < Len(log)
             /\ log' = [log EXCEPT ![i] = log[i+1], ![i+1] = log[i]]
    <3> DEFINE left == [log EXCEPT ![i] = log[i+1], ![i+1] = log[i]]
    <3>1. left \in Seq(LogLine) /\ Len(left) = Len(log)
          /\ (Audit!Chained(Audit!Readable(log)) => Broken(left))
      BY <1>1, <1>2, <1>3, <2>5, SwappedLines
    <3>2. log' = left
      BY <2>5
    <3> HIDE DEF left
    <3> QED BY <1>3, <3>1, <3>2
  <2> QED BY <1>1, <2>1, <2>2, <2>3, <2>4, <2>5
<1>5. cut \in BOOLEAN
  OBVIOUS
<1> HIDE DEF cut
<1>6. open \in BOOLEAN /\ logFaults \subseteq Audit!Faults
  BY <1>2, Zenon DEF AuditTypes
<1>7. /\ logFaults' \subseteq Audit!Faults /\ logFaults \subseteq logFaults'
      /\ logFaults' \cap {"damage", "cut"} # {}
      /\ logFaults' \ logFaults \subseteq {"damage", "cut"}
      /\ "damage" \in logFaults' => ~cut
  BY <1>1, <1>6 DEF Audit!Faults
<1>8. AuditTypes'
  <2>1. open' \in BOOLEAN /\ (open' => ~cut)
    BY <1>1, <1>5, <1>6
  <2>2. open' => Len(log') > 0
    BY <1>4, <2>1
  <2> QED BY <1>1, <1>2, <1>4, <1>7, <2>1, <2>2, Zenon DEF AuditTypes
<1>9. TakeTurns'
  BY <1>1, <1>7 DEF AuditInv, TakeTurns, Audit!InCall
<1>10. ChainHolds' /\ Clean' /\ Complete'
  BY <1>7 DEF ChainHolds, Clean, Complete
<1>11. DamageShows'
  <2> SUFFICES ASSUME "damage" \in logFaults', "overlap" \notin logFaults' PROVE Broken(log')
    BY DEF DamageShows
  <2>1. logFaults \subseteq {"torn"}
    BY <1>1, <1>6, <1>7 DEF Audit!Faults
  <2>2. Audit!Chained(Audit!Readable(log))
    BY <2>1 DEF AuditInv, ChainHolds
  <2> QED BY <1>4, <1>7, <2>2
<1> QED BY <1>8, <1>9, <1>10, <1>11 DEF AuditInv

LEMMA AuditInitially == Audit!Init => AuditInv
<1> SUFFICES ASSUME Audit!Init PROVE AuditInv
  OBVIOUS
<1>1. /\ log = <<>> /\ open = FALSE /\ call = [w \in Writers |-> Audit!NoCall]
      /\ now = 0 /\ begun = 0 /\ written = <<>> /\ logFaults = {}
  BY DEF Audit!Init
<1>2. Len(log) = 0 /\ log \in Seq(LogLine) /\ written \in Seq(Audit!Record)
  BY <1>1, EmptySeq
<1>3. AuditTypes
  <2>1. open \in BOOLEAN /\ ~open
    BY <1>1, Zenon
  <2>2. now \in Audit!Times /\ begun \in 0..MaxRecords
    BY <1>1, LogSizes DEF Audit!Times
  <2>3. call \in [Writers -> Calls \cup {Audit!NoCall}] /\ logFaults \subseteq Audit!Faults
    BY <1>1
  <2> QED BY <1>2, <2>1, <2>2, <2>3, Zenon DEF AuditTypes
<1>4. \A w \in Writers : ~Audit!InCall(w)
  BY <1>1, CallFacts DEF Audit!InCall
<1>5. NoGarbage(log)
  BY <1>2 DEF NoGarbage
<1>6. Audit!Chained(Audit!Readable(log))
  <2>1. DOMAIN log = {}
    <3>1. DOMAIN log = 1..Len(log) /\ 1..0 = {}
      BY <1>2, LogList
    <3> QED BY <1>2, <3>1
  <2>2. Audit!Readable(log) = log
    BY <1>2, <1>5, LinesAreRecords
  <2> QED BY <2>1, <2>2 DEF Audit!Chained
<1> QED BY <1>1, <1>3, <1>4, <1>5, <1>6
  DEF AuditInv, TakeTurns, ChainHolds, Clean, Complete, DamageShows

LEMMA AuditStep ==
  ASSUME AuditInv, Audit!Next
  PROVE  AuditInv'
<1>1. ASSUME NEW w \in Writers, NEW j \in Jobs, NEW t \in 0..now,
             NEW f \in {r.id : r \in Audit!Range(Audit!Readable(log))} \cup {0},
             Audit!Begin(w, j, t, f)
      PROVE  AuditInv'
  BY <1>1, CallBeginsStep
<1>2. ASSUME NEW w \in Writers, Audit!Number(w) PROVE AuditInv'
  BY <1>2, NumberStep
<1>3. ASSUME NEW w \in Writers, Audit!Write(w) PROVE AuditInv'
  BY <1>3, WriteStep
<1>4. ASSUME NEW w \in Writers, Audit!WriteFails(w) PROVE AuditInv'
  BY <1>4, WriteFailsStep
<1>5. ASSUME NEW w \in Writers, NEW whole \in BOOLEAN, Audit!DiesWriting(w, whole) PROVE AuditInv'
  BY <1>5, DiesWritingStep
<1>6. ASSUME NEW rows \in [1..2 -> Jobs \X (0..now)], Audit!Migrate(rows) PROVE AuditInv'
  BY <1>6, MigrateStep
<1>7. ASSUME NEW i \in DOMAIN log, NEW what \in Audit!Kinds, Audit!Damage(i, what) PROVE AuditInv'
  BY <1>7, DamageStep
<1>8. CASE Audit!Tick
  BY <1>8, LogTickStep
<1> QED BY <1>1, <1>2, <1>3, <1>4, <1>5, <1>6, <1>7, <1>8, Zenon DEF Audit!Next

LEMMA StoresKeepAudit ==
  ASSUME AuditInv, [StoresNext]_storeVars
  PROVE  AuditInv'
<1>1. CASE Records
  BY <1>1, AuditStep DEF Records
<1>2. CASE UNCHANGED logVars
  BY <1>2, AuditUnchanged
<1>3. Records \/ UNCHANGED logVars
  BY DEF StoresNext, Distils, Remembers, storeVars
<1> QED BY <1>1, <1>2, <1>3

THEOREM AuditInvariant == StoresSpec => []AuditInv
<1>1. StoresInit => AuditInv
  BY AuditInitially DEF StoresInit
<1>2. AuditInv /\ [StoresNext]_storeVars => AuditInv'
  BY StoresKeepAudit
<1> QED BY <1>1, <1>2, PTL DEF StoresSpec

\* What one writer at a time appends verifies (verify_chain()).
LEMMA ChainIsVerified ==
  ASSUME AuditInv
  PROVE  Audit!ChainVerifies
<1>1. /\ log \in Seq(LogLine) /\ written \in Seq(Audit!Record) /\ AuditTypes
      /\ call \in [Writers -> Calls \cup {Audit!NoCall}]
  BY DEF AuditInv, AuditTypes
<1>2. Audit!TypeOK
  <2>1. \A i \in DOMAIN log : log[i] \in Audit!Record \cup {Garbage}
    BY <1>1, LogList DEF LogLine
  <2>2. \A i \in DOMAIN written : written[i] \in Audit!Record
    BY <1>1, LogList
  <2>3. \A w \in Writers : Audit!InCall(w) => call[w].record \in Audit!Record
    BY <1>1, CallFacts DEF Audit!InCall
  <2> QED BY <1>1, <2>1, <2>2, <2>3, Zenon DEF AuditTypes, Audit!TypeOK
<1>3. ASSUME logFaults = {} PROVE Audit!VerifyStrict
  <2>1. NoGarbage(log) /\ Audit!Chained(Audit!Readable(log))
    BY <1>3 DEF AuditInv, Clean, ChainHolds
  <2>2. Audit!Readable(log) = log /\ DOMAIN log = 1..Len(log)
    BY <1>1, <2>1, LinesAreRecords, LogList
  <2> QED BY <2>1, <2>2 DEF Audit!VerifyStrict, NoGarbage
<1>4. ASSUME logFaults \subseteq {"torn"} PROVE Audit!VerifyLenient
  BY <1>4 DEF AuditInv, ChainHolds, Audit!VerifyLenient
<1> QED BY <1>2, <1>3, <1>4 DEF Audit!ChainVerifies

\* A chain that verifies strictly is all that was written.
LEMMA StrictIsComplete ==
  ASSUME AuditInv
  PROVE  Audit!StrictMeansComplete
<1>1. log \in Seq(LogLine) /\ DOMAIN log = 1..Len(log)
  BY LogList DEF AuditInv, AuditTypes
<1> SUFFICES ASSUME Audit!VerifyStrict, "cut" \notin logFaults, ~({"overlap", "damage"} \subseteq logFaults)
             PROVE  log = written
  BY DEF Audit!StrictMeansComplete
<1>2. NoGarbage(log) /\ \A i \in 1..Len(log) : Linked(log, i)
  BY <1>1 DEF Audit!VerifyStrict, Audit!Chained, Linked, NoGarbage
<1>3. ~Broken(log)
  <2> SUFFICES ASSUME NEW i \in 1..Len(log), log[i] = Garbage \/ log[i].seq # i \/ ~log[i].intact
               PROVE  FALSE
    BY Zenon DEF Broken
  <2>1. log[i] # Garbage /\ Linked(log, i)
    BY <1>2 DEF NoGarbage
  <2> QED BY <2>1, Zenon DEF Linked
<1>4. logFaults \cap {"damage", "cut"} = {}
  BY <1>3 DEF AuditInv, DamageShows
<1> QED BY <1>2, <1>4 DEF AuditInv, Complete

-------------------------------------------------------------------------------
(* The views of the log.                                                    *)

\* The last, or the first, of those in S with the latest key.
LastOf(S, key, i) == \A k \in S : key[k] < key[i] \/ (key[k] = key[i] /\ k <= i)
FirstOf(S, key, i) == \A k \in S : key[k] < key[i] \/ (key[k] = key[i] /\ i <= k)

\* A list ordered by keys ends with one that comes after all others.
LEMMA EndOfList ==
  ASSUME NEW S, IsFiniteSet(S), S # {}, NEW before, Orders(before, S)
  PROVE  LET list == Listed(S, before) IN
         /\ Len(list) = Cardinality(S) /\ list # <<>> /\ list[Len(list)] \in S
         /\ \A k \in S : k = list[Len(list)] \/ <<k, list[Len(list)]>> \in before
<1> DEFINE list == Listed(S, before)
           c == Cardinality(S)
<1>1. /\ c \in Nat /\ list \in [1..c -> S]
      /\ \A m, n \in 1..c : <<list[m], list[n]>> \in before <=> m < n
      /\ \A k \in S : \E n \in 1..c : list[n] = k
  BY ListedFacts DEF Covers
<1> HIDE DEF list
<1>2. c # 0
  BY FS_EmptySet
<1> HIDE DEF c
<1>3. list \in Seq(S) /\ Len(list) = c
  BY <1>1, FunctionList
<1>4. c \in 1..c /\ list # <<>>
  BY <1>1, <1>2, <1>3, EmptySeq
<1>5. ASSUME NEW k \in S PROVE k = list[c] \/ <<k, list[c]>> \in before
  <2>1. PICK n \in 1..c : list[n] = k
    BY <1>1
  <2>2. n = c \/ n < c
    BY <1>1, <2>1
  <2> QED BY <1>1, <1>4, <2>1, <2>2
<1> QED BY <1>1, <1>3, <1>4, <1>5 DEF list, c

ByKey(S, key) == {p \in S \X S : key[p[1]] < key[p[2]] \/ (key[p[1]] = key[p[2]] /\ p[1] < p[2])}

LEMMA LatestExist ==
  ASSUME NEW S \in SUBSET Nat, IsFiniteSet(S), S # {}, NEW key \in [S -> Nat]
  PROVE  /\ LET list == Listed(S, ByKey(S, key)) IN
              /\ Len(list) = Cardinality(S) /\ list # <<>>
              /\ list[Len(list)] \in S /\ LastOf(S, key, list[Len(list)])
         /\ \E i \in S : FirstOf(S, key, i)
<1> DEFINE Before(i, k) == key[i] < key[k] \/ (key[i] = key[k] /\ i < k)
           Under(i, k) == key[i] < key[k] \/ (key[i] = key[k] /\ k < i)
           under == {p \in S \X S : Under(p[1], p[2])}
           up == ByKey(S, key)
<1>1. \A i, k \in S : <<i, k>> \in up <=> Before(i, k)
  BY DEF ByKey
<1>2. \A i, k \in S : <<i, k>> \in under <=> Under(i, k)
  OBVIOUS
<1> HIDE DEF up, under
<1>3. \A i \in S : i \in Nat /\ key[i] \in Nat
  OBVIOUS
<1>4. Orders(up, S)
  <2>1. \A i \in S : ~Before(i, i)
    BY <1>3
  <2>2. \A i, j, k \in S : Before(i, j) /\ Before(j, k) => Before(i, k)
    BY <1>3
  <2>3. \A i, j \in S : i # j => Before(i, j) \/ Before(j, i)
    BY <1>3
  <2> HIDE DEF Before
  <2> QED BY <1>1, <2>1, <2>2, <2>3 DEF Orders
<1>5. Orders(under, S)
  <2>1. \A i \in S : ~Under(i, i)
    BY <1>3
  <2>2. \A i, j, k \in S : Under(i, j) /\ Under(j, k) => Under(i, k)
    BY <1>3
  <2>3. \A i, j \in S : i # j => Under(i, j) \/ Under(j, i)
    BY <1>3
  <2> HIDE DEF Under
  <2> QED BY <1>2, <2>1, <2>2, <2>3 DEF Orders
<1> DEFINE list == Listed(S, up)
           other == Listed(S, under)
<1>6. /\ Len(list) = Cardinality(S) /\ list # <<>> /\ list[Len(list)] \in S
      /\ \A k \in S : k = list[Len(list)] \/ <<k, list[Len(list)]>> \in up
  BY <1>4, EndOfList
<1>7. /\ other[Len(other)] \in S
      /\ \A k \in S : k = other[Len(other)] \/ <<k, other[Len(other)]>> \in under
  BY <1>5, EndOfList
<1> HIDE DEF list, other
<1> DEFINE i == list[Len(list)]
           j == other[Len(other)]
<1>8. i \in S /\ j \in S
  BY <1>6, <1>7
<1>9. \A k \in S : k = i \/ Before(k, i)
  BY <1>1, <1>6, <1>8
<1>10. \A k \in S : k = j \/ Under(k, j)
  BY <1>2, <1>7, <1>8
<1> HIDE DEF i, j
<1>11. LastOf(S, key, i)
  BY <1>3, <1>8, <1>9 DEF LastOf
<1>12. FirstOf(S, key, j)
  BY <1>3, <1>8, <1>10 DEF FirstOf
<1> QED BY <1>6, <1>8, <1>11, <1>12 DEF list, up, i

\* The readers agree on the present.
LEMMA ViewsDoAgree ==
  ASSUME AuditInv
  PROVE  Audit!ViewsAgree
<1> SUFFICES ASSUME NEW j \in Jobs, NEW a \in Audit!Axes
             PROVE  LET last == Audit!CurrentState(j, a)
                        past == Audit!StateAsOf(j, MaxTime, a)
                    IN  /\ last = (IF Audit!History(j, a) = <<>> THEN 0 ELSE Audit!Last(Audit!History(j, a)))
                        /\ (past = 0) = (last = 0)
                        /\ last # 0 => Audit!KeyAt(past, a) = Audit!KeyAt(last, a)
  BY DEF Audit!ViewsAgree
<1> DEFINE rs == Audit!Readable(log)
           S == Audit!Rows(j)
           key == [i \in S |-> Audit!KeyAt(i, a)]
           list == Audit!History(j, a)
           last == Audit!CurrentState(j, a)
           past == Audit!StateAsOf(j, MaxTime, a)
<1>1. rs \in Seq(Audit!Record) /\ Len(rs) \in Nat /\ DOMAIN rs = 1..Len(rs)
      /\ \A i \in 1..Len(rs) : rs[i] \in Audit!Record
  <2>1. rs \in Seq(Audit!Record)
    BY ReadableFacts DEF AuditInv, AuditTypes
  <2> HIDE DEF rs
  <2> QED BY <2>1, LogList
<1>2. S \in SUBSET (1..Len(rs))
  BY <1>1 DEF Audit!Rows
<1>3. IsFiniteSet(S) /\ S \in SUBSET Nat /\ 0 \notin S
  BY <1>1, <1>2, UpTo, FS_Subset
<1>4. ASSUME NEW i \in S PROVE Audit!KeyAt(i, a) \in 0..MaxTime
  <2>1. rs[i] \in Audit!Record
    BY <1>1, <1>2
  <2>2. rs[i].valid \in 0..MaxTime /\ rs[i].trans \in 0..MaxTime
    BY <2>1, RecordFields
  <2> QED BY <2>2 DEF Audit!KeyAt, Audit!Key
<1>5. key \in [S -> Nat] /\ \A i \in S : key[i] = Audit!KeyAt(i, a) /\ key[i] <= MaxTime
  BY <1>4, LogSizes
<1>6. list = Listed(S, ByKey(S, key))
  <2> DEFINE pairs == {p \in Audit!Pairs(S) :
               \/ Audit!KeyAt(p[1], a) < Audit!KeyAt(p[2], a)
               \/ Audit!KeyAt(p[1], a) = Audit!KeyAt(p[2], a) /\ p[1] < p[2]}
  <2>1. list = Listed(S, pairs)
    BY DEF Audit!History, Audit!Listed, Listed, Audit!Cardinality, Cardinality
  <2>2. pairs = ByKey(S, key)
    <3> HIDE DEF S
    <3> QED BY DEF Audit!Pairs, ByKey
  <2> QED BY <2>1, <2>2
<1>7. {i \in S : Audit!KeyAt(i, a) <= MaxTime} = S
  BY <1>5
<1>8. /\ last = (IF S = {} THEN 0
                 ELSE CHOOSE i \in S : \A k \in S :
                   Audit!KeyAt(k, a) < Audit!KeyAt(i, a) \/ (Audit!KeyAt(k, a) = Audit!KeyAt(i, a) /\ k <= i))
      /\ past = (IF S = {} THEN 0
                 ELSE CHOOSE i \in S : \A k \in S :
                   Audit!KeyAt(k, a) < Audit!KeyAt(i, a) \/ (Audit!KeyAt(k, a) = Audit!KeyAt(i, a) /\ i <= k))
  <2> DEFINE rows == {i \in Audit!Rows(j) : Audit!KeyAt(i, a) <= MaxTime}
  <2>1. past = (IF rows = {} THEN 0
                ELSE CHOOSE i \in rows : \A k \in rows :
                  Audit!KeyAt(k, a) < Audit!KeyAt(i, a) \/ (Audit!KeyAt(k, a) = Audit!KeyAt(i, a) /\ i <= k))
    BY DEF Audit!StateAsOf
  <2>2. rows = S
    BY <1>7
  <2>3. last = (IF S = {} THEN 0
                 ELSE CHOOSE i \in S : \A k \in S :
                   Audit!KeyAt(k, a) < Audit!KeyAt(i, a) \/ (Audit!KeyAt(k, a) = Audit!KeyAt(i, a) /\ k <= i))
    BY DEF Audit!CurrentState
  <2> HIDE DEF rows, S, past, last
  <2> QED BY <2>1, <2>2, <2>3
<1> HIDE DEF rs, S, key, list, last, past
<1>9. CASE S = {}
  <2>1. last = 0 /\ past = 0
    BY <1>8, <1>9
  <2>2. list = <<>>
    <3>1. Cardinality(S) = 0
      BY <1>9, FS_EmptySet
    <3>2. 1..0 = {}
      OBVIOUS
    <3> QED BY <1>6, <3>1, <3>2 DEF Listed
  <2> QED BY <2>1, <2>2 DEF last, past, list
<1>10. CASE S # {}
  <2>1. /\ list # <<>> /\ list[Len(list)] \in S /\ LastOf(S, key, list[Len(list)])
        /\ \E i \in S : FirstOf(S, key, i)
    BY <1>3, <1>5, <1>6, <1>10, LatestExist
  <2> DEFINE l == list[Len(list)]
  <2>2. /\ \E i \in S : \A k \in S :
             Audit!KeyAt(k, a) < Audit!KeyAt(i, a) \/ (Audit!KeyAt(k, a) = Audit!KeyAt(i, a) /\ k <= i)
        /\ \E i \in S : \A k \in S :
             Audit!KeyAt(k, a) < Audit!KeyAt(i, a) \/ (Audit!KeyAt(k, a) = Audit!KeyAt(i, a) /\ i <= k)
    BY <1>5, <2>1 DEF LastOf, FirstOf
  <2>3. last \in S /\ LastOf(S, key, last)
    BY <1>5, <1>8, <1>10, <2>2 DEF LastOf
  <2>4. past \in S /\ FirstOf(S, key, past)
    BY <1>5, <1>8, <1>10, <2>2 DEF FirstOf
  <2> HIDE DEF l
  <2>5. last = l
    <3>1. l \in S /\ LastOf(S, key, l)
      BY <2>1 DEF l
    <3>2. l \in Nat /\ last \in Nat /\ key[l] \in Nat /\ key[last] \in Nat
      BY <1>3, <1>5, <2>3, <3>1
    <3>3. key[l] < key[last] \/ (key[l] = key[last] /\ l <= last)
      BY <2>3, <3>1 DEF LastOf
    <3>4. key[last] < key[l] \/ (key[last] = key[l] /\ last <= l)
      BY <2>3, <3>1 DEF LastOf
    <3> QED BY <3>2, <3>3, <3>4
  <2>6. key[past] = key[last]
    <3>1. key[past] \in Nat /\ key[last] \in Nat
      BY <1>5, <2>3, <2>4
    <3>2. key[past] < key[last] \/ key[past] = key[last]
      BY <2>3, <2>4 DEF LastOf
    <3>3. key[last] < key[past] \/ key[past] = key[last]
      BY <2>3, <2>4 DEF FirstOf
    <3> QED BY <3>1, <3>2, <3>3
  <2>7. last # 0 /\ past # 0
    BY <1>3, <2>3, <2>4
  <2>8. Audit!Last(list) = l
    BY DEF Audit!Last, l
  <2>9. Audit!KeyAt(past, a) = Audit!KeyAt(last, a)
    BY <1>5, <2>3, <2>4, <2>6
  <2> QED BY <2>1, <2>5, <2>7, <2>8, <2>9 DEF last, past, list
<1> QED BY <1>9, <1>10

\* The log is sound: its chain verifies, only a complete one does, its views agree
\* (verify_chain(), current_state(), history(), state_as_of()).
THEOREM LogIsSound == StoresSpec => []LogSound
<1>1. AuditInv => LogSound
  BY ChainIsVerified, StrictIsComplete, ViewsDoAgree DEF LogSound
<1> QED BY <1>1, AuditInvariant, PTL

-------------------------------------------------------------------------------
(* The past.                                                                *)

CorrectedIn(rs) == {r.fixes : r \in Audit!Range(rs)} \ {0}

\* The places of the records a job had at a time.
RowsThen(rs, job, time) ==
  {i \in DOMAIN rs : /\ rs[i].job = job /\ rs[i].id \notin CorrectedIn(rs)
                     /\ rs[i].trans <= time}

\* i is the first of the latest records.
FirstThen(rs, S, i) ==
  \A k \in S : rs[k].trans < rs[i].trans \/ (rs[k].trans = rs[i].trans /\ i <= k)

PlaceThen(rs, job, time) ==
  CHOOSE i \in RowsThen(rs, job, time) : FirstThen(rs, RowsThen(rs, job, time), i)

\* What these records say was known of a job at a time.
KnownIn(rs, job, time) ==
  IF RowsThen(rs, job, time) = {} THEN 0 ELSE rs[PlaceThen(rs, job, time)].id

LEMMA RowsAreNumbers ==
  ASSUME NEW rs \in Seq(Audit!Record), NEW j \in Jobs, NEW t \in Audit!Times
  PROVE  /\ RowsThen(rs, j, t) \in SUBSET (1..Len(rs)) /\ RowsThen(rs, j, t) \in SUBSET Nat
         /\ IsFiniteSet(RowsThen(rs, j, t))
         /\ \A i \in RowsThen(rs, j, t) : rs[i] \in Audit!Record /\ rs[i].trans \in Nat
<1>1. Len(rs) \in Nat /\ DOMAIN rs = 1..Len(rs) /\ \A i \in 1..Len(rs) : rs[i] \in Audit!Record
  BY LogList
<1>2. RowsThen(rs, j, t) \in SUBSET (1..Len(rs))
  BY <1>1 DEF RowsThen
<1>3. IsFiniteSet(RowsThen(rs, j, t)) /\ RowsThen(rs, j, t) \in SUBSET Nat
  BY <1>1, <1>2, UpTo, FS_Subset
<1>4. ASSUME NEW i \in RowsThen(rs, j, t) PROVE rs[i] \in Audit!Record /\ rs[i].trans \in Nat
  <2>1. rs[i] \in Audit!Record
    BY <1>1, <1>2
  <2> QED BY <2>1, RecordFields, LogSizes
<1> QED BY <1>2, <1>3, <1>4

\* The place exists, and there is one.
LEMMA PlaceFacts ==
  ASSUME NEW rs \in Seq(Audit!Record), NEW j \in Jobs, NEW t \in Audit!Times,
         RowsThen(rs, j, t) # {}
  PROVE  LET S == RowsThen(rs, j, t) IN
         /\ PlaceThen(rs, j, t) \in S /\ FirstThen(rs, S, PlaceThen(rs, j, t))
         /\ \A i \in S : FirstThen(rs, S, i) => i = PlaceThen(rs, j, t)
<1> DEFINE S == RowsThen(rs, j, t)
           key == [i \in S |-> rs[i].trans]
           p == PlaceThen(rs, j, t)
<1>1. S \in SUBSET Nat /\ IsFiniteSet(S) /\ \A i \in S : rs[i].trans \in Nat
  BY RowsAreNumbers
<1>2. p = CHOOSE i \in S : FirstThen(rs, S, i)
  BY DEF PlaceThen
<1> HIDE DEF S, p
<1>3. key \in [S -> Nat] /\ \A i \in S : key[i] = rs[i].trans
  BY <1>1
<1> HIDE DEF key
<1>4. PICK i \in S : FirstOf(S, key, i)
  BY <1>1, <1>3, LatestExist DEF S
<1>5. FirstThen(rs, S, i)
  BY <1>3, <1>4 DEF FirstOf, FirstThen
<1>6. p \in S /\ FirstThen(rs, S, p)
  BY <1>2, <1>5
<1>7. ASSUME NEW k \in S, FirstThen(rs, S, k) PROVE k = p
  <2>1. k \in Nat /\ p \in Nat /\ rs[k].trans \in Nat /\ rs[p].trans \in Nat
    BY <1>1, <1>6
  <2>2. rs[k].trans < rs[p].trans \/ (rs[k].trans = rs[p].trans /\ p <= k)
    BY <1>6 DEF FirstThen
  <2>3. rs[p].trans < rs[k].trans \/ (rs[p].trans = rs[k].trans /\ k <= p)
    BY <1>6, <1>7 DEF FirstThen
  <2> QED BY <2>1, <2>2, <2>3
<1> QED BY <1>6, <1>7 DEF S, p

\* What the log says is what its records say.
KnownRead ==
  log \in Seq(LogLine) =>
    /\ \A j \in Jobs, t \in Audit!Times : Audit!Known(j, t) = KnownIn(Audit!Readable(log), j, t)
    /\ Audit!Superseded = CorrectedIn(Audit!Readable(log))

LEMMA KnownIsRead == KnownRead
<1> SUFFICES ASSUME log \in Seq(LogLine) PROVE KnownRead
  BY DEF KnownRead
<1> DEFINE rs == Audit!Readable(log)
<1>1. rs \in Seq(Audit!Record)
  BY ReadableFacts
<1>2. Audit!Superseded = CorrectedIn(rs)
  BY DEF Audit!Superseded, CorrectedIn
<1>3. ASSUME NEW j \in Jobs, NEW t \in Audit!Times
      PROVE  Audit!Known(j, t) = KnownIn(rs, j, t)
  <2> DEFINE S == RowsThen(rs, j, t)
             rows == {i \in Audit!Rows(j) : Audit!KeyAt(i, "transaction") <= t}
             i == Audit!StateAsOf(j, t, "transaction")
             p == PlaceThen(rs, j, t)
  <2>1. i = (IF rows = {} THEN 0
             ELSE CHOOSE m \in rows : \A k \in rows :
               Audit!KeyAt(k, "transaction") < Audit!KeyAt(m, "transaction")
                 \/ (Audit!KeyAt(k, "transaction") = Audit!KeyAt(m, "transaction") /\ m <= k))
    BY DEF Audit!StateAsOf
  <2>2. \A k : Audit!KeyAt(k, "transaction") = rs[k].trans
    BY DEF Audit!KeyAt, Audit!Key
  <2>3. Audit!Rows(j) = {k \in DOMAIN rs : rs[k].job = j /\ rs[k].id \notin CorrectedIn(rs)}
    BY <1>2 DEF Audit!Rows
  <2>4. rows = S
    <3> HIDE DEF rs
    <3> QED BY <2>2, <2>3 DEF RowsThen
  <2>5. Audit!Known(j, t) = (IF i = 0 THEN 0 ELSE rs[i].id)
    BY DEF Audit!Known
  <2>6. 0 \notin S
    BY <1>1, RowsAreNumbers
  <2>7. KnownIn(rs, j, t) = IF S = {} THEN 0 ELSE rs[p].id
    BY DEF KnownIn
  <2>8. S # {} => /\ p \in S /\ FirstThen(rs, S, p)
                  /\ \A k \in S : FirstThen(rs, S, k) => k = p
    BY <1>1, PlaceFacts
  <2> HIDE DEF rs, S, rows, i, p
  <2>9. CASE S = {}
    BY <2>1, <2>4, <2>5, <2>7, <2>9
  <2>10. CASE S # {}
    <3>1. i = CHOOSE m \in S : \A k \in S :
               Audit!KeyAt(k, "transaction") < Audit!KeyAt(m, "transaction")
                 \/ (Audit!KeyAt(k, "transaction") = Audit!KeyAt(m, "transaction") /\ m <= k)
      BY <2>1, <2>4, <2>10
    <3>2. \E m \in S : \A k \in S :
               Audit!KeyAt(k, "transaction") < Audit!KeyAt(m, "transaction")
                 \/ (Audit!KeyAt(k, "transaction") = Audit!KeyAt(m, "transaction") /\ m <= k)
      BY <2>2, <2>8, <2>10 DEF FirstThen
    <3>3. i \in S /\ FirstThen(rs, S, i)
      BY <2>2, <3>1, <3>2 DEF FirstThen
    <3> QED BY <2>5, <2>6, <2>7, <2>8, <2>10, <3>3
  <2> QED BY <2>9, <2>10 DEF rs
<1> QED BY <1>2, <1>3 DEF KnownRead

\* A record of a later time changes what was known only if it corrects that.
LEMMA LaterRecord ==
  ASSUME NEW rs \in Seq(Audit!Record), NEW r \in Audit!Record, NEW j \in Jobs, NEW t \in Audit!Times,
         t < r.trans, KnownIn(Append(rs, r), j, t) # KnownIn(rs, j, t)
  PROVE  KnownIn(rs, j, t) \in CorrectedIn(Append(rs, r)) \ CorrectedIn(rs)
<1> DEFINE more == Append(rs, r)
           n == Len(rs)
           S == RowsThen(rs, j, t)
           T == RowsThen(more, j, t)
           p == PlaceThen(rs, j, t)
           q == PlaceThen(more, j, t)
<1>1. /\ more \in Seq(Audit!Record) /\ Len(more) = n + 1 /\ n \in Nat
      /\ DOMAIN more = 1..(n + 1) /\ DOMAIN rs = 1..n
      /\ more[n + 1] = r /\ \A i \in 1..n : more[i] = rs[i]
  BY AppendProperties, LenProperties
<1>2. t \in Nat /\ r.trans \in Nat
  BY RecordFields, LogSizes DEF Audit!Times
<1> HIDE DEF more
<1>3. ASSUME NEW m \in CorrectedIn(rs) PROVE m \in CorrectedIn(more)
  <2>1. PICK i \in 1..n : rs[i].fixes = m /\ m # 0
    BY <1>1 DEF CorrectedIn, Audit!Range
  <2>2. i \in DOMAIN more /\ more[i] = rs[i]
    BY <1>1
  <2> QED BY <2>1, <2>2 DEF CorrectedIn, Audit!Range
<1>4. ASSUME NEW i \in T PROVE i \in S /\ more[i] = rs[i]
  <2>1. i \in 1..(n + 1) /\ more[i].trans <= t
    BY <1>1 DEF RowsThen
  <2>2. i # n + 1
    BY <1>1, <1>2, <2>1
  <2>3. i \in 1..n /\ more[i] = rs[i]
    BY <1>1, <2>1, <2>2
  <2> QED BY <1>1, <1>3, <2>3 DEF RowsThen
<1>5. /\ KnownIn(rs, j, t) = (IF S = {} THEN 0 ELSE rs[p].id)
      /\ KnownIn(more, j, t) = (IF T = {} THEN 0 ELSE more[q].id)
      /\ KnownIn(more, j, t) # KnownIn(rs, j, t)
  BY DEF KnownIn, more
<1>6. /\ S # {} => p \in S /\ FirstThen(rs, S, p)
      /\ T # {} => q \in T /\ \A i \in T : FirstThen(more, T, i) => i = q
  BY <1>1, PlaceFacts
<1> HIDE DEF p, q
<1>7. S # {}
  BY <1>4, <1>5
<1>8. p \in S /\ FirstThen(rs, S, p)
  BY <1>6, <1>7
<1>9. p \notin T
  <2> SUFFICES ASSUME p \in T PROVE FALSE
    OBVIOUS
  <2>1. FirstThen(more, T, p)
    BY <1>4, <1>8 DEF FirstThen
  <2>2. p = q /\ T # {}
    BY <1>6, <2>1
  <2> QED BY <1>4, <1>5, <1>7, <2>2
<1>10. p \in 1..n /\ rs[p].job = j /\ rs[p].id \notin CorrectedIn(rs) /\ rs[p].trans <= t
  BY <1>1, <1>8 DEF RowsThen
<1>11. rs[p].id \in CorrectedIn(more)
  <2>1. p \in DOMAIN more /\ more[p] = rs[p]
    BY <1>1, <1>10
  <2> QED BY <1>9, <1>10, <2>1 DEF RowsThen
<1> QED BY <1>5, <1>7, <1>10, <1>11 DEF more

Rewrites(j, t) ==
  Audit!Over(t) /\ logFaults' = {} /\ Audit!Known(j, t)' # Audit!Known(j, t)
    => Audit!Known(j, t) \in Audit!Superseded' \ Audit!Superseded

\* A step that adds no record to an intact file leaves the past alone, or adds one
\* that is later than that.
LEMMA PastKept ==
  ASSUME log \in Seq(LogLine), log' \in Seq(LogLine), NEW j \in Jobs, NEW t \in Audit!Times,
         \/ log' = log
         \/ \E r \in Audit!Record : /\ Audit!Readable(log') = Append(Audit!Readable(log), r)
                                    /\ t < r.trans
         \/ /\ RowsThen(Audit!Readable(log), j, t) = {}
            /\ RowsThen(Audit!Readable(log'), j, t) = {}
  PROVE  Rewrites(j, t)
<1>1. /\ Audit!Known(j, t) = KnownIn(Audit!Readable(log), j, t)
      /\ Audit!Superseded = CorrectedIn(Audit!Readable(log))
  BY KnownIsRead DEF KnownRead
<1>2. /\ Audit!Known(j, t)' = KnownIn(Audit!Readable(log'), j, t)
      /\ Audit!Superseded' = CorrectedIn(Audit!Readable(log'))
  <2>1. KnownRead'
    BY KnownIsRead, PTL
  <2> QED BY <2>1 DEF KnownRead
<1>3. Audit!Readable(log) \in Seq(Audit!Record)
  BY ReadableFacts
<1>4. CASE log' = log
  BY <1>1, <1>2, <1>4 DEF Rewrites
<1>5. ASSUME NEW r \in Audit!Record, Audit!Readable(log') = Append(Audit!Readable(log), r), t < r.trans
      PROVE  Rewrites(j, t)
  <2>1. KnownIn(Audit!Readable(log'), j, t) # KnownIn(Audit!Readable(log), j, t) =>
          KnownIn(Audit!Readable(log), j, t)
            \in CorrectedIn(Audit!Readable(log')) \ CorrectedIn(Audit!Readable(log))
    BY <1>3, <1>5, LaterRecord
  <2> QED BY <1>1, <1>2, <2>1 DEF Rewrites
<1>6. CASE /\ RowsThen(Audit!Readable(log), j, t) = {}
           /\ RowsThen(Audit!Readable(log'), j, t) = {}
  BY <1>1, <1>2, <1>6 DEF Rewrites, KnownIn
<1> QED BY <1>4, <1>5, <1>6

LEMMA RewriteStep ==
  ASSUME AuditInv, AuditInv', Audit!Next, NEW j \in Jobs, NEW t \in Audit!Times
  PROVE  Rewrites(j, t)
<1> SUFFICES ASSUME Audit!Over(t), logFaults' = {} PROVE Rewrites(j, t)
  BY DEF Rewrites
<1>1. /\ log \in Seq(LogLine) /\ log' \in Seq(LogLine) /\ now \in Nat /\ t \in Nat
      /\ call \in [Writers -> Calls \cup {Audit!NoCall}]
  BY LogSizes DEF AuditInv, AuditTypes, Audit!Times
<1>2. t < now /\ \A w \in Writers : Audit!InCall(w) => t < call[w].since
  BY DEF Audit!Over
<1>3. ASSUME NEW w \in Writers, Audit!Write(w) PROVE Rewrites(j, t)
  <2> DEFINE r == call[w].record
  <2>1. /\ call[w].stage = "append" /\ log' = Audit!Appended(r) /\ logFaults = {}
    BY <1>3 DEF Audit!Write
  <2>2. call[w] \in Calls /\ r \in Audit!Record /\ r # Garbage
    BY <2>1, RecordWritten
  <2>3. r.trans = call[w].since /\ Audit!InCall(w)
    BY <2>1, <2>2, CallFacts DEF Audit!InCall
  <2>4. ~open
    BY <2>1 DEF AuditInv, Clean
  <2>5. log' = Append(log, r)
    BY <2>1, <2>4 DEF Audit!Appended
  <2> HIDE DEF r
  <2>6. Audit!Readable(log') = Append(Audit!Readable(log), r)
    BY <1>1, <2>2, <2>5, ReadableAppend DEF LogLine
  <2>7. t < r.trans
    BY <1>2, <2>3
  <2> QED BY <1>1, <2>2, <2>6, <2>7, PastKept
<1>4. ASSUME NEW rows \in [1..2 -> Jobs \X (0..now)], Audit!Migrate(rows) PROVE Rewrites(j, t)
  <2>1. /\ log = <<>> /\ DOMAIN log' = DOMAIN rows /\ DOMAIN rows = 1..2
        /\ \A i \in 1..2 : log'[i].trans = now
    BY <1>4 DEF Audit!Migrate
  <2>2. Len(log) = 0 /\ NoGarbage(log)
    BY <1>1, <2>1, EmptySeq DEF NoGarbage
  <2>3. NoGarbage(log')
    BY DEF AuditInv, Clean
  <2>4. Audit!Readable(log) = log /\ Audit!Readable(log') = log'
    BY <1>1, <2>2, <2>3, LinesAreRecords
  <2>5. DOMAIN log = {}
    <3>1. DOMAIN log = 1..Len(log) /\ 1..0 = {}
      BY <1>1, LogList
    <3> QED BY <2>2, <3>1
  <2>6. RowsThen(log, j, t) = {}
    BY <2>5 DEF RowsThen
  <2>7. RowsThen(log', j, t) = {}
    <3> SUFFICES ASSUME NEW i \in RowsThen(log', j, t) PROVE FALSE
      OBVIOUS
    <3>1. i \in 1..2 /\ log'[i].trans <= t
      BY <2>1 DEF RowsThen
    <3> QED BY <1>1, <1>2, <2>1, <3>1
  <2> QED BY <1>1, <2>4, <2>6, <2>7, PastKept
<1>5. ASSUME NEW i \in DOMAIN log, NEW what \in Audit!Kinds, Audit!Damage(i, what) PROVE FALSE
  BY <1>5 DEF Audit!Damage
<1>6. ASSUME NEW w \in Writers, NEW whole \in BOOLEAN, Audit!DiesWriting(w, whole) PROVE FALSE
  BY <1>6 DEF Audit!DiesWriting
<1>7. ASSUME log' = log PROVE Rewrites(j, t)
  BY <1>1, <1>7, PastKept
<1>8. \/ log' = log
      \/ \E w \in Writers : Audit!Write(w)
      \/ \E w \in Writers, whole \in BOOLEAN : Audit!DiesWriting(w, whole)
      \/ \E rows \in [1..2 -> Jobs \X (0..now)] : Audit!Migrate(rows)
      \/ \E i \in DOMAIN log, what \in Audit!Kinds : Audit!Damage(i, what)
  <2>1. ASSUME NEW w \in Writers, NEW k \in Jobs, NEW time \in 0..now,
               NEW f \in {r.id : r \in Audit!Range(Audit!Readable(log))} \cup {0},
               Audit!Begin(w, k, time, f)
        PROVE  log' = log
    BY <2>1 DEF Audit!Begin
  <2>2. ASSUME NEW w \in Writers, Audit!Number(w) \/ Audit!WriteFails(w) PROVE log' = log
    BY <2>2 DEF Audit!Number, Audit!WriteFails
  <2>3. Audit!Tick => log' = log
    BY DEF Audit!Tick
  <2> QED BY <2>1, <2>2, <2>3, Zenon DEF Audit!Next
<1> QED BY <1>3, <1>4, <1>5, <1>6, <1>7, <1>8

LEMMA LogStepRewrites ==
  ASSUME AuditInv, [StoresNext]_storeVars
  PROVE  [\A j \in Jobs, t \in Audit!Times : Rewrites(j, t)]_(Audit!vars)
<1>1. CASE Records
  <2>1. Audit!Next /\ AuditInv'
    BY <1>1, AuditStep DEF Records
  <2> QED BY <2>1, RewriteStep
<1>2. CASE UNCHANGED logVars
  <2>1. UNCHANGED Audit!vars
    BY <1>2 DEF logVars, Audit!vars
  <2> QED BY <2>1
<1>3. Records \/ UNCHANGED logVars
  BY DEF StoresNext, Distils, Remembers, storeVars
<1> QED BY <1>1, <1>2, <1>3

\* What the log says was known at a time that is over changes only when a record
\* corrects it, in a file nothing happened to (record(), state_as_of()).
THEOREM PastIsCorrectedOnly == StoresSpec => OnlyCorrectionsRewrite
<1>1. AuditInv /\ [StoresNext]_storeVars
        => [\A j \in Jobs, t \in Audit!Times : Rewrites(j, t)]_(Audit!vars)
  BY LogStepRewrites
<1>2. StoresSpec => [][\A j \in Jobs, t \in Audit!Times : Rewrites(j, t)]_(Audit!vars)
  BY <1>1, AuditInvariant, PTL DEF StoresSpec
<1> QED BY <1>2, PTL DEF OnlyCorrectionsRewrite, Audit!OnlyCorrectionsRewrite, Rewrites
===============================================================================
