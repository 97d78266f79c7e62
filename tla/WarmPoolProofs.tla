---------------------------- MODULE WarmPoolProofs ----------------------------
(***************************************************************************)
(* Proofs about WarmPool, for every size of the pool, number of calls,     *)
(* failing commands, timeouts, cleanups and cancelled calls: candidates do *)
(* not disturb each other but through what a cancelled call has left in    *)
(* its container (ExecutionsUndisturbed), and never run where an earlier   *)
(* one has timed out, unless its call was cancelled before it had replaced *)
(* the container (FreshAfterTimeout).                                      *)
(***************************************************************************)
EXTENDS WarmPool, SequenceTheorems, FiniteSetTheorems, TLAPS

\* The orchestrator starts the pool once: the calls of start() that its
\* requests make are one (callers may still start it, see startFirst).
OneStart == \A c, d \in Warmups : c = d

-------------------------------------------------------------------------------
(***************************************************************************)
(* The inductive invariant.                                                *)
(***************************************************************************)

Recycling == {"removing", "rerun", "rerun again"}
Holding == {"running", "killing"} \cup Recycling
InLine == {"queued"} \cup Holding
StartPhases == {"removing old", "starting", "started"}

\* The types, but for what cancelled calls leave behind.
PoolTypes ==
  /\ dicts \in Seq(Dict)
  /\ pool \in Seq(DOMAIN dicts)
  /\ nextIdx \in Nat
  /\ started \in BOOLEAN /\ locked \in BOOLEAN
  /\ line \in Seq(Seq(Execs))
  /\ alive \subseteq Names /\ suspect \subseteq Names
  /\ hit \subseteq Execs
  /\ overlapped \in BOOLEAN
  /\ startAt \in [Callers -> 1..(setup.poolSize + 1)]
  /\ at \in [Execs -> 0..Len(dicts)]
  /\ lock \in [Execs -> 0..Len(line)]
  /\ outcome \in [Execs -> {"none", "exit", "timeout"}]
  /\ result \in [Execs -> {"none", "exit", "timeout", "failed", "none available"}]

\* Where the calls are, and the counters.
Phases ==
  /\ setup \in Setups
  /\ pc \in [Callers -> {"idle", "returned", "withdrawn", "cancelled"} \cup StartPhases \cup InLine]
  /\ \A c \in Warmups : pc[c] \notin InLine
  /\ slot \in [Execs -> Nat]
  /\ cleaning \in Nat /\ faults \in Nat /\ timeouts \in Nat /\ cleanups \in Nat
  /\ cleaning # 0 => cleanups # 0
  /\ \A c \in Callers :
       /\ pc[c] = "idle" => startAt[c] = 1
       /\ pc[c] \in {"removing old", "starting"} => startAt[c] <= setup.poolSize

\* A call that waits for a container or has it has picked one; before that it
\* has no semaphore.
Picked == \A e \in Execs :
            /\ pc[e] \in InLine => at[e] # 0
            /\ pc[e] \in {"idle"} \cup StartPhases => lock[e] = 0

\* The waiting lines: who is in one waits there and nowhere else, once; who
\* holds a semaphore is first.
InLines ==
  \A k \in DOMAIN line : \A m \in DOMAIN line[k] :
    /\ line[k][m] \in Execs
    /\ lock[line[k][m]] = k
    /\ pc[line[k][m]] \in InLine
LinedOnce ==
  \A k \in DOMAIN line : \A m, n \in DOMAIN line[k] :
    line[k][m] = line[k][n] => m = n
Waiting ==
  \A e \in Execs : pc[e] \in InLine /\ lock[e] # 0 =>
    \E m \in DOMAIN line[lock[e]] : line[lock[e]][m] = e
HolderFirst ==
  \A e \in Execs : pc[e] \in Holding /\ lock[e] # 0 => Head(line[lock[e]]) = e

Lines == Picked /\ InLines /\ LinedOnce /\ Waiting /\ HolderFirst

PoolInv == PoolTypes /\ Phases /\ Lines

\* While calls have not overlapped there is one in flight, and nothing else
\* takes its dictionary from the list except a cleanup.
Alone ==
  ~overlapped =>
    /\ \A e, d \in InFlight : e = d
    /\ cleanups = 0 =>
         /\ \A e \in Execs : pc[e] \in InLine => \E k \in DOMAIN pool : pool[k] = at[e]
         /\ \A e \in Execs : pc[e] \in Recycling => slot[e] \in DOMAIN pool
         /\ \A e \in Execs : result[e] # "failed"

\* A pool that is started once, before its use: only the orchestrator starts
\* it, calls come when that is done, and meanwhile the list holds the names
\* start() has passed.
NameAt(k) == dicts[pool[k]].name
Once ==
  setup.startFirst =>
    /\ \A e \in Execs : pc[e] \notin StartPhases
    /\ started \/ (\E e \in Execs : pc[e] # "idle") =>
         (\A c \in Warmups : pc[c] = "returned")
    /\ \A c \in Warmups : \A k \in DOMAIN pool :
         pc[c] \in StartPhases => NameAt(k) < startAt[c]
    /\ (\A c \in Warmups : pc[c] = "idle") => pool = <<>>

\* While calls have not overlapped either, the names in the list differ; a
\* container in which a candidate timed out is being replaced by it, or is in
\* the list no more, except with an entry whose replacement was cancelled; and
\* the call in flight finds its entry, unless cleanup() has emptied the list.
NamesDiffer == \A k, m \in DOMAIN pool : NameAt(k) = NameAt(m) => k = m
Replaces(e, n) ==
  /\ pc[e] \in {"killing"} \cup Recycling
  /\ NameOf(e) = n
  /\ outcome[e] = "timeout"
Unlisted(n) == \A k \in DOMAIN pool : NameAt(k) = n => CutShort(pool[k])
SuspectsReplaced ==
  \A n \in suspect : (\E e \in Execs : Replaces(e, n)) \/ Unlisted(n)
QueuedIsFresh ==
  \A e \in Execs : pc[e] = "queued" => NameOf(e) \notin suspect \/ CutShort(at[e])
Finds(e) ==
  /\ pc[e] \in InLine =>
       (pool = <<>> \/ \E k \in DOMAIN pool : pool[k] = at[e])
  /\ pc[e] \in Recycling =>
       (pool = <<>> \/ (slot[e] \in DOMAIN pool /\ NameAt(slot[e]) = NameOf(e)))
Listed == \A e \in Execs : Finds(e)
Suspects ==
  setup.startFirst /\ ~overlapped =>
    NamesDiffer /\ SuspectsReplaced /\ QueuedIsFresh /\ Listed

\* What cancelled calls leave: candidates and commands, in containers they had.
Past(e) == pc[e] \in InLine \cup Ended /\ at[e] # 0
Remnants ==
  /\ stray \subseteq Execs /\ late \subseteq Command /\ cancels \in Nat
  /\ \A e \in stray : pc[e] = "cancelled" /\ at[e] # 0
  /\ Len(pool) <= Len(line)

\* While all is calm: the k-th entry is container k with semaphore k, start()
\* adds the next one, a call waits for the semaphore of its container, and a
\* container is there unless the call that has it is just replacing it, or a
\* cancelled call had it.
InOrder ==
  /\ \A k \in DOMAIN pool : NameAt(k) = k
  /\ Len(line) = Len(pool)
  /\ \A c \in Warmups : pc[c] \in StartPhases => Len(pool) = startAt[c] - 1
  /\ started => locked
OwnSemaphore ==
  \A e \in Execs :
    /\ pc[e] \in InLine => lock[e] = NameOf(e)
    /\ pc[e] \in Recycling => slot[e] = NameOf(e)
Replaced(n) == \E e \in Execs : pc[e] = "rerun" /\ NameOf(e) = n
Present ==
  /\ \A c \in Warmups : pc[c] = "starting" => startAt[c] \notin alive
  /\ \A n : Replaced(n) => n \notin alive \/ Abandoned(n)
  /\ \A n \in DOMAIN pool : n \in alive \/ Replaced(n) \/ Abandoned(n)
Ordered == InOrder /\ OwnSemaphore /\ Present

\* ... and only containers that a cancelled call had are disturbed, or may be.
Unhurt == \A e \in hit : Past(e) /\ Abandoned(NameOf(e))
LateAbandoned == \A k \in late : Abandoned(k.name)
Steady == Calm => Ordered /\ Unhurt /\ LateAbandoned

-------------------------------------------------------------------------------
(***************************************************************************)
(* Lemmas about sequences.                                                 *)
(***************************************************************************)

\* A sequence over a set is one over a larger set.
LEMMA SeqGrows ==
  ASSUME NEW S, NEW T, S \subseteq T, NEW s \in Seq(S)
  PROVE  s \in Seq(T)
<1>1. /\ DOMAIN s = 1..Len(s) /\ Len(s) \in Nat
      /\ s = [k \in 1..Len(s) |-> s[k]]
      /\ \A k \in 1..Len(s) : s[k] \in S
  BY LenProperties, ElementOfSeq
<1>2. \A k \in 1..Len(s) : s[k] \in T
  BY <1>1
<1> QED BY <1>1, <1>2, IsASeq

\* Element and domain of a sequence, and of the sequence with one more.
LEMMA SeqFacts ==
  ASSUME NEW S, NEW s \in Seq(S)
  PROVE  /\ Len(s) \in Nat /\ DOMAIN s = 1..Len(s)
         /\ \A k \in DOMAIN s : s[k] \in S
         /\ s # <<>> <=> Len(s) # 0
BY LenProperties, ElementOfSeq, EmptySeq

\* A sequence with one more element.
LEMMA AppendFacts ==
  ASSUME NEW S, NEW s \in Seq(S), NEW x \in S
  PROVE  /\ Append(s, x) \in Seq(S)
         /\ Len(Append(s, x)) = Len(s) + 1
         /\ DOMAIN Append(s, x) = 1..(Len(s) + 1)
         /\ \A k \in DOMAIN s : Append(s, x)[k] = s[k]
         /\ Append(s, x)[Len(s) + 1] = x
BY LenProperties, AppendProperties

\* A sequence without its first element.
LEMMA TailFacts ==
  ASSUME NEW S, NEW s \in Seq(S), s # <<>>
  PROVE  /\ Tail(s) \in Seq(S)
         /\ Len(Tail(s)) = Len(s) - 1
         /\ DOMAIN Tail(s) = 1..(Len(s) - 1)
         /\ \A k \in DOMAIN Tail(s) : Tail(s)[k] = s[k + 1] /\ k + 1 \in DOMAIN s
         /\ Head(s) = s[1] /\ 1 \in DOMAIN s
<1>1. Len(s) \in Nat /\ DOMAIN s = 1..Len(s) /\ Len(s) # 0
  BY SeqFacts
<1>2. /\ Tail(s) \in Seq(S) /\ Len(Tail(s)) = Len(s) - 1
      /\ \A k \in 1..Len(Tail(s)) : Tail(s)[k] = s[k + 1]
      /\ Head(s) = s[1]
  BY HeadTailProperties
<1>3. DOMAIN Tail(s) = 1..(Len(s) - 1)
  BY <1>2, LenProperties
<1> QED BY <1>1, <1>2, <1>3

\* A sequence without its k-th element (container_list.pop(idx)).
LEMMA DropPositions ==
  ASSUME NEW S, NEW s \in Seq(S), NEW i \in DOMAIN s
  PROVE  /\ DropAt(s, i) \in Seq(S)
         /\ Len(DropAt(s, i)) = Len(s) - 1
         /\ \A m \in 1..(Len(s) - 1) : DropAt(s, i)[m] = IF m < i THEN s[m] ELSE s[m + 1]
<1> DEFINE left == SubSeq(s, 1, i - 1)
           right == SubSeq(s, i + 1, Len(s))
<1>1. Len(s) \in Nat /\ DOMAIN s = 1..Len(s) /\ i \in 1..Len(s)
  BY LenProperties
<1>2. \A k \in 1..Len(s) : s[k] \in S
  BY ElementOfSeq
<1>3. /\ left \in Seq(S)
      /\ Len(left) = i - 1
      /\ \A k \in 1..(i - 1) : left[k] = s[k]
  <2>1. \A k \in 1..(i - 1) : s[k] \in S
    BY <1>1, <1>2
  <2> QED BY <2>1, <1>1, SubSeqProperties
<1>4. /\ right \in Seq(S)
      /\ Len(right) = Len(s) - i
      /\ \A k \in 1..(Len(s) - i) : right[k] = s[i + k]
  <2>1. \A k \in (i + 1)..Len(s) : s[k] \in S
    BY <1>1, <1>2
  <2>2. /\ right \in Seq(S)
        /\ Len(right) = IF i + 1 <= Len(s) THEN Len(s) - (i + 1) + 1 ELSE 0
        /\ \A k \in 1..(Len(s) - (i + 1) + 1) : right[k] = s[(i + 1) + k - 1]
    BY <2>1, <1>1, SubSeqProperties
  <2>3. Len(s) - (i + 1) + 1 = Len(s) - i /\ \A k \in Int : (i + 1) + k - 1 = i + k
    BY <1>1
  <2>4. Len(right) = Len(s) - i
    BY <2>2, <1>1
  <2>5. ASSUME NEW k \in 1..(Len(s) - i) PROVE right[k] = s[i + k]
    <3>1. k \in 1..(Len(s) - (i + 1) + 1) /\ (i + 1) + k - 1 = i + k
      BY <1>1
    <3> QED BY <2>2, <3>1
  <2> QED BY <2>2, <2>4, <2>5
<1> HIDE DEF left, right
<1>5. /\ left \o right \in Seq(S)
      /\ Len(left \o right) = Len(s) - 1
      /\ \A k \in 1..(Len(s) - 1) :
           (left \o right)[k] = IF k <= i - 1 THEN left[k] ELSE right[k - (i - 1)]
  <2>1. /\ left \o right \in Seq(S)
        /\ Len(left \o right) = Len(left) + Len(right)
        /\ \A k \in 1..(Len(left) + Len(right)) :
             (left \o right)[k] = IF k <= Len(left) THEN left[k]
                                  ELSE right[k - Len(left)]
    BY <1>3, <1>4, ConcatProperties
  <2> QED BY <2>1, <1>1, <1>3, <1>4, SMTT(60)
<1>6. DropAt(s, i) = left \o right
  BY DEF DropAt, left, right
<1>7. ASSUME NEW m \in 1..(Len(s) - 1)
      PROVE  (left \o right)[m] = IF m < i THEN s[m] ELSE s[m + 1]
  <2>1. CASE m < i
    <3>1. m \in 1..(i - 1) /\ m <= i - 1
      BY <2>1, <1>1
    <3>2. (left \o right)[m] = s[m]
      BY <3>1, <1>3, <1>5
    <3> QED BY <2>1, <3>2
  <2>2. CASE ~(m < i)
    <3>1. m - (i - 1) \in 1..(Len(s) - i) /\ ~(m <= i - 1) /\ i + (m - (i - 1)) = m + 1
      BY <2>2, <1>1
    <3>2. (left \o right)[m] = s[i + (m - (i - 1))]
      BY <3>1, <1>1, <1>4, <1>5
    <3> QED BY <2>2, <3>1, <3>2
  <2> QED BY <2>1, <2>2
<1> QED BY <1>5, <1>6, <1>7

\* A set of positions that is not empty has a first, which list.index() finds.
LEMMA LeastElement ==
  ASSUME NEW S \in SUBSET Nat, S # {}
  PROVE  LET first == CHOOSE k \in S : \A m \in S : k <= m
         IN  first \in S /\ \A k \in S : first <= k
<1> DEFINE Less == OpToRel(<, Nat)
<1>1. IsWellFoundedOn(Less, Nat)
  BY NatLessThanWellFounded
<1>2. \A k, m \in Nat : <<k, m>> \in Less <=> k < m
  BY DEF OpToRel
<1> HIDE DEF Less
<1>3. PICK m \in S : \A k \in S : ~ (<<k, m>> \in Less)
  BY <1>1, WFMin
<1>4. ASSUME NEW k \in S PROVE m <= k
  <2>1. k \in Nat /\ m \in Nat
    OBVIOUS
  <2>2. ~ (k < m)
    BY <2>1, <1>2, <1>3, Zenon
  <2> QED BY <2>1, <2>2
<1> QED BY <1>4

\* There is a next number below a larger one.
LEMMA NextFits == ASSUME NEW a \in Nat, NEW b \in Nat, a < b PROVE a + 1 <= b
OBVIOUS

\* The next number is larger.
LEMMA SmallerThanNext == \A a, b \in Nat : b < b + 1 /\ (a < b => a < b + 1)
OBVIOUS

\* The empty list has no positions.
LEMMA NoPositions == DOMAIN <<>> = {}
BY EmptySeq

\* Positions are numbers.
LEMMA PositionsAreNumbers ==
  ASSUME NEW S, NEW s \in Seq(S)
  PROVE  DOMAIN s \subseteq Nat
BY SeqFacts
-------------------------------------------------------------------------------
(***************************************************************************)
(* Facts about a state.                                                    *)
(***************************************************************************)

\* The lists, their lengths and elements.
LEMMA TypeFacts ==
  ASSUME PoolInv
  PROVE  /\ setup \in Setup /\ setup.poolSize \in Nat /\ 1 <= setup.poolSize
         /\ Len(dicts) \in Nat /\ DOMAIN dicts = 1..Len(dicts)
         /\ \A d \in DOMAIN dicts : /\ dicts[d] \in Dict
                                    /\ dicts[d].name \in Names /\ dicts[d].uses \in Nat
         /\ Len(pool) \in Nat /\ DOMAIN pool = 1..Len(pool)
         /\ \A k \in DOMAIN pool : pool[k] \in DOMAIN dicts
         /\ pool # <<>> <=> Len(pool) # 0
         /\ Len(line) \in Nat /\ DOMAIN line = 1..Len(line)
         /\ \A k \in DOMAIN line : line[k] \in Seq(Execs)
<1>1. setup \in Setup /\ setup.poolSize \in Nat /\ 1 <= setup.poolSize
  <2>1. setup \in Setup
    BY WarmPoolAssumption DEF PoolInv, Phases
  <2>2. setup.poolSize \in Nat /\ setup.poolSize # 0
    BY <2>1 DEF Setup
  <2>3. \A n \in Nat : n # 0 => 1 <= n
    OBVIOUS
  <2> QED BY <2>1, <2>2, <2>3
<1>2. dicts \in Seq(Dict) /\ pool \in Seq(DOMAIN dicts) /\ line \in Seq(Seq(Execs))
  BY DEF PoolInv, PoolTypes
<1>3. /\ Len(dicts) \in Nat /\ DOMAIN dicts = 1..Len(dicts)
      /\ \A d \in DOMAIN dicts : dicts[d] \in Dict
  BY <1>2, SeqFacts
<1>4. \A d \in DOMAIN dicts : dicts[d].name \in Names /\ dicts[d].uses \in Nat
  BY <1>3 DEF Dict
<1>5. /\ Len(pool) \in Nat /\ DOMAIN pool = 1..Len(pool)
      /\ \A k \in DOMAIN pool : pool[k] \in DOMAIN dicts
      /\ pool # <<>> <=> Len(pool) # 0
  <2> DEFINE S == DOMAIN dicts
  <2>1. pool \in Seq(S)
    BY <1>2
  <2> HIDE DEF S
  <2>2. /\ Len(pool) \in Nat /\ DOMAIN pool = 1..Len(pool)
        /\ \A k \in DOMAIN pool : pool[k] \in S
        /\ pool # <<>> <=> Len(pool) # 0
    BY <2>1, SeqFacts
  <2> QED BY <2>2 DEF S
<1>6. /\ Len(line) \in Nat /\ DOMAIN line = 1..Len(line)
      /\ \A k \in DOMAIN line : line[k] \in Seq(Execs)
  BY <1>2, SeqFacts
<1> QED BY <1>1, <1>3, <1>4, <1>5, <1>6

\* What a call is at.
LEMMA CallFacts ==
  ASSUME PoolInv, NEW e \in Execs
  PROVE  /\ e \in Callers /\ e \in Nat
         /\ pc[e] \in {"idle", "returned", "withdrawn", "cancelled"} \cup StartPhases \cup InLine
         /\ at[e] \in Nat /\ at[e] <= Len(dicts)
         /\ lock[e] \in Nat /\ lock[e] <= Len(line)
         /\ pc[e] \in InLine => at[e] \in DOMAIN dicts /\ NameOf(e) \in Names
         /\ pc[e] \in InLine /\ lock[e] # 0 =>
              lock[e] \in DOMAIN line /\ line[lock[e]] \in Seq(Execs) /\ line[lock[e]] # <<>>
<1>1. e \in Callers /\ e \in Nat
  BY WarmPoolAssumption DEF Callers
<1>2. pc[e] \in {"idle", "returned", "withdrawn", "cancelled"} \cup StartPhases \cup InLine
  BY <1>1 DEF PoolInv, Phases
<1>3. at[e] \in 0..Len(dicts) /\ lock[e] \in 0..Len(line)
  BY DEF PoolInv, PoolTypes
<1>4. at[e] \in Nat /\ at[e] <= Len(dicts) /\ lock[e] \in Nat /\ lock[e] <= Len(line)
  BY <1>3, TypeFacts
<1>5. pc[e] \in InLine => at[e] \in DOMAIN dicts /\ NameOf(e) \in Names
  <2>1. pc[e] \in InLine => at[e] # 0
    BY DEF PoolInv, Lines, Picked
  <2>2. pc[e] \in InLine => at[e] \in DOMAIN dicts
    BY <1>4, <2>1, TypeFacts
  <2> QED BY <2>2, TypeFacts DEF NameOf
<1>6. ASSUME pc[e] \in InLine, lock[e] # 0
      PROVE  lock[e] \in DOMAIN line /\ line[lock[e]] \in Seq(Execs) /\ line[lock[e]] # <<>>
  <2>1. lock[e] \in DOMAIN line /\ line[lock[e]] \in Seq(Execs)
    BY <1>4, <1>6, TypeFacts
  <2>2. PICK m \in DOMAIN line[lock[e]] : line[lock[e]][m] = e
    BY <1>6 DEF PoolInv, Lines, Waiting
  <2>3. DOMAIN line[lock[e]] = 1..Len(line[lock[e]]) /\ Len(line[lock[e]]) \in Nat
    BY <2>1, SeqFacts
  <2>4. Len(line[lock[e]]) # 0
    BY <2>2, <2>3
  <2> QED BY <2>1, <2>4, SeqFacts
<1> QED BY <1>1, <1>2, <1>4, <1>5, <1>6

\* Names are numbers.
LEMMA NamesAreNumbers ==
  ASSUME PoolInv
  PROVE  \A n \in Names : n \in Nat /\ 1 <= n /\ n # 0
<1>1. setup.poolSize \in Nat
  BY TypeFacts
<1> QED BY <1>1 DEF Names


\* The phases are different.
LEMMA PhasesDiffer ==
  /\ InLine \cap StartPhases = {} /\ "idle" \notin InLine /\ "returned" \notin InLine
  /\ "withdrawn" \notin InLine /\ "cancelled" \notin InLine
  /\ Recycling \subseteq Holding /\ Holding \subseteq InLine /\ "queued" \notin Holding
  /\ "idle" \notin StartPhases /\ "returned" \notin StartPhases
  /\ "withdrawn" \notin StartPhases /\ "cancelled" \notin StartPhases
BY DEF InLine, StartPhases, Holding, Recycling

-------------------------------------------------------------------------------
(***************************************************************************)
(* The waiting lines.                                                      *)
(***************************************************************************)

\* Calls go on without touching a line: none joins or leaves, and who comes
\* to hold a semaphore has been granted it.
LEMMA LinesUntouched ==
  ASSUME PoolInv, line' = line, lock' = lock, at' = at,
         \A e \in Execs : pc'[e] \in InLine <=> pc[e] \in InLine,
         \A e \in Execs : pc'[e] \in Holding => pc[e] \in Holding \/ Granted(e),
         \A e \in Execs : pc'[e] \in {"idle"} \cup StartPhases =>
                            pc[e] \in {"idle"} \cup StartPhases
  PROVE  Lines'
<1> USE DEF PoolInv, Lines
<1>1. Picked'
  BY DEF Picked
<1>2. InLines'
  BY DEF InLines
<1>3. LinedOnce'
  BY DEF LinedOnce
<1>4. Waiting'
  BY DEF Waiting
<1>5. HolderFirst'
  BY DEF HolderFirst, Granted
<1> QED BY <1>1, <1>2, <1>3, <1>4, <1>5

\* start() adds a semaphore nobody waits for.
LEMMA LinesExtended ==
  ASSUME PoolInv, line' = Append(line, <<>>), lock' = lock, at' = at,
         \A e \in Execs : pc'[e] \in InLine <=> pc[e] \in InLine,
         \A e \in Execs : pc'[e] \in Holding => pc[e] \in Holding,
         \A e \in Execs : pc'[e] \in {"idle"} \cup StartPhases =>
                            pc[e] \in {"idle"} \cup StartPhases
  PROVE  Lines'
<1> USE DEF PoolInv, Lines
<1> DEFINE n == Len(line) + 1
<1>1. /\ DOMAIN line' = 1..n /\ Len(line) \in Nat /\ DOMAIN line = 1..Len(line)
      /\ \A k \in DOMAIN line : line'[k] = line[k]
      /\ line'[n] = <<>>
  <2>1. line \in Seq(Seq(Execs)) /\ <<>> \in Seq(Execs)
    BY EmptySeq DEF PoolTypes
  <2> QED BY <2>1, AppendFacts, SeqFacts
<1>2. DOMAIN line'[n] = {}
  BY <1>1
<1> HIDE DEF n
<1>3. \A k \in DOMAIN line' : k \in DOMAIN line \/ k = n
  BY <1>1 DEF n
<1>4. Picked'
  BY DEF Picked
<1>5. InLines'
  <2> SUFFICES ASSUME NEW k \in DOMAIN line', NEW m \in DOMAIN line'[k]
               PROVE  /\ line'[k][m] \in Execs
                      /\ lock'[line'[k][m]] = k /\ pc'[line'[k][m]] \in InLine
    BY DEF InLines
  <2>1. k \in DOMAIN line /\ line'[k] = line[k]
    BY <1>1, <1>2, <1>3
  <2> QED BY <2>1 DEF InLines
<1>6. LinedOnce'
  BY <1>1, <1>2, <1>3 DEF LinedOnce
<1>7. ASSUME NEW e \in Execs, pc'[e] \in InLine, lock[e] # 0
      PROVE  line'[lock[e]] = line[lock[e]]
  BY <1>1, <1>7, CallFacts
<1>8. Waiting'
  <2> SUFFICES ASSUME NEW e \in Execs, pc'[e] \in InLine, lock[e] # 0
               PROVE  \E m \in DOMAIN line'[lock[e]] : line'[lock[e]][m] = e
    BY DEF Waiting
  <2>1. line'[lock[e]] = line[lock[e]] /\ pc[e] \in InLine
    BY <1>7
  <2> QED BY <2>1 DEF Waiting
<1>9. HolderFirst'
  <2> SUFFICES ASSUME NEW e \in Execs, pc'[e] \in Holding, lock[e] # 0
               PROVE  Head(line'[lock[e]]) = e
    BY DEF HolderFirst
  <2>1. line'[lock[e]] = line[lock[e]] /\ pc[e] \in Holding
    BY <1>7, PhasesDiffer
  <2> QED BY <2>1 DEF HolderFirst
<1> QED BY <1>4, <1>5, <1>6, <1>8, <1>9

\* A call that returns, or is cancelled at work, leaves the line it was first in.
LEMMA LinesReleased ==
  ASSUME PoolInv, NEW e \in Execs, pc[e] \in Holding, lock' = lock, at' = at,
         line' = Released(e),
         NEW q \in {"returned", "cancelled"}, pc' = [pc EXCEPT ![e] = q]
  PROVE  Lines'
<1> USE DEF PoolInv, Lines
<1>1. /\ pc'[e] = q
      /\ \A d \in Execs : d # e => pc'[d] = pc[d]
  <2>1. pc \in [Callers -> {"idle", "returned", "withdrawn", "cancelled"} \cup StartPhases \cup InLine] /\ e \in Callers
    BY CallFacts DEF Phases
  <2> QED BY <2>1 DEF Callers
<1>2. q \notin {"idle"} \cup StartPhases \cup InLine
  BY PhasesDiffer
<1>3. Picked'
  BY <1>1, <1>2 DEF Picked
<1>4. CASE lock[e] = 0
  <2>1. line' = line
    BY <1>4 DEF Released
  <2>2. \A k \in DOMAIN line : \A m \in DOMAIN line[k] : line[k][m] # e
    BY <1>4, TypeFacts DEF InLines
  <2>3. InLines' /\ LinedOnce'
    BY <1>1, <2>1, <2>2 DEF InLines, LinedOnce
  <2>4. Waiting' /\ HolderFirst'
    BY <1>1, <1>2, <2>1, PhasesDiffer DEF Waiting, HolderFirst
  <2> QED BY <1>3, <2>3, <2>4
<1>5. CASE lock[e] # 0
  <2> DEFINE n == lock[e]
             s == line[n]
  <2>1. n \in DOMAIN line /\ s \in Seq(Execs) /\ s # <<>>
    BY <1>5, CallFacts, PhasesDiffer
  <2>2. Head(s) = e
    BY <1>5 DEF HolderFirst
  <2>3. /\ DOMAIN line' = DOMAIN line
        /\ \A k \in DOMAIN line : k # n => line'[k] = line[k]
        /\ line'[n] = Tail(s)
    BY <1>5, <2>1 DEF Released
  <2>4. /\ DOMAIN Tail(s) = 1..(Len(s) - 1)
        /\ \A m \in DOMAIN Tail(s) : Tail(s)[m] = s[m + 1] /\ m + 1 \in DOMAIN s
        /\ Head(s) = s[1] /\ 1 \in DOMAIN s
        /\ DOMAIN s = 1..Len(s) /\ Len(s) \in Nat
    <3> HIDE DEF s
    <3> QED BY <2>1, TailFacts, SeqFacts
  <2>5. \A m \in DOMAIN Tail(s) : Tail(s)[m] # e
    <3> SUFFICES ASSUME NEW m \in DOMAIN Tail(s), Tail(s)[m] = e PROVE FALSE
      OBVIOUS
    <3>1. s[m + 1] = s[1] /\ m + 1 \in DOMAIN s
      BY <2>2, <2>4
    <3>2. m + 1 = 1
      BY <2>1, <2>4, <3>1 DEF LinedOnce
    <3>3. m \in Nat /\ m >= 1
      BY <2>4
    <3> QED BY <3>2, <3>3
  <2>6. \A k \in DOMAIN line : k # n => \A m \in DOMAIN line[k] : line[k][m] # e
    BY DEF InLines
  <2>7. InLines'
    <3> SUFFICES ASSUME NEW k \in DOMAIN line, NEW m \in DOMAIN line'[k]
                 PROVE  /\ line'[k][m] \in Execs
                        /\ lock[line'[k][m]] = k /\ pc'[line'[k][m]] \in InLine
      BY <2>3 DEF InLines
    <3>1. CASE k # n
      BY <1>1, <2>3, <2>6, <3>1 DEF InLines
    <3>2. CASE k = n
      <4>1. line'[k][m] = s[m + 1] /\ m + 1 \in DOMAIN s /\ line'[k][m] # e
        BY <2>3, <2>4, <2>5, <3>2
      <4>2. s[m + 1] \in Execs /\ lock[s[m + 1]] = n /\ pc[s[m + 1]] \in InLine
        BY <2>1, <4>1 DEF InLines
      <4> QED BY <1>1, <3>2, <4>1, <4>2
    <3> QED BY <3>1, <3>2
  <2>8. LinedOnce'
    <3> SUFFICES ASSUME NEW k \in DOMAIN line, NEW m \in DOMAIN line'[k],
                        NEW o \in DOMAIN line'[k], line'[k][m] = line'[k][o]
                 PROVE  m = o
      BY <2>3 DEF LinedOnce
    <3>1. CASE k # n
      BY <2>3, <3>1 DEF LinedOnce
    <3>2. CASE k = n
      <4>1. s[m + 1] = s[o + 1] /\ m + 1 \in DOMAIN s /\ o + 1 \in DOMAIN s
        BY <2>3, <2>4, <3>2
      <4>2. m + 1 = o + 1
        BY <2>1, <4>1 DEF LinedOnce
      <4>3. m \in Nat /\ o \in Nat
        <5>1. DOMAIN line'[k] = 1..(Len(s) - 1)
          BY <2>3, <2>4, <3>2
        <5>2. m \in 1..(Len(s) - 1) /\ o \in 1..(Len(s) - 1)
          BY <5>1
        <5> HIDE DEF s
        <5> QED BY <2>4, <5>2
      <4> QED BY <4>2, <4>3
    <3> QED BY <3>1, <3>2
  <2>9. ASSUME NEW d \in Execs, pc'[d] \in InLine, lock[d] # 0
        PROVE  /\ d # e /\ pc[d] \in InLine
               /\ \E m \in DOMAIN line'[lock[d]] : line'[lock[d]][m] = d
    <3>1. d # e /\ pc[d] \in InLine
      BY <1>1, <1>2, <2>9
    <3>2. PICK m \in DOMAIN line[lock[d]] : line[lock[d]][m] = d
      BY <2>9, <3>1 DEF Waiting
    <3>3. lock[d] \in DOMAIN line
      BY <2>9, <3>1, CallFacts
    <3>4. CASE lock[d] # n
      BY <2>3, <3>1, <3>2, <3>3, <3>4
    <3>5. CASE lock[d] = n
      <4>1. m \in DOMAIN s /\ s[m] = d /\ m # 1
        BY <2>2, <2>4, <3>1, <3>2, <3>5
      <4>2. m - 1 \in DOMAIN Tail(s) /\ (m - 1) + 1 = m
        BY <2>4, <4>1
      <4>3. line'[lock[d]][m - 1] = d
        BY <2>3, <2>4, <3>5, <4>1, <4>2, ZenonT(60)
      <4> QED BY <2>3, <3>1, <3>5, <4>2, <4>3
    <3> QED BY <3>4, <3>5
  <2>10. Waiting'
    BY <2>9 DEF Waiting
  <2>11. HolderFirst'
    <3> SUFFICES ASSUME NEW d \in Execs, pc'[d] \in Holding, lock[d] # 0
                 PROVE  Head(line'[lock[d]]) = d
      BY DEF HolderFirst
    <3>1. d # e /\ pc[d] = pc'[d]
      BY <1>1, <1>2, PhasesDiffer
    <3>2. Head(line[lock[d]]) = d
      BY <3>1 DEF HolderFirst
    <3>3. lock[d] # n
      BY <2>2, <3>1, <3>2
    <3>4. lock[d] \in DOMAIN line
      BY <3>1, CallFacts, PhasesDiffer
    <3> QED BY <2>3, <3>2, <3>3, <3>4
  <2> QED BY <1>3, <2>7, <2>8, <2>10, <2>11
<1> QED BY <1>4, <1>5

\* A waiter that is withdrawn leaves the line from where it stands, and the
\* order of the others stays.
LEMMA LinesLeft ==
  ASSUME PoolInv, NEW e \in Execs, pc[e] = "queued", lock[e] # 0, lock' = lock, at' = at,
         Leaves(e), pc' = [pc EXCEPT ![e] = "withdrawn"]
  PROVE  /\ Lines' /\ Len(line') = Len(line) /\ DOMAIN line' = DOMAIN line
         /\ line' \in Seq(Seq(Execs))
<1> USE DEF PoolInv, Lines
<1>1. /\ pc'[e] = "withdrawn"
      /\ \A d \in Execs : d # e => pc'[d] = pc[d]
  <2>1. pc \in [Callers -> {"idle", "returned", "withdrawn", "cancelled"} \cup StartPhases \cup InLine] /\ e \in Callers
    BY CallFacts DEF Phases
  <2> QED BY <2>1 DEF Callers
<1>2. /\ "withdrawn" \notin {"idle"} \cup StartPhases \cup InLine
      /\ pc[e] \in InLine
  BY PhasesDiffer DEF InLine
<1>3. Picked'
  BY <1>1, <1>2 DEF Picked
<1> DEFINE n == lock[e]
           s == line[n]
<1>4. n \in DOMAIN line /\ s \in Seq(Execs) /\ s # <<>>
  BY <1>2, CallFacts
<1>5. PICK i \in DOMAIN s : s[i] = e /\ line' = [line EXCEPT ![n] = DropAt(s, i)]
  BY DEF Leaves
<1> DEFINE t == DropAt(s, i)
<1>6. /\ DOMAIN line' = DOMAIN line
      /\ \A k \in DOMAIN line : k # n => line'[k] = line[k]
      /\ line'[n] = t
  BY <1>4, <1>5
<1> HIDE DEF s, t
<1>7. /\ t \in Seq(Execs) /\ Len(s) \in Nat /\ DOMAIN s = 1..Len(s)
      /\ Len(t) = Len(s) - 1
      /\ \A m \in 1..(Len(s) - 1) : t[m] = IF m < i THEN s[m] ELSE s[m + 1]
  BY <1>4, DropPositions, SeqFacts DEF t
<1>8. DOMAIN t = 1..(Len(s) - 1)
  BY <1>7, SeqFacts
<1> DEFINE From(m) == IF m < i THEN m ELSE m + 1
<1>9. ASSUME NEW m \in DOMAIN t
      PROVE  m \in Nat /\ From(m) \in DOMAIN s /\ From(m) # i /\ t[m] = s[From(m)]
  <2>1. m \in 1..(Len(s) - 1) /\ i \in 1..Len(s)
    BY <1>7, <1>8
  <2>2. m \in Nat /\ From(m) \in 1..Len(s) /\ From(m) # i
    BY <1>7, <2>1
  <2> QED BY <1>7, <2>1, <2>2
<1>10. \A m, o \in DOMAIN t : From(m) = From(o) => m = o
  <2> SUFFICES ASSUME NEW m \in DOMAIN t, NEW o \in DOMAIN t, From(m) = From(o) PROVE m = o
    OBVIOUS
  <2>1. m \in Nat /\ o \in Nat /\ i \in Nat
    BY <1>7, <1>9
  <2> QED BY <2>1
<1>11. \A m \in DOMAIN s : m # i => \E o \in DOMAIN t : From(o) = m
  <2> SUFFICES ASSUME NEW m \in DOMAIN s, m # i PROVE \E o \in DOMAIN t : From(o) = m
    OBVIOUS
  <2>1. m \in 1..Len(s) /\ i \in 1..Len(s) /\ Len(s) \in Nat
    BY <1>7
  <2>2. CASE m < i
    <3>1. m \in DOMAIN t
      BY <1>8, <2>1, <2>2
    <3> QED BY <2>2, <3>1
  <2>3. CASE ~(m < i)
    <3>1. m - 1 \in 1..(Len(s) - 1) /\ ~(m - 1 < i) /\ (m - 1) + 1 = m
      BY <2>1, <2>3
    <3> QED BY <1>8, <3>1
  <2> QED BY <2>2, <2>3
<1> HIDE DEF From
<1>12. \A m \in DOMAIN s : s[m] = e => m = i
  BY <1>4, <1>5 DEF LinedOnce, s
<1>13. \A m \in DOMAIN t : t[m] # e
  BY <1>9, <1>12
<1>14. \A k \in DOMAIN line : k # n => \A m \in DOMAIN line[k] : line[k][m] # e
  BY DEF InLines
<1>15. InLines'
  <2> SUFFICES ASSUME NEW k \in DOMAIN line, NEW m \in DOMAIN line'[k]
               PROVE  /\ line'[k][m] \in Execs
                      /\ lock[line'[k][m]] = k /\ pc'[line'[k][m]] \in InLine
    BY <1>6 DEF InLines
  <2>1. CASE k # n
    BY <1>1, <1>6, <1>14, <2>1 DEF InLines
  <2>2. CASE k = n
    <3>1. line'[k][m] = s[From(m)] /\ From(m) \in DOMAIN s /\ line'[k][m] # e
      BY <1>6, <1>9, <1>13, <2>2
    <3>2. s[From(m)] \in Execs /\ lock[s[From(m)]] = n /\ pc[s[From(m)]] \in InLine
      BY <1>4, <3>1 DEF InLines, s
    <3> QED BY <1>1, <2>2, <3>1, <3>2
  <2> QED BY <2>1, <2>2
<1>16. LinedOnce'
  <2> SUFFICES ASSUME NEW k \in DOMAIN line, NEW m \in DOMAIN line'[k],
                      NEW o \in DOMAIN line'[k], line'[k][m] = line'[k][o]
               PROVE  m = o
    BY <1>6 DEF LinedOnce
  <2>1. CASE k # n
    BY <1>6, <2>1 DEF LinedOnce
  <2>2. CASE k = n
    <3>1. s[From(m)] = s[From(o)] /\ From(m) \in DOMAIN s /\ From(o) \in DOMAIN s
      BY <1>6, <1>9, <2>2
    <3>2. From(m) = From(o)
      BY <1>4, <3>1 DEF LinedOnce, s
    <3> QED BY <1>6, <1>10, <2>2, <3>2
  <2> QED BY <2>1, <2>2
<1>17. ASSUME NEW d \in Execs, pc'[d] \in InLine, lock[d] # 0
       PROVE  /\ d # e /\ pc[d] \in InLine
              /\ \E m \in DOMAIN line'[lock[d]] : line'[lock[d]][m] = d
  <2>1. d # e /\ pc[d] \in InLine
    BY <1>1, <1>2, <1>17
  <2>2. PICK m \in DOMAIN line[lock[d]] : line[lock[d]][m] = d
    BY <1>17, <2>1 DEF Waiting
  <2>3. lock[d] \in DOMAIN line
    BY <1>17, <2>1, CallFacts
  <2>4. CASE lock[d] # n
    BY <1>6, <2>1, <2>2, <2>3, <2>4
  <2>5. CASE lock[d] = n
    <3>1. m \in DOMAIN s /\ s[m] = d /\ m # i
      BY <1>5, <2>1, <2>2, <2>5 DEF s
    <3>2. PICK o \in DOMAIN t : From(o) = m
      BY <1>11, <3>1
    <3>3. t[o] = d
      BY <1>9, <3>1, <3>2
    <3> QED BY <1>6, <2>1, <2>5, <3>3
  <2> QED BY <2>4, <2>5
<1>18. Waiting'
  BY <1>17 DEF Waiting
<1>19. HolderFirst'
  <2> SUFFICES ASSUME NEW d \in Execs, pc'[d] \in Holding, lock[d] # 0
               PROVE  Head(line'[lock[d]]) = d
    BY DEF HolderFirst
  <2>1. d # e /\ pc[d] \in Holding
    BY <1>1, <1>2, PhasesDiffer
  <2>2. Head(line[lock[d]]) = d /\ lock[d] \in DOMAIN line
    BY <2>1, CallFacts, PhasesDiffer DEF HolderFirst
  <2>3. CASE lock[d] # n
    BY <1>6, <2>2, <2>3
  <2>4. CASE lock[d] = n
    <3>1. s[1] = d /\ 1 # i
      <4>1. Head(s) = s[1]
        BY <1>4, TailFacts
      <4> QED BY <1>5, <2>1, <2>2, <2>4, <4>1 DEF s
    <3>2. 1 < i /\ 1 \in 1..(Len(s) - 1)
      <4>1. i \in 1..Len(s) /\ Len(s) \in Nat
        BY <1>7
      <4> QED BY <3>1, <4>1
    <3>3. t[1] = d
      BY <1>7, <3>1, <3>2
    <3>4. t # <<>>
      <4>1. Len(t) # 0
        BY <1>7, <3>2
      <4> QED BY <1>7, <4>1, SeqFacts
    <3>5. Head(t) = t[1]
      BY <1>7, <3>4, TailFacts
    <3> QED BY <1>6, <2>4, <3>3, <3>5
  <2> QED BY <2>3, <2>4
<1>20. line' \in Seq(Seq(Execs)) /\ Len(line') = Len(line)
  <2>1. line \in Seq(Seq(Execs))
    BY DEF PoolTypes
  <2> HIDE DEF PoolInv, Lines
  <2>2. n \in 1..Len(line)
    BY <1>4, TypeFacts
  <2> QED BY <1>5, <1>7, <2>1, <2>2, ExceptSeq DEF t
<1> QED BY <1>3, <1>6, <1>15, <1>16, <1>18, <1>19, <1>20

\* A call that has picked a container joins the line of the semaphore with the
\* same index, if there is one.
LEMMA LinesJoined ==
  ASSUME PoolInv, NEW e \in Execs, pc[e] \in {"idle"} \cup StartPhases, NEW i \in Nat, i # 0,
         pc' = [pc EXCEPT ![e] = "queued"],
         NEW p \in DOMAIN dicts, at' = [at EXCEPT ![e] = p],
         \/ /\ i <= Len(line)
            /\ lock' = [lock EXCEPT ![e] = i]
            /\ line' = [line EXCEPT ![i] = Append(line[i], e)]
         \/ lock' = lock /\ line' = line
  PROVE  Lines'
<1> USE DEF PoolInv, Lines
<1>1. /\ pc'[e] = "queued"
      /\ \A d \in Execs : d # e => pc'[d] = pc[d]
      /\ at'[e] = p
      /\ \A d \in Execs : d # e => at'[d] = at[d]
  <2>1. pc \in [Callers -> {"idle", "returned", "withdrawn", "cancelled"} \cup StartPhases \cup InLine] /\ e \in Callers
    BY CallFacts DEF Phases
  <2>2. at \in [Execs -> 0..Len(dicts)]
    BY DEF PoolTypes
  <2> QED BY <2>1, <2>2 DEF Callers
<1>2. p # 0
  BY TypeFacts
<1>3. pc[e] \notin InLine /\ lock[e] = 0
  BY PhasesDiffer DEF Picked
<1>4. \A k \in DOMAIN line : \A m \in DOMAIN line[k] : line[k][m] # e
  BY <1>3 DEF InLines
<1>5. "queued" \notin {"idle"} \cup StartPhases /\ "queued" \in InLine /\ "queued" \notin Holding
  BY DEF StartPhases, InLine, Holding, Recycling
<1>6. ASSUME NEW d \in Execs, pc'[d] \in Holding
      PROVE  d # e /\ pc[d] \in Holding
  BY <1>1, <1>5, <1>6
<1>7. CASE lock' = lock /\ line' = line
  <2>1. Picked'
    BY <1>1, <1>2, <1>5, <1>7 DEF Picked
  <2>2. InLines' /\ LinedOnce'
    BY <1>1, <1>4, <1>7 DEF InLines, LinedOnce
  <2>3. Waiting'
    BY <1>1, <1>3, <1>7 DEF Waiting
  <2>4. HolderFirst'
    BY <1>6, <1>7 DEF HolderFirst
  <2> QED BY <2>1, <2>2, <2>3, <2>4
<1>8. CASE /\ i <= Len(line)
           /\ lock' = [lock EXCEPT ![e] = i]
           /\ line' = [line EXCEPT ![i] = Append(line[i], e)]
  <2>1. i \in DOMAIN line /\ line[i] \in Seq(Execs)
    BY <1>8, TypeFacts
  <2> DEFINE s == line[i]
             t == Append(line[i], e)
             n == Len(s) + 1
  <2>2. /\ lock'[e] = i
        /\ \A d \in Execs : d # e => lock'[d] = lock[d]
        /\ DOMAIN line' = DOMAIN line
        /\ line'[i] = t
        /\ \A k \in DOMAIN line : k # i => line'[k] = line[k]
    BY <1>8, <2>1 DEF PoolTypes
  <2>3. /\ Len(s) \in Nat /\ DOMAIN s = 1..Len(s) /\ DOMAIN t = 1..n
        /\ \A m \in DOMAIN s : t[m] = s[m]
        /\ t[n] = e
    BY <2>1, AppendFacts, SeqFacts
  <2>4. /\ \A m \in DOMAIN t : m \in DOMAIN s \/ m = n
        /\ n \notin DOMAIN s /\ n \in DOMAIN t
    BY <2>3
  <2>5. s # <<>> => Head(t) = Head(s)
    <3>1. Head(t) = IF s = <<>> THEN e ELSE Head(s)
      BY <2>1, HeadTailAppend
    <3> QED BY <3>1
  <2> HIDE DEF t, n, s
  <2>6. Picked'
    BY <1>1, <1>2, <1>5, <2>2 DEF Picked
  <2>7. InLines'
    <3> SUFFICES ASSUME NEW k \in DOMAIN line, NEW m \in DOMAIN line'[k]
                 PROVE  /\ line'[k][m] \in Execs
                        /\ lock'[line'[k][m]] = k /\ pc'[line'[k][m]] \in InLine
      BY <2>2 DEF InLines
    <3>1. CASE k # i
      BY <1>1, <1>4, <2>2, <3>1 DEF InLines
    <3>2. CASE k = i /\ m \in DOMAIN s
      <4>1. line'[k][m] = line[k][m] /\ m \in DOMAIN line[k]
        BY <2>2, <2>3, <3>2 DEF s
      <4>2. line[k][m] \in Execs /\ line[k][m] # e /\ lock[line[k][m]] = k /\ pc[line[k][m]] \in InLine
        BY <1>4, <4>1 DEF InLines
      <4> QED BY <1>1, <2>2, <4>1, <4>2
    <3>3. CASE k = i /\ m = n
      BY <1>1, <1>5, <2>2, <2>3, <3>3
    <3> QED BY <2>2, <2>4, <3>1, <3>2, <3>3
  <2>8. LinedOnce'
    <3> SUFFICES ASSUME NEW k \in DOMAIN line, NEW m \in DOMAIN line'[k],
                        NEW o \in DOMAIN line'[k], line'[k][m] = line'[k][o]
                 PROVE  m = o
      BY <2>2 DEF LinedOnce
    <3>1. CASE k # i
      BY <2>2, <3>1 DEF LinedOnce
    <3>2. CASE k = i
      <4>1. t[m] = t[o] /\ m \in DOMAIN t /\ o \in DOMAIN t
        BY <2>2, <3>2
      <4>2. \A q \in DOMAIN s : t[q] # e /\ t[q] = line[i][q] /\ q \in DOMAIN line[i]
        BY <1>4, <2>1, <2>3 DEF s
      <4>3. CASE m \in DOMAIN s /\ o \in DOMAIN s
        BY <2>1, <4>1, <4>2, <4>3 DEF LinedOnce
      <4>4. CASE m = n
        BY <2>3, <2>4, <4>1, <4>2, <4>4
      <4>5. CASE o = n
        BY <2>3, <2>4, <4>1, <4>2, <4>5
      <4> QED BY <2>4, <4>1, <4>3, <4>4, <4>5
    <3> QED BY <3>1, <3>2
  <2>9. Waiting'
    <3> SUFFICES ASSUME NEW d \in Execs, pc'[d] \in InLine, lock'[d] # 0
                 PROVE  \E m \in DOMAIN line'[lock'[d]] : line'[lock'[d]][m] = d
      BY DEF Waiting
    <3>1. CASE d = e
      BY <2>2, <2>3, <2>4, <3>1
    <3>2. CASE d # e
      <4>1. pc[d] \in InLine /\ lock'[d] = lock[d] /\ lock[d] # 0
        BY <1>1, <2>2, <3>2
      <4>2. PICK m \in DOMAIN line[lock[d]] : line[lock[d]][m] = d
        BY <4>1 DEF Waiting
      <4>3. lock[d] \in DOMAIN line
        BY <4>1, CallFacts
      <4>4. CASE lock[d] = i
        BY <2>2, <2>3, <2>4, <4>1, <4>2, <4>4, SMTT(60) DEF s, t, n
      <4>5. CASE lock[d] # i
        BY <2>2, <4>1, <4>2, <4>3, <4>5
      <4> QED BY <4>4, <4>5
    <3> QED BY <3>1, <3>2
  <2>10. HolderFirst'
    <3> SUFFICES ASSUME NEW d \in Execs, pc'[d] \in Holding, lock'[d] # 0
                 PROVE  Head(line'[lock'[d]]) = d
      BY DEF HolderFirst
    <3>1. d # e /\ pc[d] \in Holding
      BY <1>6
    <3>2. lock'[d] = lock[d] /\ Head(line[lock[d]]) = d
      BY <2>2, <3>1 DEF HolderFirst
    <3>3. lock[d] \in DOMAIN line /\ line[lock[d]] # <<>>
      BY <3>1, <3>2, CallFacts, PhasesDiffer
    <3>4. CASE lock[d] = i
      BY <2>2, <2>5, <3>2, <3>3, <3>4 DEF s
    <3>5. CASE lock[d] # i
      BY <2>2, <3>2, <3>3, <3>5
    <3> QED BY <3>4, <3>5
  <2> QED BY <2>6, <2>7, <2>8, <2>9, <2>10
<1> QED BY <1>7, <1>8

-------------------------------------------------------------------------------
(***************************************************************************)
(* The type invariant and the phases, in parts.                            *)
(***************************************************************************)

ListTypes == /\ dicts \in Seq(Dict) /\ pool \in Seq(DOMAIN dicts)
             /\ nextIdx \in Nat /\ line \in Seq(Seq(Execs))
FlagTypes == started \in BOOLEAN /\ locked \in BOOLEAN /\ overlapped \in BOOLEAN
DockerTypes == alive \subseteq Names /\ suspect \subseteq Names /\ hit \subseteq Execs
CallTypes == /\ startAt \in [Callers -> 1..(setup.poolSize + 1)]
             /\ at \in [Execs -> 0..Len(dicts)]
             /\ lock \in [Execs -> 0..Len(line)]
             /\ outcome \in [Execs -> {"none", "exit", "timeout"}]
             /\ result \in [Execs -> {"none", "exit", "timeout", "failed", "none available"}]

\* The type invariant is these four.
LEMMA TypeParts == PoolTypes <=> ListTypes /\ FlagTypes /\ DockerTypes /\ CallTypes
BY DEF PoolTypes, ListTypes, FlagTypes, DockerTypes, CallTypes

\* The same in the next state.
LEMMA TypePartsNext ==
  ASSUME ListTypes', FlagTypes', DockerTypes', CallTypes'
  PROVE  PoolTypes'
BY DEF PoolTypes, ListTypes, FlagTypes, DockerTypes, CallTypes

\* Where a call goes when its step moves it to q.
LEMMA Moved ==
  ASSUME PoolInv, NEW c \in Callers, NEW q, pc' = [pc EXCEPT ![c] = q]
  PROVE  /\ pc'[c] = q /\ \A d \in Callers : d # c => pc'[d] = pc[d]
         /\ \A d \in Execs : d # c => pc'[d] = pc[d]
         /\ \A d \in Warmups : d # c => pc'[d] = pc[d]
<1>1. pc \in [Callers -> {"idle", "returned", "withdrawn", "cancelled"} \cup StartPhases \cup InLine]
  BY DEF PoolInv, Phases
<1>2. DOMAIN pc = Callers
  BY <1>1
<1>3. pc'[c] = q /\ \A d \in Callers : d # c => pc'[d] = pc[d]
  BY <1>2
<1> QED BY <1>3 DEF Callers

\* The phases after a step of a call of execute() that is not in start().
LEMMA PhasesOfExec ==
  ASSUME PoolInv, NEW e \in Execs, NEW q \in {"returned", "withdrawn", "cancelled"} \cup InLine,
         pc' = [pc EXCEPT ![e] = q], startAt' = startAt, setup' = setup,
         slot' \in [Execs -> Nat], faults' \in Nat, timeouts' \in Nat,
         cleaning' = cleaning, cleanups' = cleanups
  PROVE  Phases'
<1>1. e \in Callers /\ e \notin Warmups
  BY WarmPoolAssumption DEF Callers
<1>2. pc'[e] = q /\ \A d \in Callers : d # e => pc'[d] = pc[d]
  BY <1>1, Moved
<1>3. pc' \in [Callers -> {"idle", "returned", "withdrawn", "cancelled"} \cup StartPhases \cup InLine]
  BY <1>1 DEF PoolInv, Phases
<1>4. \A c \in Warmups : pc'[c] \notin InLine
  BY <1>1, <1>2 DEF PoolInv, Phases, Callers
<1>5. \A c \in Callers :
        /\ pc'[c] = "idle" => startAt'[c] = 1
        /\ pc'[c] \in {"removing old", "starting"} => startAt'[c] <= setup'.poolSize
  <2>1. q \notin {"idle", "removing old", "starting"}
    BY DEF InLine, Holding, Recycling
  <2>2. \A c \in Callers :
          /\ pc[c] = "idle" => startAt[c] = 1
          /\ pc[c] \in {"removing old", "starting"} => startAt[c] <= setup.poolSize
    BY DEF PoolInv, Phases
  <2> QED BY <1>2, <2>1, <2>2
<1>6. /\ setup' \in Setups
      /\ cleaning' \in Nat /\ cleanups' \in Nat
      /\ cleaning' # 0 => cleanups' # 0
  BY DEF PoolInv, Phases
<1> QED BY <1>3, <1>4, <1>5, <1>6 DEF Phases

\* The phases after a step of start().
LEMMA PhasesOfStart ==
  ASSUME PoolInv, NEW c \in Callers, NEW q \in {"returned", "withdrawn", "cancelled"} \cup StartPhases,
         pc' = [pc EXCEPT ![c] = q], setup' = setup,
         q \in {"removing old", "starting"} => startAt'[c] <= setup.poolSize,
         \A d \in Callers : d # c => startAt'[d] = startAt[d],
         slot' = slot, faults' \in Nat, timeouts' \in Nat,
         cleaning' = cleaning, cleanups' = cleanups
  PROVE  Phases'
<1>2. pc'[c] = q /\ \A d \in Callers : d # c => pc'[d] = pc[d]
  BY Moved
<1>3. pc' \in [Callers -> {"idle", "returned", "withdrawn", "cancelled"} \cup StartPhases \cup InLine]
  BY DEF PoolInv, Phases
<1>4. \A d \in Warmups : pc'[d] \notin InLine
  BY <1>2, PhasesDiffer DEF PoolInv, Phases, Callers
<1>5. \A d \in Callers :
        /\ pc'[d] = "idle" => startAt'[d] = 1
        /\ pc'[d] \in {"removing old", "starting"} => startAt'[d] <= setup'.poolSize
  <2>1. q # "idle"
    BY PhasesDiffer
  <2>2. \A d \in Callers :
          /\ pc[d] = "idle" => startAt[d] = 1
          /\ pc[d] \in {"removing old", "starting"} => startAt[d] <= setup.poolSize
    BY DEF PoolInv, Phases
  <2> QED BY <1>2, <2>1, <2>2
<1>6. /\ setup' \in Setups /\ slot' \in [Execs -> Nat]
      /\ cleaning' \in Nat /\ cleanups' \in Nat
      /\ cleaning' # 0 => cleanups' # 0
  BY DEF PoolInv, Phases
<1> QED BY <1>3, <1>4, <1>5, <1>6 DEF Phases

\* A command that fails is counted.
LEMMA FaultCounted ==
  ASSUME PoolInv, NEW n, RunRefused(n)
  PROVE  faults' \in Nat /\ (faults' = faults \/ faults' = faults + 1)
<1>1. faults \in Nat
  BY DEF PoolInv, Phases
<1>2. faults' = faults \/ faults' = faults + 1
  BY DEF RunRefused, Fault
<1> QED BY <1>1, <1>2

\* The choice of _get_container(): an entry of the list, and the semaphore
\* with its index if there is one.
LEMMA PickEffect ==
  ASSUME PoolInv, NEW e \in Execs, pool # <<>>, Pick(e)
  PROVE  \E i \in DOMAIN pool :
           /\ nextIdx' = nextIdx + 1
           /\ at' = [at EXCEPT ![e] = pool[i]]
           /\ (locked' /\ i <= Len(line)) =>
                /\ lock' = [lock EXCEPT ![e] = i]
                /\ line' = [line EXCEPT ![i] = Append(line[i], e)]
           /\ ~(locked' /\ i <= Len(line)) => lock' = lock /\ line' = line
           /\ pc' = [pc EXCEPT ![e] = "queued"]
<1> DEFINE i == 1 + (nextIdx % Len(pool))
<1>1. nextIdx \in Nat /\ Len(pool) \in Nat \ {0} /\ DOMAIN pool = 1..Len(pool)
  BY TypeFacts DEF PoolInv, PoolTypes
<1>2. nextIdx % Len(pool) \in 0..(Len(pool) - 1)
  BY <1>1
<1>3. i \in DOMAIN pool
  BY <1>1, <1>2
<1>4. /\ nextIdx' = nextIdx + 1
      /\ at' = [at EXCEPT ![e] = pool[i]]
      /\ IF locked' /\ i <= Len(line)
         THEN /\ lock' = [lock EXCEPT ![e] = i]
              /\ line' = [line EXCEPT ![i] = Append(line[i], e)]
         ELSE lock' = lock /\ line' = line
      /\ pc' = [pc EXCEPT ![e] = "queued"]
  BY DEF Pick
<1> HIDE DEF i
<1> QED BY <1>3, <1>4

\* After it: the types of the lists and of the calls, and the lines.
LEMMA PickTypes ==
  ASSUME PoolInv, NEW e \in Execs, pool # <<>>, Pick(e), setup' = setup,
         pc[e] \in {"idle"} \cup StartPhases,
         pool' = pool, dicts' = dicts, startAt' = startAt,
         outcome' = outcome, result' = result
  PROVE  ListTypes' /\ CallTypes' /\ Lines'
<1>1. PICK i \in DOMAIN pool :
        /\ nextIdx' = nextIdx + 1
        /\ at' = [at EXCEPT ![e] = pool[i]]
        /\ (locked' /\ i <= Len(line)) =>
             /\ lock' = [lock EXCEPT ![e] = i]
             /\ line' = [line EXCEPT ![i] = Append(line[i], e)]
        /\ ~(locked' /\ i <= Len(line)) => lock' = lock /\ line' = line
        /\ pc' = [pc EXCEPT ![e] = "queued"]
  BY PickEffect
<1>2. \/ /\ i <= Len(line)
         /\ lock' = [lock EXCEPT ![e] = i]
         /\ line' = [line EXCEPT ![i] = Append(line[i], e)]
      \/ lock' = lock /\ line' = line
  BY <1>1
<1>3. ListTypes /\ CallTypes
  BY TypeParts DEF PoolInv
<1>4. i \in Nat /\ i # 0 /\ pool[i] \in DOMAIN dicts /\ pool[i] \in 0..Len(dicts)
  BY TypeFacts
<1>5. line' \in Seq(Seq(Execs)) /\ Len(line') = Len(line) /\ lock' \in [Execs -> 0..Len(line)]
  <2>1. CASE lock' = lock /\ line' = line
    BY <1>3, <2>1 DEF ListTypes, CallTypes
  <2>2. CASE /\ i <= Len(line)
             /\ lock' = [lock EXCEPT ![e] = i]
             /\ line' = [line EXCEPT ![i] = Append(line[i], e)]
    <3>1. i \in DOMAIN line /\ i \in 1..Len(line) /\ line[i] \in Seq(Execs)
      BY <1>4, <2>2, TypeFacts
    <3>2. Append(line[i], e) \in Seq(Execs)
      BY <3>1, AppendProperties
    <3>3. line' \in Seq(Seq(Execs)) /\ Len(line') = Len(line)
      BY <1>3, <2>2, <3>1, <3>2, ExceptSeq DEF ListTypes
    <3>4. lock' \in [Execs -> 0..Len(line)]
      <4>1. i \in 0..Len(line)
        BY <3>1
      <4>2. lock \in [Execs -> 0..Len(line)]
        BY <1>3 DEF CallTypes
      <4> QED BY <2>2, <4>1, <4>2
    <3> QED BY <3>3, <3>4
  <2> QED BY <1>2, <2>1, <2>2
<1>6. ListTypes'
  BY <1>1, <1>3, <1>5 DEF ListTypes, Dict, Names
<1>7. CallTypes'
  <2>1. at' \in [Execs -> 0..Len(dicts)]
    BY <1>1, <1>3, <1>4 DEF CallTypes
  <2> QED BY <1>3, <1>5, <2>1 DEF CallTypes
<1>8. Lines'
  BY <1>1, <1>2, <1>4, LinesJoined
<1> QED BY <1>6, <1>7, <1>8

-------------------------------------------------------------------------------
(***************************************************************************)
(* Each step keeps the types, the phases and the lines.                    *)
(***************************************************************************)

\* A call enters a pool that has containers.
LEMMA ExecuteWarmPool ==
  ASSUME PoolInv, NEW e \in Execs, ExecuteWarm(e)
  PROVE  PoolInv'
<1>1. /\ pc[e] = "idle" /\ pool # <<>> /\ setup' = setup /\ Pick(e)
      /\ pool' = pool /\ dicts' = dicts /\ startAt' = startAt /\ slot' = slot
      /\ outcome' = outcome /\ result' = result /\ cleaning' = cleaning
      /\ faults' = faults /\ timeouts' = timeouts /\ cleanups' = cleanups
      /\ pc' = [pc EXCEPT ![e] = "queued"]
  BY DEF ExecuteWarm, Enter, boundVars, Pick
<1>2. started' = started /\ locked' = locked
  BY DEF ExecuteWarm
<1>3. overlapped' = (overlapped \/ InFlight # {})
  BY DEF ExecuteWarm, Enter
<1>4. alive' = alive /\ suspect' = suspect /\ hit' = hit
  BY DEF ExecuteWarm, dockerVars
<1>5. ListTypes' /\ CallTypes' /\ Lines'
  BY <1>1, PickTypes
<1>6. FlagTypes /\ DockerTypes
  BY TypeParts DEF PoolInv
<1>7. FlagTypes'
  BY <1>2, <1>3, <1>6 DEF FlagTypes
<1>8. DockerTypes'
  BY <1>1, <1>4, <1>6 DEF DockerTypes, Names
<1>9. Phases'
  <2>1. "queued" \in {"returned", "withdrawn", "cancelled"} \cup InLine
    BY DEF InLine
  <2>2. slot \in [Execs -> Nat] /\ faults \in Nat /\ timeouts \in Nat
    BY DEF PoolInv, Phases
  <2> QED BY <1>1, <2>1, <2>2, PhasesOfExec
<1> QED BY <1>5, <1>7, <1>8, <1>9, TypePartsNext DEF PoolInv

\* A call enters an empty pool: it starts the pool, or returns at once.
LEMMA ExecuteColdPool ==
  ASSUME PoolInv, NEW e \in Execs, ExecuteCold(e)
  PROVE  PoolInv'
<1>1. /\ pc[e] = "idle" /\ setup' = setup
      /\ pool' = pool /\ dicts' = dicts /\ nextIdx' = nextIdx /\ line' = line
      /\ startAt' = startAt /\ slot' = slot /\ at' = at /\ lock' = lock
      /\ outcome' = outcome /\ cleaning' = cleaning
      /\ faults' = faults /\ timeouts' = timeouts /\ cleanups' = cleanups
  BY DEF ExecuteCold, Enter, boundVars, listVars
<1>2. started' = started /\ locked' = locked
  BY DEF ExecuteCold, listVars
<1>3. overlapped' = (overlapped \/ InFlight # {})
  BY DEF ExecuteCold, Enter
<1>4. alive' = alive /\ suspect' = suspect /\ hit' = hit
  BY DEF ExecuteCold, dockerVars
<1>5. \/ pc' = [pc EXCEPT ![e] = "returned"] /\ result' = [result EXCEPT ![e] = "none available"]
      \/ pc' = [pc EXCEPT ![e] = "removing old"] /\ result' = result
  BY DEF ExecuteCold, NoContainer
<1>6. ListTypes /\ FlagTypes /\ DockerTypes /\ CallTypes
  BY TypeParts DEF PoolInv
<1>7. ListTypes'
  BY <1>1, <1>6 DEF ListTypes, Dict, Names
<1>8. FlagTypes'
  BY <1>2, <1>3, <1>6 DEF FlagTypes
<1>9. DockerTypes'
  BY <1>1, <1>4, <1>6 DEF DockerTypes, Names
<1>10. CallTypes'
  <2>1. result' \in [Execs -> {"none", "exit", "timeout", "failed", "none available"}]
    BY <1>5, <1>6 DEF CallTypes
  <2> QED BY <1>1, <1>6, <2>1 DEF CallTypes
<1>11. e \in Callers
  BY DEF Callers
<1>12. PICK q \in {"returned", "removing old"} : pc' = [pc EXCEPT ![e] = q]
  BY <1>5
<1>13. Phases'
  <2>1. q \in {"returned", "withdrawn", "cancelled"} \cup StartPhases
    BY <1>12 DEF StartPhases
  <2>2. startAt[e] = 1 /\ 1 <= setup.poolSize
    BY <1>1, <1>11, TypeFacts DEF PoolInv, Phases
  <2>3. startAt'[e] <= setup.poolSize
    <3>1. startAt'[e] = 1
      BY <1>1, <2>2
    <3>2. 1 <= setup.poolSize
      BY <2>2
    <3> QED BY <3>1, <3>2
  <2>4. faults' \in Nat /\ timeouts' \in Nat
    BY <1>1 DEF PoolInv, Phases
  <2> QED BY <1>1, <1>11, <1>12, <2>1, <2>3, <2>4, PhasesOfStart
<1>14. Lines'
  <2>1. pc'[e] = q /\ \A d \in Execs : d # e => pc'[d] = pc[d]
    BY <1>11, <1>12, Moved
  <2>2. q \notin InLine /\ q \notin Holding /\ pc[e] \notin InLine
    BY <1>1 DEF InLine, Holding, Recycling
  <2>3. pc[e] \in {"idle"} \cup StartPhases
    BY <1>1
  <2> QED BY <1>1, <2>1, <2>2, <2>3, LinesUntouched
<1> QED BY <1>7, <1>8, <1>9, <1>10, <1>13, <1>14, TypePartsNext DEF PoolInv

\* The orchestrator starts the pool.
LEMMA WarmupPool ==
  ASSUME PoolInv, NEW c \in Warmups, Warmup(c)
  PROVE  PoolInv'
<1>1. /\ pc[c] = "idle" /\ setup' = setup
      /\ pool' = pool /\ dicts' = dicts /\ nextIdx' = nextIdx /\ line' = line
      /\ startAt' = startAt /\ slot' = slot /\ at' = at /\ lock' = lock
      /\ outcome' = outcome /\ result' = result /\ cleaning' = cleaning
      /\ faults' = faults /\ timeouts' = timeouts /\ cleanups' = cleanups
      /\ pc' = [pc EXCEPT ![c] = "removing old"]
  BY DEF Warmup, boundVars, listVars, callVars
<1>2. started' = started /\ locked' = locked
  BY DEF Warmup, listVars
<1>3. overlapped' = overlapped
  BY DEF Warmup
<1>4. alive' = alive /\ suspect' = suspect /\ hit' = hit
  BY DEF Warmup, dockerVars
<1>6. ListTypes /\ FlagTypes /\ DockerTypes /\ CallTypes
  BY TypeParts DEF PoolInv
<1>7. ListTypes'
  BY <1>1, <1>6 DEF ListTypes, Dict, Names
<1>8. FlagTypes'
  BY <1>2, <1>3, <1>6 DEF FlagTypes
<1>9. DockerTypes'
  BY <1>1, <1>4, <1>6 DEF DockerTypes, Names
<1>10. CallTypes'
  BY <1>1, <1>6 DEF CallTypes
<1>11. c \in Callers /\ c \notin Execs
  BY WarmPoolAssumption DEF Callers
<1>13. Phases'
  <2>1. "removing old" \in {"returned", "withdrawn", "cancelled"} \cup StartPhases
    BY DEF StartPhases
  <2>2. startAt[c] = 1 /\ 1 <= setup.poolSize
    BY <1>1, <1>11, TypeFacts DEF PoolInv, Phases
  <2>3. startAt'[c] <= setup.poolSize
    <3>1. startAt'[c] = 1
      BY <1>1, <2>2
    <3>2. 1 <= setup.poolSize
      BY <2>2
    <3> QED BY <3>1, <3>2
  <2>4. faults' \in Nat /\ timeouts' \in Nat
    BY <1>1 DEF PoolInv, Phases
  <2> QED BY <1>1, <1>11, <2>1, <2>3, <2>4, PhasesOfStart
<1>14. Lines'
  <2>1. \A d \in Execs : pc'[d] = pc[d]
    BY <1>1, <1>11, Moved
  <2> QED BY <1>1, <2>1, LinesUntouched
<1> QED BY <1>7, <1>8, <1>9, <1>10, <1>13, <1>14, TypePartsNext DEF PoolInv

\* docker rm -f of a name, in start().
LEMMA StartRemovesPool ==
  ASSUME PoolInv, NEW c \in Callers, StartRemoves(c)
  PROVE  PoolInv'
<1>1. /\ pc[c] = "removing old" /\ setup' = setup
      /\ pool' = pool /\ dicts' = dicts /\ nextIdx' = nextIdx /\ line' = line
      /\ startAt' = startAt /\ slot' = slot /\ at' = at /\ lock' = lock
      /\ outcome' = outcome /\ result' = result /\ cleaning' = cleaning
      /\ faults' = faults /\ timeouts' = timeouts /\ cleanups' = cleanups
      /\ pc' = [pc EXCEPT ![c] = "starting"]
  BY DEF StartRemoves, boundVars, listVars, callVars
<1>2. started' = started /\ locked' = locked
  BY DEF StartRemoves, listVars
<1>3. overlapped' = overlapped
  BY DEF StartRemoves
<1>4. /\ alive' = alive \ {startAt[c]} /\ suspect' = suspect
      /\ hit' = hit \cup Inside(startAt[c])
  BY DEF StartRemoves, Removed, Emptied
<1>6. ListTypes /\ FlagTypes /\ DockerTypes /\ CallTypes
  BY TypeParts DEF PoolInv
<1>7. ListTypes'
  BY <1>1, <1>6 DEF ListTypes, Dict, Names
<1>8. FlagTypes'
  BY <1>2, <1>3, <1>6 DEF FlagTypes
<1>9. DockerTypes'
  BY <1>1, <1>4, <1>6 DEF DockerTypes, Names, Inside
<1>10. CallTypes'
  BY <1>1, <1>6 DEF CallTypes
<1>13. Phases'
  <2>1. "starting" \in {"returned", "withdrawn", "cancelled"} \cup StartPhases
    BY DEF StartPhases
  <2>3. startAt'[c] <= setup.poolSize
    BY <1>1 DEF PoolInv, Phases
  <2>4. faults' \in Nat /\ timeouts' \in Nat
    BY <1>1 DEF PoolInv, Phases
  <2> QED BY <1>1, <2>1, <2>3, <2>4, PhasesOfStart
<1>14. Lines'
  <2>1. pc'[c] = "starting" /\ \A d \in Execs : d # c => pc'[d] = pc[d]
    BY <1>1, Moved
  <2>2. "starting" \notin InLine /\ "starting" \notin Holding /\ pc[c] \notin InLine
    BY <1>1 DEF InLine, Holding, Recycling
  <2>3. pc[c] \in {"idle"} \cup StartPhases
    BY <1>1 DEF StartPhases
  <2> QED BY <1>1, <2>1, <2>2, <2>3, LinesUntouched
<1> QED BY <1>7, <1>8, <1>9, <1>10, <1>13, <1>14, TypePartsNext DEF PoolInv

\* A list of dictionaries with one more.
LEMMA DictAdded ==
  ASSUME PoolInv, NEW n \in Names, dicts' = Append(dicts, [name |-> n, uses |-> 0])
  PROVE  /\ dicts' \in Seq(Dict) /\ Len(dicts') = Len(dicts) + 1
         /\ DOMAIN dicts' = 1..(Len(dicts) + 1)
         /\ \A d \in DOMAIN dicts : dicts'[d] = dicts[d] /\ d \in DOMAIN dicts'
         /\ dicts'[Len(dicts) + 1].name = n
<1>1. [name |-> n, uses |-> 0] \in Dict
  BY DEF Dict
<1>2. dicts \in Seq(Dict)
  BY DEF PoolInv, PoolTypes
<1>3. /\ dicts' \in Seq(Dict) /\ Len(dicts') = Len(dicts) + 1
      /\ DOMAIN dicts' = 1..(Len(dicts) + 1)
      /\ \A d \in DOMAIN dicts : dicts'[d] = dicts[d]
      /\ dicts'[Len(dicts) + 1] = [name |-> n, uses |-> 0]
  BY <1>1, <1>2, AppendFacts
<1> QED BY <1>3, TypeFacts

\* A use counted leaves the list of dictionaries and their names.
LEMMA DictUsed ==
  ASSUME PoolInv, NEW e \in Execs, pc[e] \in InLine, dicts' = Used(e)
  PROVE  /\ dicts' \in Seq(Dict) /\ Len(dicts') = Len(dicts)
         /\ DOMAIN dicts' = DOMAIN dicts
         /\ \A d \in DOMAIN dicts : dicts'[d].name = dicts[d].name
<1>1. at[e] \in DOMAIN dicts /\ dicts[at[e]] \in Dict
  BY CallFacts, TypeFacts
<1>2. dicts \in Seq(Dict)
  BY DEF PoolInv, PoolTypes
<1> DEFINE r == [dicts[at[e]] EXCEPT !.uses = dicts[at[e]].uses + 1]
<1>3. r \in Dict /\ r.name = dicts[at[e]].name
  BY <1>1 DEF Dict
<1>4. dicts' = dicts \/ dicts' = [dicts EXCEPT ![at[e]] = r]
  BY <1>1 DEF Used, Dict
<1> HIDE DEF r
<1>5. CASE dicts' = dicts
  BY <1>2, <1>5
<1>6. CASE dicts' = [dicts EXCEPT ![at[e]] = r]
  <2>1. dicts' \in Seq(Dict) /\ Len(dicts') = Len(dicts) /\ DOMAIN dicts' = DOMAIN dicts
    BY <1>1, <1>2, <1>3, <1>6, ExceptSeq, SeqFacts
  <2>2. \A d \in DOMAIN dicts : dicts'[d].name = dicts[d].name
    BY <1>3, <1>6
  <2> QED BY <2>1, <2>2
<1> QED BY <1>4, <1>5, <1>6

\* The list with one dictionary more, or with another at an index.
LEMMA PoolAdded ==
  ASSUME PoolInv, Len(dicts') = Len(dicts) + 1, DOMAIN dicts' = 1..(Len(dicts) + 1)
  PROVE  LET d == Len(dicts) + 1 IN
         /\ d \in DOMAIN dicts'
         /\ pool \in Seq(DOMAIN dicts')
         /\ Append(pool, d) \in Seq(DOMAIN dicts')
         /\ Len(Append(pool, d)) = Len(pool) + 1
         /\ DOMAIN Append(pool, d) = 1..(Len(pool) + 1)
         /\ \A k \in DOMAIN pool : Append(pool, d)[k] = pool[k]
         /\ Append(pool, d)[Len(pool) + 1] = d
         /\ \A k \in DOMAIN pool :
              /\ [pool EXCEPT ![k] = d] \in Seq(DOMAIN dicts')
              /\ DOMAIN [pool EXCEPT ![k] = d] = DOMAIN pool
              /\ Len([pool EXCEPT ![k] = d]) = Len(pool)
<1> DEFINE d == Len(dicts) + 1
           S == DOMAIN dicts'
<1>1. d \in S /\ DOMAIN dicts \subseteq S
  BY TypeFacts
<1>2. pool \in Seq(S)
  <2>1. pool \in Seq(DOMAIN dicts)
    BY DEF PoolInv, PoolTypes
  <2> QED BY <1>1, <2>1, SeqGrows
<1> HIDE DEF d, S
<1>3. /\ Append(pool, d) \in Seq(S)
      /\ Len(Append(pool, d)) = Len(pool) + 1
      /\ DOMAIN Append(pool, d) = 1..(Len(pool) + 1)
      /\ \A k \in DOMAIN pool : Append(pool, d)[k] = pool[k]
      /\ Append(pool, d)[Len(pool) + 1] = d
  BY <1>1, <1>2, AppendFacts
<1>4. \A k \in DOMAIN pool :
        /\ [pool EXCEPT ![k] = d] \in Seq(S)
        /\ DOMAIN [pool EXCEPT ![k] = d] = DOMAIN pool
        /\ Len([pool EXCEPT ![k] = d]) = Len(pool)
  BY <1>1, <1>2, ExceptSeq, SeqFacts
<1> QED BY <1>1, <1>2, <1>3, <1>4 DEF d, S

\* docker run of a name, in start().
LEMMA StartRunsPool ==
  ASSUME PoolInv, NEW c \in Callers, StartRuns(c)
  PROVE  PoolInv'
<1> DEFINE n == startAt[c]
<1>1. /\ pc[c] = "starting" /\ setup' = setup
      /\ nextIdx' = nextIdx
      /\ slot' = slot /\ at' = at /\ lock' = lock
      /\ outcome' = outcome /\ result' = result /\ cleaning' = cleaning
      /\ timeouts' = timeouts /\ cleanups' = cleanups
      /\ startAt' = [startAt EXCEPT ![c] = startAt[c] + 1]
      /\ pc' = [pc EXCEPT ![c] = IF startAt[c] < setup.poolSize THEN "removing old" ELSE "started"]
  BY DEF StartRuns, Advance
<1>2. started' = started /\ locked' = locked
  BY DEF StartRuns
<1>3. overlapped' = overlapped
  BY DEF StartRuns
<1>4. \/ /\ alive' = alive \cup {n} /\ suspect' = suspect \ {n} /\ hit' = hit
         /\ dicts' = Append(dicts, [name |-> n, uses |-> 0])
         /\ pool' = Append(pool, Len(dicts) + 1)
         /\ line' = Append(line, <<>>)
         /\ faults' = faults
      \/ /\ alive' = alive /\ suspect' = suspect /\ hit' = hit
         /\ RunRefused(n) /\ dicts' = dicts /\ pool' = pool /\ line' = line
  BY DEF StartRuns, Created, dockerVars
<1>5. n \in Names /\ n \in Nat /\ n <= setup.poolSize /\ setup.poolSize \in Nat
  <2>1. n \in 1..(setup.poolSize + 1) /\ n <= setup.poolSize
    BY <1>1 DEF PoolInv, Phases, PoolTypes
  <2>2. setup.poolSize \in Nat
    BY TypeFacts
  <2> QED BY <2>1, <2>2 DEF Names
<1>6. ListTypes /\ FlagTypes /\ DockerTypes /\ CallTypes
  BY TypeParts DEF PoolInv
<1>7. ListTypes' /\ Len(dicts) <= Len(dicts') /\ Len(line) <= Len(line')
      /\ Len(dicts') \in Nat /\ Len(line') \in Nat
  <2>1. CASE /\ dicts' = Append(dicts, [name |-> n, uses |-> 0])
             /\ pool' = Append(pool, Len(dicts) + 1)
             /\ line' = Append(line, <<>>)
    <3>1. /\ dicts' \in Seq(Dict) /\ Len(dicts') = Len(dicts) + 1
          /\ DOMAIN dicts' = 1..(Len(dicts) + 1)
      BY <1>5, <2>1, DictAdded
    <3>2. pool' \in Seq(DOMAIN dicts')
      BY <2>1, <3>1, PoolAdded
    <3>3. line' \in Seq(Seq(Execs)) /\ Len(line') = Len(line) + 1
      <4>1. <<>> \in Seq(Execs)
        BY EmptySeq
      <4> QED BY <1>6, <2>1, <4>1, AppendFacts DEF ListTypes
    <3>4. nextIdx' \in Nat
      BY <1>1, <1>6 DEF ListTypes
    <3>5. Dict' = Dict
      BY <1>1 DEF Dict, Names
    <3>6. ListTypes'
      BY <3>1, <3>2, <3>3, <3>4, <3>5 DEF ListTypes
    <3> QED BY <3>1, <3>3, <3>6, TypeFacts
  <2>2. CASE dicts' = dicts /\ pool' = pool /\ line' = line
    <3>1. ListTypes'
      BY <1>1, <1>6, <2>2 DEF ListTypes, Dict, Names
    <3> QED BY <2>2, <3>1, TypeFacts
  <2> QED BY <1>4, <2>1, <2>2
<1>8. FlagTypes'
  BY <1>2, <1>3, <1>6 DEF FlagTypes
<1>9. DockerTypes'
  <2>1. alive' \subseteq Names /\ suspect' \subseteq Names /\ hit' \subseteq Execs
    BY <1>4, <1>5, <1>6 DEF DockerTypes
  <2> QED BY <1>1, <2>1 DEF DockerTypes, Names
<1>10. CallTypes'
  <2>1. startAt' \in [Callers -> 1..(setup.poolSize + 1)]
    <3>1. n + 1 \in 1..(setup.poolSize + 1)
      BY <1>5
    <3>2. startAt \in [Callers -> 1..(setup.poolSize + 1)]
      BY <1>6 DEF CallTypes
    <3> QED BY <1>1, <3>1, <3>2
  <2>2. at' \in [Execs -> 0..Len(dicts')]
    <3>1. at \in [Execs -> 0..Len(dicts)]
      BY <1>6 DEF CallTypes
    <3>2. \A e \in Execs : at[e] \in 0..Len(dicts')
      BY <1>7, <3>1, TypeFacts
    <3> QED BY <1>1, <3>1, <3>2
  <2>3. lock' \in [Execs -> 0..Len(line')]
    <3>1. lock \in [Execs -> 0..Len(line)]
      BY <1>6 DEF CallTypes
    <3>2. \A e \in Execs : lock[e] \in 0..Len(line')
      BY <1>7, <3>1, TypeFacts
    <3> QED BY <1>1, <3>1, <3>2
  <2> QED BY <1>1, <1>6, <2>1, <2>2, <2>3 DEF CallTypes
<1>11. PICK q \in {"removing old", "started"} :
         /\ q = IF startAt[c] < setup.poolSize THEN "removing old" ELSE "started"
         /\ pc' = [pc EXCEPT ![c] = q]
  BY <1>1
<1>12. /\ startAt'[c] = n + 1
       /\ \A d \in Callers : d # c => startAt'[d] = startAt[d]
  BY <1>1, <1>6 DEF CallTypes
<1>13. Phases'
  <2>1. q \in {"returned", "withdrawn", "cancelled"} \cup StartPhases
    BY <1>11 DEF StartPhases
  <2>3. q \in {"removing old", "starting"} => startAt'[c] <= setup.poolSize
    <3>1. q \in {"removing old", "starting"} => n < setup.poolSize
      BY <1>11
    <3>2. n < setup.poolSize => n + 1 <= setup.poolSize
      <4>2. n \in Nat /\ setup.poolSize \in Nat
        BY <1>5
      <4> HIDE DEF n
      <4> QED BY <4>2, NextFits
    <3> QED BY <1>12, <3>1, <3>2
  <2>4. faults' \in Nat /\ timeouts' \in Nat
    BY <1>1, <1>4, FaultCounted DEF PoolInv, Phases
  <2> QED BY <1>1, <1>11, <1>12, <2>1, <2>3, <2>4, PhasesOfStart
<1>14. Lines'
  <2>1. pc'[c] = q /\ \A d \in Execs : d # c => pc'[d] = pc[d]
    BY <1>11, Moved, ZenonT(60)
  <2>2. q \notin InLine /\ q \notin Holding /\ pc[c] \notin InLine
    BY <1>1, <1>11 DEF InLine, Holding, Recycling
  <2>3. pc[c] \in {"idle"} \cup StartPhases
    BY <1>1 DEF StartPhases
  <2>4. line' = line \/ line' = Append(line, <<>>)
    BY <1>4
  <2>5. /\ \A e \in Execs : pc'[e] \in InLine <=> pc[e] \in InLine
        /\ \A e \in Execs : pc'[e] \in Holding => pc[e] \in Holding
        /\ \A e \in Execs : pc'[e] \in {"idle"} \cup StartPhases =>
                              pc[e] \in {"idle"} \cup StartPhases
    BY <2>1, <2>2, <2>3
  <2>6. CASE line' = line
    BY <1>1, <2>5, <2>6, LinesUntouched
  <2>7. CASE line' = Append(line, <<>>)
    BY <1>1, <2>5, <2>7, LinesExtended
  <2> QED BY <2>4, <2>6, <2>7
<1> QED BY <1>7, <1>8, <1>9, <1>10, <1>13, <1>14, TypePartsNext DEF PoolInv

\* What the end of start() leaves alone.
LEMMA StartReturnsFrame ==
  ASSUME PoolInv, NEW c \in Callers, StartReturns(c)
  PROVE  /\ FlagTypes' /\ DockerTypes'
         /\ pc[c] = "started" /\ setup' = setup
         /\ pool' = pool /\ dicts' = dicts
         /\ startAt' = startAt /\ slot' = slot /\ outcome' = outcome /\ cleaning' = cleaning
         /\ faults' = faults /\ timeouts' = timeouts /\ cleanups' = cleanups
         /\ alive' = alive /\ suspect' = suspect /\ hit' = hit
<1>1. /\ pc[c] = "started" /\ setup' = setup
      /\ pool' = pool /\ dicts' = dicts
      /\ startAt' = startAt /\ slot' = slot /\ outcome' = outcome /\ cleaning' = cleaning
      /\ faults' = faults /\ timeouts' = timeouts /\ cleanups' = cleanups
      /\ alive' = alive /\ suspect' = suspect /\ hit' = hit
  BY DEF StartReturns, dockerVars, boundVars
<1>2. started' = (started \/ pool # <<>>) /\ locked' = (locked \/ pool # <<>>)
  BY DEF StartReturns
<1>3. overlapped' = overlapped
  BY DEF StartReturns
<1>4. FlagTypes /\ DockerTypes
  BY TypeParts DEF PoolInv
<1>5. FlagTypes'
  BY <1>2, <1>3, <1>4 DEF FlagTypes
<1>6. DockerTypes'
  BY <1>1, <1>4 DEF DockerTypes, Names
<1> QED BY <1>1, <1>5, <1>6

\* The orchestrator's start() returns.
LEMMA WarmupReturnsPool ==
  ASSUME PoolInv, NEW c \in Warmups, WarmupReturns(c)
  PROVE  PoolInv'
<1>1. c \in Callers /\ c \notin Execs
  BY WarmPoolAssumption DEF Callers
<1>2. /\ FlagTypes' /\ DockerTypes'
      /\ pc[c] = "started" /\ setup' = setup
      /\ pool' = pool /\ dicts' = dicts
      /\ startAt' = startAt /\ slot' = slot /\ outcome' = outcome /\ cleaning' = cleaning
      /\ faults' = faults /\ timeouts' = timeouts /\ cleanups' = cleanups
  BY <1>1, StartReturnsFrame DEF WarmupReturns
<1>3. /\ nextIdx' = nextIdx /\ line' = line /\ at' = at /\ lock' = lock /\ result' = result
      /\ pc' = [pc EXCEPT ![c] = "returned"]
  BY DEF WarmupReturns
<1>4. ListTypes /\ CallTypes
  BY TypeParts DEF PoolInv
<1>5. ListTypes'
  BY <1>2, <1>3, <1>4 DEF ListTypes, Dict, Names
<1>6. CallTypes'
  BY <1>2, <1>3, <1>4 DEF CallTypes
<1>7. Phases'
  <2>1. "returned" \notin {"removing old", "starting"}
    OBVIOUS
  <2>2. faults' \in Nat /\ timeouts' \in Nat
    BY <1>2 DEF PoolInv, Phases
  <2> QED BY <1>1, <1>2, <1>3, <2>1, <2>2, PhasesOfStart
<1>8. Lines'
  <2>1. \A d \in Execs : pc'[d] = pc[d]
    BY <1>1, <1>3, Moved
  <2> QED BY <1>2, <1>3, <2>1, LinesUntouched
<1> QED BY <1>2, <1>5, <1>6, <1>7, <1>8, TypePartsNext DEF PoolInv

\* A call that has started the pool picks from it, or returns.
LEMMA PickAfterStartPool ==
  ASSUME PoolInv, NEW e \in Execs, PickAfterStart(e)
  PROVE  PoolInv'
<1>1. e \in Callers
  BY DEF Callers
<1>2. /\ FlagTypes' /\ DockerTypes'
      /\ pc[e] = "started" /\ setup' = setup
      /\ pool' = pool /\ dicts' = dicts
      /\ startAt' = startAt /\ slot' = slot /\ outcome' = outcome /\ cleaning' = cleaning
      /\ faults' = faults /\ timeouts' = timeouts /\ cleanups' = cleanups
  BY <1>1, StartReturnsFrame DEF PickAfterStart
<1>3. pc[e] \in {"idle"} \cup StartPhases
  BY <1>2 DEF StartPhases
<1>4. \/ pool # <<>> /\ Pick(e) /\ result' = result
      \/ /\ NoContainer(e)
         /\ nextIdx' = nextIdx /\ at' = at /\ lock' = lock /\ line' = line
  BY DEF PickAfterStart
<1>5. ListTypes /\ CallTypes
  BY TypeParts DEF PoolInv
<1>6. slot' \in [Execs -> Nat] /\ faults' \in Nat /\ timeouts' \in Nat
  BY <1>2 DEF PoolInv, Phases
<1>7. CASE pool # <<>> /\ Pick(e) /\ result' = result
  <2>1. ListTypes' /\ CallTypes' /\ Lines'
    BY <1>2, <1>3, <1>7, PickTypes
  <2>2. pc' = [pc EXCEPT ![e] = "queued"] /\ "queued" \in {"returned", "withdrawn", "cancelled"} \cup InLine
    BY <1>7 DEF Pick, InLine
  <2>3. Phases'
    BY <1>2, <1>6, <2>2, PhasesOfExec
  <2> QED BY <1>2, <2>1, <2>3, TypePartsNext DEF PoolInv
<1>8. CASE /\ NoContainer(e)
           /\ nextIdx' = nextIdx /\ at' = at /\ lock' = lock /\ line' = line
  <2>1. /\ pc' = [pc EXCEPT ![e] = "returned"]
        /\ result' = [result EXCEPT ![e] = "none available"]
    BY <1>8 DEF NoContainer
  <2>2. ListTypes'
    BY <1>2, <1>5, <1>8 DEF ListTypes, Dict, Names
  <2>3. CallTypes'
    BY <1>2, <1>5, <1>8, <2>1 DEF CallTypes
  <2>4. Phases'
    BY <1>2, <1>6, <2>1, PhasesOfExec
  <2>5. Lines'
    <3>1. pc'[e] = "returned" /\ \A d \in Execs : d # e => pc'[d] = pc[d]
      BY <1>1, <2>1, Moved
    <3>2. /\ "returned" \notin InLine /\ "returned" \notin Holding
          /\ "returned" \notin {"idle"} \cup StartPhases
          /\ pc[e] \notin InLine
      BY <1>3, PhasesDiffer
    <3> QED BY <1>2, <1>8, <3>1, <3>2, LinesUntouched
  <2> QED BY <1>2, <2>2, <2>3, <2>4, <2>5, TypePartsNext DEF PoolInv
<1> QED BY <1>4, <1>7, <1>8

\* The semaphore is granted: the candidate is started.
LEMMA BeginPool ==
  ASSUME PoolInv, NEW e \in Execs, Begin(e)
  PROVE  PoolInv'
<1>1. /\ pc[e] = "queued" /\ setup' = setup /\ Granted(e)
      /\ pool' = pool /\ dicts' = dicts /\ nextIdx' = nextIdx /\ line' = line
      /\ startAt' = startAt /\ slot' = slot /\ at' = at /\ lock' = lock
      /\ outcome' = outcome /\ result' = result /\ cleaning' = cleaning
      /\ faults' = faults /\ timeouts' = timeouts /\ cleanups' = cleanups
      /\ pc' = [pc EXCEPT ![e] = "running"]
  BY DEF Begin, boundVars, listVars, callVars
<1>2. started' = started /\ locked' = locked
  BY DEF Begin, listVars
<1>3. overlapped' = overlapped
  BY DEF Begin
<1>4. alive' = alive /\ suspect' = suspect /\ (hit' = hit \/ hit' = hit \cup {e})
  BY DEF Begin
<1>6. ListTypes /\ FlagTypes /\ DockerTypes /\ CallTypes
  BY TypeParts DEF PoolInv
<1>7. ListTypes'
  BY <1>1, <1>6 DEF ListTypes, Dict, Names
<1>8. FlagTypes'
  BY <1>2, <1>3, <1>6 DEF FlagTypes
<1>9. DockerTypes'
  BY <1>1, <1>4, <1>6 DEF DockerTypes, Names
<1>10. CallTypes'
  BY <1>1, <1>6 DEF CallTypes
<1>13. Phases'
  <2>1. "running" \in {"returned", "withdrawn", "cancelled"} \cup InLine
    BY DEF InLine, Holding
  <2>2. slot' \in [Execs -> Nat] /\ faults' \in Nat /\ timeouts' \in Nat
    BY <1>1 DEF PoolInv, Phases
  <2> QED BY <1>1, <2>1, <2>2, PhasesOfExec
<1>14. Lines'
  <2>1. pc'[e] = "running" /\ \A d \in Execs : d # e => pc'[d] = pc[d]
    BY <1>1, Moved DEF Callers
  <2>2. /\ "running" \in InLine /\ "running" \notin {"idle"} \cup StartPhases
        /\ pc[e] \in InLine
    BY <1>1 DEF InLine, Holding, StartPhases
  <2> QED BY <1>1, <2>1, <2>2, LinesUntouched
<1> QED BY <1>7, <1>8, <1>9, <1>10, <1>13, <1>14, TypePartsNext DEF PoolInv

\* The candidate exits or is killed.
LEMMA EndPool ==
  ASSUME PoolInv, NEW e \in Execs, End(e)
  PROVE  PoolInv'
<1>1. /\ pc[e] = "running" /\ setup' = setup
      /\ pool' = pool /\ dicts' = dicts /\ nextIdx' = nextIdx /\ line' = line
      /\ startAt' = startAt /\ slot' = slot /\ at' = at /\ lock' = lock
      /\ result' = result /\ cleaning' = cleaning
      /\ faults' = faults /\ cleanups' = cleanups
      /\ pc' = [pc EXCEPT ![e] = "killing"]
  BY DEF End, listVars
<1>2. started' = started /\ locked' = locked
  BY DEF End, listVars
<1>3. overlapped' = overlapped
  BY DEF End
<1>4. /\ alive' = alive /\ hit' = hit
      /\ \/ /\ outcome' = [outcome EXCEPT ![e] = "exit"]
            /\ timeouts' = timeouts /\ suspect' = suspect
         \/ /\ timeouts' = timeouts + 1
            /\ outcome' = [outcome EXCEPT ![e] = "timeout"]
            /\ suspect' = suspect \cup {NameOf(e)}
  BY DEF End
<1>5. pc[e] \in InLine /\ NameOf(e) \in Names
  <2>1. pc[e] \in InLine
    BY <1>1 DEF InLine, Holding
  <2> QED BY <2>1, CallFacts
<1>6. ListTypes /\ FlagTypes /\ DockerTypes /\ CallTypes
  BY TypeParts DEF PoolInv
<1>7. ListTypes'
  BY <1>1, <1>6 DEF ListTypes, Dict, Names
<1>8. FlagTypes'
  BY <1>2, <1>3, <1>6 DEF FlagTypes
<1>9. DockerTypes'
  <2>1. suspect' \subseteq Names
    BY <1>4, <1>5, <1>6 DEF DockerTypes
  <2> QED BY <1>1, <1>4, <1>6, <2>1 DEF DockerTypes, Names
<1>10. CallTypes'
  <2>1. outcome' \in [Execs -> {"none", "exit", "timeout"}]
    BY <1>4, <1>6 DEF CallTypes
  <2> QED BY <1>1, <1>6, <2>1 DEF CallTypes
<1>13. Phases'
  <2>1. "killing" \in {"returned", "withdrawn", "cancelled"} \cup InLine
    BY DEF InLine, Holding
  <2>2. slot' \in [Execs -> Nat] /\ faults' \in Nat
    BY <1>1 DEF PoolInv, Phases
  <2>3. timeouts' \in Nat
    <3>1. timeouts \in Nat
      BY DEF PoolInv, Phases
    <3>2. timeouts' = timeouts \/ timeouts' = timeouts + 1
      BY <1>4
    <3> QED BY <3>1, <3>2
  <2> QED BY <1>1, <2>1, <2>2, <2>3, PhasesOfExec
<1>14. Lines'
  <2>1. pc'[e] = "killing" /\ \A d \in Execs : d # e => pc'[d] = pc[d]
    BY <1>1, Moved DEF Callers
  <2>2. /\ "killing" \in InLine /\ "killing" \notin {"idle"} \cup StartPhases
        /\ pc[e] \in InLine /\ pc[e] \in Holding
    BY <1>1 DEF InLine, Holding, StartPhases
  <2> QED BY <1>1, <2>1, <2>2, LinesUntouched
<1> QED BY <1>7, <1>8, <1>9, <1>10, <1>13, <1>14, TypePartsNext DEF PoolInv

\* The lines after a semaphore is released.
LEMMA ReleasedTypes ==
  ASSUME PoolInv, NEW e \in Execs, pc[e] \in Holding, line' = Released(e)
  PROVE  line' \in Seq(Seq(Execs)) /\ Len(line') = Len(line)
<1>1. ListTypes
  BY TypeParts DEF PoolInv
<1>2. CASE lock[e] = 0
  BY <1>1, <1>2 DEF Released, ListTypes
<1>3. CASE lock[e] # 0
  <2>1. lock[e] \in DOMAIN line /\ line[lock[e]] \in Seq(Execs) /\ line[lock[e]] # <<>>
    BY <1>3, CallFacts, PhasesDiffer
  <2>2. Tail(line[lock[e]]) \in Seq(Execs) /\ lock[e] \in 1..Len(line)
    BY <2>1, TailFacts, TypeFacts
  <2>3. line' = [line EXCEPT ![lock[e]] = Tail(line[lock[e]])]
    BY <1>3 DEF Released
  <2> QED BY <1>1, <2>1, <2>2, <2>3, ExceptSeq DEF ListTypes
<1> QED BY <1>2, <1>3

\* What Return(e, r) does to the types of calls and lines.
LEMMA ReturnTypes ==
  ASSUME PoolInv, NEW e \in Execs, pc[e] \in Holding,
         NEW r \in {"exit", "timeout", "failed"}, Return(e, r), setup' = setup,
         lock' = lock, at' = at, startAt' = startAt, outcome' = outcome,
         Len(dicts') = Len(dicts) \/ Len(dicts') = Len(dicts) + 1
  PROVE  /\ line' \in Seq(Seq(Execs)) /\ CallTypes' /\ Lines'
         /\ pc' = [pc EXCEPT ![e] = "returned"]
<1>1. /\ result' = [result EXCEPT ![e] = r]
      /\ line' = Released(e)
      /\ pc' = [pc EXCEPT ![e] = "returned"]
  BY DEF Return
<1>2. ListTypes /\ CallTypes
  BY TypeParts DEF PoolInv
<1>3. line' \in Seq(Seq(Execs)) /\ Len(line') = Len(line)
  BY <1>1, ReleasedTypes
<1>4. CallTypes'
  <2>1. result' \in [Execs -> {"none", "exit", "timeout", "failed", "none available"}]
    BY <1>1, <1>2 DEF CallTypes
  <2>2. at' \in [Execs -> 0..Len(dicts')]
    <3>1. at \in [Execs -> 0..Len(dicts)]
      BY <1>2 DEF CallTypes
    <3>2. \A d \in Execs : at[d] \in 0..Len(dicts')
      BY <3>1, TypeFacts
    <3> QED BY <3>1, <3>2
  <2> QED BY <1>2, <1>3, <2>1, <2>2 DEF CallTypes
<1>5. Lines'
  <2>1. "returned" \in {"returned", "cancelled"}
    OBVIOUS
  <2> QED BY <1>1, <2>1, LinesReleased
<1> QED BY <1>1, <1>3, <1>4, <1>5

\* The script's end is counted; the call returns, or recycles its container.
LEMMA AfterKillPool ==
  ASSUME PoolInv, NEW e \in Execs, AfterKill(e)
  PROVE  PoolInv'
<1>1. /\ pc[e] = "killing" /\ setup' = setup
      /\ dicts' = Used(e)
      /\ pool' = pool /\ nextIdx' = nextIdx
      /\ startAt' = startAt /\ at' = at /\ lock' = lock
      /\ outcome' = outcome /\ cleaning' = cleaning
      /\ faults' = faults /\ timeouts' = timeouts /\ cleanups' = cleanups
  BY DEF AfterKill, boundVars
<1>2. started' = started /\ locked' = locked
  BY DEF AfterKill
<1>3. overlapped' = overlapped
  BY DEF AfterKill
<1>4. alive' = alive /\ suspect' = suspect /\ hit' \subseteq hit \cup Execs
  BY DEF AfterKill, Killed, Emptied, Inside
<1>5. \/ Return(e, Normal(e)) /\ slot' = slot
      \/ Return(e, "failed") /\ slot' = slot
      \/ /\ Found(e) # {}
         /\ slot' = [slot EXCEPT ![e] = CHOOSE k \in Found(e) : \A m \in Found(e) : k <= m]
         /\ pc' = [pc EXCEPT ![e] = "removing"]
         /\ line' = line /\ result' = result
  BY DEF AfterKill
<1>6. ListTypes /\ FlagTypes /\ DockerTypes /\ CallTypes
  BY TypeParts DEF PoolInv
<1>7. pc[e] \in Holding /\ pc[e] \in InLine
  BY <1>1 DEF InLine, Holding
<1>8. dicts' \in Seq(Dict) /\ Len(dicts') = Len(dicts) /\ DOMAIN dicts' = DOMAIN dicts
  BY <1>1, <1>7, DictUsed
<1>9. FlagTypes'
  BY <1>2, <1>3, <1>6 DEF FlagTypes
<1>10. DockerTypes'
  BY <1>1, <1>4, <1>6 DEF DockerTypes, Names
<1>11. line' \in Seq(Seq(Execs)) => ListTypes'
  <2>1. Dict' = Dict
    BY <1>1 DEF Dict, Names
  <2> QED BY <1>1, <1>6, <1>8, <2>1 DEF ListTypes
<1>12. slot \in [Execs -> Nat] /\ faults' \in Nat /\ timeouts' \in Nat
  BY <1>1 DEF PoolInv, Phases
<1>13. ASSUME NEW r \in {"exit", "timeout", "failed"}, Return(e, r), slot' = slot
       PROVE  PoolInv'
  <2>1. line' \in Seq(Seq(Execs)) /\ CallTypes' /\ Lines' /\ pc' = [pc EXCEPT ![e] = "returned"]
    BY <1>1, <1>7, <1>8, <1>13, ReturnTypes
  <2>2. Phases'
    BY <1>1, <1>12, <1>13, <2>1, PhasesOfExec
  <2> QED BY <1>9, <1>10, <1>11, <2>1, <2>2, TypePartsNext DEF PoolInv
<1>14. ASSUME /\ Found(e) # {}
              /\ slot' = [slot EXCEPT ![e] = CHOOSE k \in Found(e) : \A m \in Found(e) : k <= m]
              /\ pc' = [pc EXCEPT ![e] = "removing"]
              /\ line' = line /\ result' = result
       PROVE  PoolInv'
  <2>1. slot' \in [Execs -> Nat]
    <3> DEFINE k0 == CHOOSE k \in Found(e) : \A m \in Found(e) : k <= m
    <3>1. Found(e) \in SUBSET Nat
      BY TypeFacts DEF Found
    <3>2. k0 \in Found(e)
      BY <1>14, <3>1, LeastElement
    <3>3. k0 \in Nat
      BY <3>1, <3>2
    <3> HIDE DEF k0
    <3>4. slot' = [slot EXCEPT ![e] = k0]
      BY <1>14 DEF k0
    <3> QED BY <1>12, <3>3, <3>4
  <2>2. "removing" \in {"returned", "withdrawn", "cancelled"} \cup InLine
    BY DEF InLine, Holding, Recycling
  <2>3. Phases'
    BY <1>1, <1>12, <1>14, <2>1, <2>2, PhasesOfExec
  <2>4. CallTypes'
    BY <1>1, <1>6, <1>8, <1>14 DEF CallTypes
  <2>5. ListTypes'
    BY <1>6, <1>11, <1>14 DEF ListTypes
  <2>6. Lines'
    <3>1. pc'[e] = "removing" /\ \A d \in Execs : d # e => pc'[d] = pc[d]
      BY <1>14, Moved, ZenonT(60) DEF Callers
    <3>2. "removing" \in InLine /\ "removing" \notin {"idle"} \cup StartPhases
      BY DEF InLine, Holding, Recycling, StartPhases
    <3> QED BY <1>1, <1>7, <1>14, <3>1, <3>2, LinesUntouched
  <2> QED BY <1>9, <1>10, <2>3, <2>4, <2>5, <2>6, TypePartsNext DEF PoolInv
<1>15. Normal(e) \in {"exit", "timeout", "failed"}
  BY DEF Normal
<1> QED BY <1>5, <1>13, <1>14, <1>15

\* What every step of recycling leaves alone.
LEMMA RecycleFrame ==
  ASSUME PoolInv, NEW e \in Execs,
         RecycleRemoves(e) \/ RecycleRuns(e) \/ RecycleRetries(e) \/ RecycleGivesUp(e)
  PROVE  /\ pc[e] \in Recycling /\ pc[e] \in Holding /\ pc[e] \in InLine
         /\ setup' = setup /\ nextIdx' = nextIdx
         /\ startAt' = startAt /\ slot' = slot /\ at' = at /\ lock' = lock
         /\ outcome' = outcome /\ cleaning' = cleaning
         /\ timeouts' = timeouts /\ cleanups' = cleanups
         /\ FlagTypes' /\ NameOf(e) \in Names
<1>1. pc[e] \in {"removing", "rerun", "rerun again"}
  BY DEF RecycleRemoves, RecycleRuns, RecycleRetries, RecycleGivesUp
<1>2. pc[e] \in Recycling /\ pc[e] \in Holding /\ pc[e] \in InLine
  BY <1>1 DEF Recycling, Holding, InLine
<1>3. /\ setup' = setup /\ nextIdx' = nextIdx
      /\ startAt' = startAt /\ slot' = slot /\ at' = at /\ lock' = lock
      /\ outcome' = outcome /\ cleaning' = cleaning
      /\ timeouts' = timeouts /\ cleanups' = cleanups
  BY DEF RecycleRemoves, RecycleRuns, RecycleRetries, RecycleGivesUp, listVars, callVars,
     boundVars
<1>4. started' = started /\ locked' = locked
  BY DEF RecycleRemoves, RecycleRuns, RecycleRetries, RecycleGivesUp, listVars
<1>5. overlapped' = overlapped
  BY DEF RecycleRemoves, RecycleRuns, RecycleRetries, RecycleGivesUp
<1>6. FlagTypes'
  BY <1>4, <1>5, TypeParts DEF PoolInv, FlagTypes
<1> QED BY <1>2, <1>3, <1>6, CallFacts

\* A step of recycling after which the call still holds its semaphore.
LEMMA RecycleGoesOn ==
  ASSUME PoolInv, NEW e \in Execs, NEW q \in Recycling, pc' = [pc EXCEPT ![e] = q],
         RecycleRemoves(e) \/ RecycleRetries(e),
         pool' = pool, dicts' = dicts, line' = line, result' = result, faults' \in Nat,
         DockerTypes'
  PROVE  PoolInv'
<1>1. /\ pc[e] \in Holding /\ pc[e] \in InLine
      /\ setup' = setup /\ nextIdx' = nextIdx
      /\ startAt' = startAt /\ slot' = slot /\ at' = at /\ lock' = lock
      /\ outcome' = outcome /\ cleaning' = cleaning
      /\ timeouts' = timeouts /\ cleanups' = cleanups
      /\ FlagTypes'
  BY RecycleFrame
<1>2. ListTypes /\ CallTypes
  BY TypeParts DEF PoolInv
<1>3. ListTypes'
  BY <1>1, <1>2 DEF ListTypes, Dict, Names
<1>4. CallTypes'
  BY <1>1, <1>2 DEF CallTypes
<1>5. q \in InLine /\ q \notin {"idle"} \cup StartPhases
  BY DEF InLine, Holding, Recycling, StartPhases
<1>6. Phases'
  <2>1. slot' \in [Execs -> Nat] /\ timeouts' \in Nat
    BY <1>1 DEF PoolInv, Phases
  <2> QED BY <1>1, <1>5, <2>1, PhasesOfExec
<1>7. Lines'
  <2>1. pc'[e] = q /\ \A d \in Execs : d # e => pc'[d] = pc[d]
    BY Moved DEF Callers
  <2> QED BY <1>1, <1>5, <2>1, LinesUntouched
<1> QED BY <1>1, <1>3, <1>4, <1>6, <1>7, TypePartsNext DEF PoolInv

\* docker rm -f of the container to replace.
LEMMA RecycleRemovesPool ==
  ASSUME PoolInv, NEW e \in Execs, RecycleRemoves(e)
  PROVE  PoolInv'
<1>1. /\ pool' = pool /\ dicts' = dicts /\ line' = line /\ result' = result
      /\ faults' = faults /\ setup' = setup
      /\ pc' = [pc EXCEPT ![e] = "rerun"]
  BY DEF RecycleRemoves, listVars, callVars, boundVars
<1>2. alive' \subseteq alive /\ suspect' = suspect /\ hit' = hit \cup Inside(NameOf(e))
  BY DEF RecycleRemoves, Removed, Emptied
<1>3. DockerTypes'
  BY <1>1, <1>2, TypeParts DEF PoolInv, DockerTypes, Names, Inside
<1>4. "rerun" \in Recycling /\ faults' \in Nat
  BY <1>1 DEF PoolInv, Phases, Recycling
<1> QED BY <1>1, <1>3, <1>4, RecycleGoesOn

\* docker run has failed once.
LEMMA RecycleRetriesPool ==
  ASSUME PoolInv, NEW e \in Execs, RecycleRetries(e)
  PROVE  PoolInv'
<1>1. /\ pool' = pool /\ dicts' = dicts /\ line' = line /\ result' = result
      /\ setup' = setup
      /\ pc' = [pc EXCEPT ![e] = "rerun again"]
  BY DEF RecycleRetries, listVars, callVars
<1>2. alive' = alive /\ suspect' = suspect /\ hit' = hit
  BY DEF RecycleRetries, dockerVars
<1>3. DockerTypes'
  BY <1>1, <1>2, TypeParts DEF PoolInv, DockerTypes, Names
<1>4. faults' \in Nat
  <2>1. RunRefused(NameOf(e))
    BY DEF RecycleRetries
  <2> QED BY <2>1, FaultCounted
<1>5. "rerun again" \in Recycling
  BY DEF Recycling
<1> QED BY <1>1, <1>3, <1>4, <1>5, RecycleGoesOn

\* A step of recycling with which the call returns.
LEMMA RecycleReturns ==
  ASSUME PoolInv, NEW e \in Execs, RecycleRuns(e) \/ RecycleGivesUp(e),
         NEW r \in {"exit", "timeout", "failed"}, Return(e, r),
         Len(dicts') = Len(dicts) \/ Len(dicts') = Len(dicts) + 1,
         dicts' \in Seq(Dict), pool' \in Seq(DOMAIN dicts'), faults' \in Nat,
         DockerTypes'
  PROVE  PoolInv'
<1>1. /\ pc[e] \in Holding
      /\ setup' = setup /\ nextIdx' = nextIdx
      /\ startAt' = startAt /\ slot' = slot /\ at' = at /\ lock' = lock
      /\ outcome' = outcome /\ cleaning' = cleaning
      /\ timeouts' = timeouts /\ cleanups' = cleanups
      /\ FlagTypes'
  BY RecycleFrame
<1>2. line' \in Seq(Seq(Execs)) /\ CallTypes' /\ Lines' /\ pc' = [pc EXCEPT ![e] = "returned"]
  BY <1>1, ReturnTypes
<1>3. ListTypes'
  <2>1. Dict' = Dict
    BY <1>1 DEF Dict, Names
  <2>2. nextIdx' \in Nat
    BY <1>1, TypeParts DEF PoolInv, ListTypes
  <2> QED BY <1>2, <2>1, <2>2 DEF ListTypes
<1>4. Phases'
  <2>1. slot' \in [Execs -> Nat] /\ timeouts' \in Nat
    BY <1>1 DEF PoolInv, Phases
  <2> QED BY <1>1, <1>2, <2>1, PhasesOfExec
<1> QED BY <1>1, <1>2, <1>3, <1>4, TypePartsNext DEF PoolInv

\* The container runs again: a new dictionary goes where the old one was.
LEMMA RecycleRunsPool ==
  ASSUME PoolInv, NEW e \in Execs, RecycleRuns(e)
  PROVE  PoolInv'
<1>1. setup' = setup /\ NameOf(e) \in Names
  BY RecycleFrame
<1>2. /\ alive' = alive \cup {NameOf(e)} /\ suspect' = suspect \ {NameOf(e)} /\ hit' = hit
      /\ dicts' = Append(dicts, [name |-> NameOf(e), uses |-> 0])
      /\ faults' = faults
  BY DEF RecycleRuns, Created, boundVars
<1>3. DockerTypes'
  BY <1>1, <1>2, TypeParts DEF PoolInv, DockerTypes, Names
<1>4. /\ dicts' \in Seq(Dict) /\ Len(dicts') = Len(dicts) + 1
      /\ DOMAIN dicts' = 1..(Len(dicts) + 1)
  BY <1>1, <1>2, DictAdded
<1>5. pool' \in Seq(DOMAIN dicts')
  <2>1. \/ slot[e] \in DOMAIN pool /\ pool' = [pool EXCEPT ![slot[e]] = Len(dicts) + 1]
        \/ pool' = pool
    BY DEF RecycleRuns
  <2> QED BY <1>4, <2>1, PoolAdded, ZenonT(60)
<1>6. faults' \in Nat
  BY <1>2 DEF PoolInv, Phases
<1>7. PICK r \in {"exit", "timeout", "failed"} : Return(e, r)
  BY DEF RecycleRuns, Normal
<1> QED BY <1>3, <1>4, <1>5, <1>6, <1>7, RecycleReturns

\* The container cannot be run: its entry is dropped.
LEMMA RecycleGivesUpPool ==
  ASSUME PoolInv, NEW e \in Execs, RecycleGivesUp(e)
  PROVE  PoolInv'
<1>1. setup' = setup
  BY RecycleFrame
<1>2. /\ alive' = alive /\ suspect' = suspect /\ hit' = hit
      /\ dicts' = dicts
  BY DEF RecycleGivesUp, dockerVars
<1>3. DockerTypes'
  BY <1>1, <1>2, TypeParts DEF PoolInv, DockerTypes, Names
<1>4. dicts' \in Seq(Dict)
  BY <1>2 DEF PoolInv, PoolTypes
<1>5. pool' \in Seq(DOMAIN dicts')
  <2>1. \/ slot[e] \in DOMAIN pool /\ pool' = DropAt(pool, slot[e])
        \/ pool' = pool
    BY DEF RecycleGivesUp
  <2>2. pool \in Seq(DOMAIN dicts)
    BY DEF PoolInv, PoolTypes
  <2>3. slot[e] \in DOMAIN pool => DropAt(pool, slot[e]) \in Seq(DOMAIN dicts)
    BY <2>2, DropPositions
  <2> QED BY <1>2, <2>1, <2>2, <2>3
<1>6. faults' \in Nat
  <2>1. RunRefused(NameOf(e))
    BY DEF RecycleGivesUp
  <2> QED BY <2>1, FaultCounted
<1>7. PICK r \in {"exit", "timeout", "failed"} : Return(e, r)
  BY DEF RecycleGivesUp, Normal
<1> QED BY <1>2, <1>3, <1>4, <1>5, <1>6, <1>7, RecycleReturns

\* cleanup() goes through the list and empties it.
LEMMA CleanupPool ==
  ASSUME PoolInv, CleanupBegins \/ CleanupRemoves \/ CleanupEnds
  PROVE  PoolInv'
<1>1. /\ setup' = setup /\ dicts' = dicts /\ nextIdx' = nextIdx /\ line' = line
      /\ pc' = pc /\ startAt' = startAt /\ at' = at /\ lock' = lock /\ slot' = slot
      /\ outcome' = outcome /\ result' = result
      /\ faults' = faults /\ timeouts' = timeouts
  BY DEF CleanupBegins, CleanupRemoves, CleanupEnds, listVars, callVars, boundVars
<1>2. pool' = pool \/ pool' = <<>>
  BY DEF CleanupBegins, CleanupRemoves, CleanupEnds, listVars
<1>3. started' = started \/ started' = FALSE
  BY DEF CleanupBegins, CleanupRemoves, CleanupEnds, listVars
<1>4. locked' = locked
  BY DEF CleanupBegins, CleanupRemoves, CleanupEnds, listVars
<1>5. overlapped' = overlapped
  BY DEF CleanupBegins, CleanupRemoves, CleanupEnds
<1>6. /\ alive' \subseteq alive /\ suspect' = suspect
      /\ hit' \subseteq hit \cup Execs
  BY DEF CleanupBegins, CleanupRemoves, CleanupEnds, Removed, Emptied, Inside, dockerVars
<1>7. ListTypes /\ FlagTypes /\ DockerTypes /\ CallTypes
  BY TypeParts DEF PoolInv
<1>8. ListTypes'
  <2>1. pool' \in Seq(DOMAIN dicts)
    <3>1. <<>> \in Seq(DOMAIN dicts)
      BY EmptySeq
    <3> QED BY <1>2, <1>7, <3>1 DEF ListTypes
  <2> QED BY <1>1, <1>7, <2>1 DEF ListTypes, Dict, Names
<1>9. FlagTypes'
  BY <1>3, <1>4, <1>5, <1>7 DEF FlagTypes
<1>10. DockerTypes'
  BY <1>1, <1>6, <1>7 DEF DockerTypes, Names
<1>11. CallTypes'
  BY <1>1, <1>7 DEF CallTypes
<1>12. Phases'
  <2>1. cleaning' \in Nat /\ cleanups' \in Nat /\ (cleaning' # 0 => cleanups' # 0)
    <3>1. cleaning \in Nat /\ cleanups \in Nat /\ (cleaning # 0 => cleanups # 0)
      BY DEF PoolInv, Phases
    <3>2. CASE CleanupBegins
      <4>1. cleanups' = cleanups + 1 /\ cleaning' = 1
        BY <3>2 DEF CleanupBegins
      <4> QED BY <3>1, <4>1
    <3>3. CASE CleanupRemoves
      <4>1. cleanups' = cleanups /\ cleaning' = cleaning + 1 /\ cleaning \in DOMAIN pool
        BY <3>3 DEF CleanupRemoves, boundVars
      <4>2. cleaning # 0
        BY <4>1, TypeFacts
      <4> QED BY <3>1, <4>1, <4>2
    <3>4. CASE CleanupEnds
      <4>1. cleanups' = cleanups /\ cleaning' = 0
        BY <3>4 DEF CleanupEnds, boundVars
      <4> QED BY <3>1, <4>1
    <3> QED BY <3>2, <3>3, <3>4
  <2> QED BY <1>1, <2>1 DEF PoolInv, Phases
<1>13. Lines'
  BY <1>1, LinesUntouched
<1> QED BY <1>8, <1>9, <1>10, <1>11, <1>12, <1>13, TypePartsNext DEF PoolInv

\* A waiter is cancelled.
LEMMA CancelQueuedPool ==
  ASSUME PoolInv, NEW e \in Execs, CancelQueued(e)
  PROVE  PoolInv'
<1>1. /\ pc[e] = "queued" /\ lock[e] # 0 /\ Leaves(e) /\ setup' = setup
      /\ pool' = pool /\ dicts' = dicts /\ nextIdx' = nextIdx
      /\ startAt' = startAt /\ slot' = slot /\ at' = at /\ lock' = lock
      /\ outcome' = outcome /\ result' = result /\ cleaning' = cleaning
      /\ faults' = faults /\ timeouts' = timeouts /\ cleanups' = cleanups
      /\ pc' = [pc EXCEPT ![e] = "withdrawn"]
  BY DEF CancelQueued, boundVars, callVars
<1>2. started' = started /\ locked' = locked /\ overlapped' = overlapped
  BY DEF CancelQueued
<1>3. alive' = alive /\ suspect' = suspect /\ hit' = hit
  BY DEF CancelQueued, dockerVars
<1>4. ListTypes /\ FlagTypes /\ DockerTypes /\ CallTypes
  BY TypeParts DEF PoolInv
<1>5. Lines' /\ Len(line') = Len(line) /\ line' \in Seq(Seq(Execs))
  BY <1>1, LinesLeft
<1>6. ListTypes' /\ FlagTypes' /\ DockerTypes'
  <2>1. ListTypes'
    BY <1>1, <1>4, <1>5 DEF ListTypes, Dict, Names
  <2>2. FlagTypes'
    BY <1>2, <1>4 DEF FlagTypes
  <2>3. DockerTypes'
    BY <1>1, <1>3, <1>4 DEF DockerTypes, Names
  <2> QED BY <2>1, <2>2, <2>3
<1>7. CallTypes'
  BY <1>1, <1>4, <1>5 DEF CallTypes
<1>8. Phases'
  <2>1. slot' \in [Execs -> Nat] /\ faults' \in Nat /\ timeouts' \in Nat
    BY <1>1 DEF PoolInv, Phases
  <2>2. "withdrawn" \in {"returned", "withdrawn", "cancelled"} \cup InLine
    OBVIOUS
  <2> QED BY <1>1, <2>1, <2>2, PhasesOfExec
<1> QED BY <1>5, <1>6, <1>7, <1>8, TypePartsNext DEF PoolInv

\* A call that has its container is cancelled.
LEMMA CancelHoldingPool ==
  ASSUME PoolInv, NEW e \in Execs, CancelHolding(e)
  PROVE  PoolInv'
<1>1. /\ line' = Released(e) /\ setup' = setup
      /\ pool' = pool /\ dicts' = dicts /\ nextIdx' = nextIdx
      /\ startAt' = startAt /\ slot' = slot /\ at' = at /\ lock' = lock
      /\ outcome' = outcome /\ result' = result /\ cleaning' = cleaning
      /\ faults' = faults /\ timeouts' = timeouts /\ cleanups' = cleanups
      /\ pc' = [pc EXCEPT ![e] = "cancelled"]
  BY DEF CancelHolding, boundVars, callVars
<1>2. started' = started /\ locked' = locked /\ overlapped' = overlapped
  BY DEF CancelHolding
<1>3. alive' = alive /\ suspect' = suspect /\ hit' = hit
  BY DEF CancelHolding
<1>4. ListTypes /\ FlagTypes /\ DockerTypes /\ CallTypes
  BY TypeParts DEF PoolInv
<1>5. pc[e] \in Holding
  BY DEF CancelHolding, Holding, Recycling
<1>6. Lines' /\ Len(line') = Len(line) /\ line' \in Seq(Seq(Execs))
  <2>1. "cancelled" \in {"returned", "cancelled"}
    OBVIOUS
  <2>2. Lines'
    BY <1>1, <1>5, <2>1, LinesReleased
  <2> QED BY <1>1, <1>5, <2>2, ReleasedTypes
<1>7. ListTypes' /\ FlagTypes' /\ DockerTypes'
  <2>1. ListTypes'
    BY <1>1, <1>4, <1>6 DEF ListTypes, Dict, Names
  <2>2. FlagTypes'
    BY <1>2, <1>4 DEF FlagTypes
  <2>3. DockerTypes'
    BY <1>1, <1>3, <1>4 DEF DockerTypes, Names
  <2> QED BY <2>1, <2>2, <2>3
<1>8. CallTypes'
  BY <1>1, <1>4, <1>6 DEF CallTypes
<1>9. Phases'
  <2>1. slot' \in [Execs -> Nat] /\ faults' \in Nat /\ timeouts' \in Nat
    BY <1>1 DEF PoolInv, Phases
  <2>2. "cancelled" \in {"returned", "withdrawn", "cancelled"} \cup InLine
    OBVIOUS
  <2> QED BY <1>1, <2>1, <2>2, PhasesOfExec
<1> QED BY <1>6, <1>7, <1>8, <1>9, TypePartsNext DEF PoolInv

\* start() is cancelled.
LEMMA CancelStartPool ==
  ASSUME PoolInv, NEW c \in Callers, CancelStart(c)
  PROVE  PoolInv'
<1>1. /\ pc[c] \in {"removing old", "starting"} /\ setup' = setup
      /\ pool' = pool /\ dicts' = dicts /\ nextIdx' = nextIdx /\ line' = line
      /\ startAt' = startAt /\ slot' = slot /\ at' = at /\ lock' = lock
      /\ outcome' = outcome /\ result' = result /\ cleaning' = cleaning
      /\ faults' = faults /\ timeouts' = timeouts /\ cleanups' = cleanups
      /\ pc' = [pc EXCEPT ![c] = "cancelled"]
  BY DEF CancelStart, boundVars, listVars, callVars
<1>2. started' = started /\ locked' = locked /\ overlapped' = overlapped
  BY DEF CancelStart, listVars
<1>3. alive' = alive /\ suspect' = suspect /\ hit' = hit
  BY DEF CancelStart, dockerVars
<1>4. ListTypes /\ FlagTypes /\ DockerTypes /\ CallTypes
  BY TypeParts DEF PoolInv
<1>5. ListTypes' /\ FlagTypes' /\ DockerTypes' /\ CallTypes'
  <2>1. ListTypes'
    BY <1>1, <1>4 DEF ListTypes, Dict, Names
  <2>2. FlagTypes'
    BY <1>2, <1>4 DEF FlagTypes
  <2>3. DockerTypes'
    BY <1>1, <1>3, <1>4 DEF DockerTypes, Names
  <2>4. CallTypes'
    BY <1>1, <1>4 DEF CallTypes
  <2> QED BY <2>1, <2>2, <2>3, <2>4
<1>6. Phases'
  <2>1. "cancelled" \in {"returned", "withdrawn", "cancelled"} \cup StartPhases
    OBVIOUS
  <2>2. faults' \in Nat /\ timeouts' \in Nat
    BY <1>1 DEF PoolInv, Phases
  <2> QED BY <1>1, <2>1, <2>2, PhasesOfStart
<1>7. Lines'
  <2>1. pc'[c] = "cancelled" /\ \A d \in Execs : d # c => pc'[d] = pc[d]
    BY <1>1, Moved
  <2>2. /\ pc[c] \notin InLine /\ "cancelled" \notin Holding
        /\ "cancelled" \notin {"idle"} \cup StartPhases /\ "cancelled" \notin InLine
    BY <1>1, PhasesDiffer DEF StartPhases
  <2> QED BY <1>1, <2>1, <2>2, LinesUntouched
<1> QED BY <1>5, <1>6, <1>7, TypePartsNext DEF PoolInv

\* What is left of a cancelled call comes to its end.
LEMMA RemnantsPool ==
  ASSUME PoolInv, late \subseteq Command,
         \/ \E e \in Execs : StrayEnds(e)
         \/ \E k \in late : LateCommand(k)
  PROVE  PoolInv'
<1>1. /\ setup' = setup /\ pc' = pc
      /\ pool' = pool /\ dicts' = dicts /\ nextIdx' = nextIdx /\ line' = line
      /\ startAt' = startAt /\ slot' = slot /\ at' = at /\ lock' = lock
      /\ outcome' = outcome /\ result' = result /\ cleaning' = cleaning
      /\ faults' = faults /\ timeouts' = timeouts /\ cleanups' = cleanups
  BY DEF StrayEnds, LateCommand, boundVars, listVars, callVars
<1>2. started' = started /\ locked' = locked /\ overlapped' = overlapped
  BY DEF StrayEnds, LateCommand, listVars
<1>3. alive' \subseteq alive \cup Names /\ suspect' \subseteq suspect /\ hit' \subseteq hit \cup Execs
  <2>1. CASE \E e \in Execs : StrayEnds(e)
    BY <2>1 DEF StrayEnds
  <2>2. ASSUME NEW k \in late, LateCommand(k)
        PROVE  /\ alive' \subseteq alive \cup Names /\ suspect' \subseteq suspect
               /\ hit' \subseteq hit \cup Execs
    <3>1. k.name \in Names
      BY DEF Command
    <3>2. \/ alive' = alive /\ suspect' = suspect /\ hit' = hit
          \/ Killed(k.name) \/ Removed(k.name) \/ Created(k.name)
      BY <2>2 DEF LateCommand, dockerVars
    <3>3. Inside(k.name) \subseteq Execs
      BY DEF Inside
    <3> QED BY <3>1, <3>2, <3>3 DEF Killed, Removed, Created, Emptied
  <2> QED BY <2>1, <2>2
<1>4. ListTypes /\ FlagTypes /\ DockerTypes /\ CallTypes
  BY TypeParts DEF PoolInv
<1>5. ListTypes' /\ FlagTypes' /\ DockerTypes' /\ CallTypes'
  <2>1. ListTypes'
    BY <1>1, <1>4 DEF ListTypes, Dict, Names
  <2>2. FlagTypes'
    BY <1>2, <1>4 DEF FlagTypes
  <2>3. DockerTypes'
    BY <1>1, <1>3, <1>4 DEF DockerTypes, Names
  <2>4. CallTypes'
    BY <1>1, <1>4 DEF CallTypes
  <2> QED BY <2>1, <2>2, <2>3, <2>4
<1>6. Phases' /\ Lines'
  BY <1>1, LinesUntouched DEF PoolInv, Phases
<1> QED BY <1>5, <1>6, TypePartsNext DEF PoolInv

\* The types, the phases and the lines hold initially and are kept.
LEMMA PoolInvInit == Init => PoolInv
<1> SUFFICES ASSUME Init PROVE PoolInv
  OBVIOUS
<1>1. setup \in Setups /\ setup \in Setup /\ setup.poolSize \in Nat /\ 1 <= setup.poolSize
  <2>1. setup \in Setups /\ setup \in Setup
    BY WarmPoolAssumption DEF Init
  <2>2. setup.poolSize \in Nat /\ setup.poolSize # 0
    BY <2>1 DEF Setup
  <2>3. \A n \in Nat : n # 0 => 1 <= n
    OBVIOUS
  <2> QED BY <2>1, <2>2, <2>3
<1>2. /\ dicts = <<>> /\ pool = <<>> /\ line = <<>> /\ nextIdx = 0
      /\ alive = {} /\ suspect = {} /\ hit = {}
      /\ pc = [c \in Callers |-> "idle"] /\ startAt = [c \in Callers |-> 1]
      /\ at = [e \in Execs |-> 0] /\ lock = [e \in Execs |-> 0] /\ slot = [e \in Execs |-> 0]
      /\ outcome = [e \in Execs |-> "none"] /\ result = [e \in Execs |-> "none"]
      /\ cleaning = 0 /\ faults = 0 /\ timeouts = 0 /\ cleanups = 0
  BY DEF Init
<1>3. FlagTypes
  BY DEF Init, FlagTypes
<1>4. ListTypes
  BY <1>2, EmptySeq DEF ListTypes
<1>5. DockerTypes
  BY <1>2 DEF DockerTypes
<1>6. CallTypes
  <2>1. 1 \in 1..(setup.poolSize + 1)
    BY <1>1
  <2>2. Len(dicts) = 0 /\ Len(line) = 0
    BY <1>2, EmptySeq
  <2> QED BY <1>2, <2>1, <2>2 DEF CallTypes
<1>7. Phases
  <2>1. \A c \in Callers : pc[c] = "idle" /\ startAt[c] = 1
    BY <1>2
  <2>2. \A c \in Warmups : pc[c] \notin InLine
    BY <2>1, PhasesDiffer DEF Callers
  <2> QED BY <1>1, <1>2, <2>1, <2>2 DEF Phases
<1>8. Lines
  <2>1. \A e \in Execs : pc[e] \notin InLine /\ pc[e] \notin Holding /\ lock[e] = 0
    BY <1>2, PhasesDiffer DEF Callers
  <2>2. DOMAIN line = {}
    BY <1>2
  <2> QED BY <2>1, <2>2 DEF Lines, Picked, InLines, LinedOnce, Waiting, HolderFirst
<1> QED BY <1>3, <1>4, <1>5, <1>6, <1>7, <1>8, TypeParts DEF PoolInv

\* Every step keeps them.
LEMMA PoolInvStep ==
  ASSUME PoolInv, late \subseteq Command, [Next]_vars
  PROVE  PoolInv'
<1>1. CASE UNCHANGED vars
  <2>1. /\ setup' = setup /\ pool' = pool /\ dicts' = dicts /\ nextIdx' = nextIdx /\ line' = line
        /\ alive' = alive /\ suspect' = suspect /\ hit' = hit
        /\ pc' = pc /\ startAt' = startAt /\ at' = at /\ lock' = lock /\ slot' = slot
        /\ outcome' = outcome /\ result' = result /\ cleaning' = cleaning
        /\ faults' = faults /\ timeouts' = timeouts /\ cleanups' = cleanups
    BY <1>1 DEF vars, listVars, dockerVars, callVars, boundVars
  <2>2. started' = started /\ locked' = locked
    BY <1>1 DEF vars, listVars
  <2>3. overlapped' = overlapped
    BY <1>1 DEF vars
  <2>4. ListTypes /\ FlagTypes /\ DockerTypes /\ CallTypes
    BY TypeParts DEF PoolInv
  <2>5. ListTypes'
    BY <2>1, <2>4 DEF ListTypes, Dict, Names
  <2>6. FlagTypes'
    BY <2>2, <2>3, <2>4 DEF FlagTypes
  <2>7. DockerTypes' /\ CallTypes'
    BY <2>1, <2>4 DEF DockerTypes, CallTypes, Names
  <2>8. Phases'
    BY <2>1 DEF PoolInv, Phases
  <2>9. Lines'
    BY <2>1, LinesUntouched
  <2> QED BY <2>5, <2>6, <2>7, <2>8, <2>9, TypePartsNext DEF PoolInv
<1>2. CASE \E e \in Execs : ExecuteWarm(e) \/ ExecuteCold(e) \/ ExecStep(e)
  BY <1>2, ExecuteWarmPool, ExecuteColdPool, PickAfterStartPool, BeginPool, EndPool,
     AfterKillPool, RecycleRemovesPool, RecycleRunsPool, RecycleRetriesPool,
     RecycleGivesUpPool
  DEF ExecStep
<1>3. CASE \E c \in Warmups : Warmup(c)
  BY <1>3, WarmupPool
<1>4. CASE \E c \in Callers : StartStep(c) \/ CancelStart(c)
  BY <1>4, StartRemovesPool, StartRunsPool, WarmupReturnsPool, CancelStartPool DEF StartStep
<1>5. CASE CleanupBegins \/ CleanupRemoves \/ CleanupEnds
  BY <1>5, CleanupPool
<1>6. CASE \E e \in Execs : CancelQueued(e) \/ CancelHolding(e)
  BY <1>6, CancelQueuedPool, CancelHoldingPool
<1>7. CASE \/ \E e \in Execs : StrayEnds(e)
           \/ \E k \in late : LateCommand(k)
  BY <1>7, RemnantsPool
<1> QED BY <1>1, <1>2, <1>3, <1>4, <1>5, <1>6, <1>7 DEF Next


-------------------------------------------------------------------------------
(***************************************************************************)
(* What each step does.                                                    *)
(***************************************************************************)

\* The calls other than c's are where they were.
Others(c) ==
  /\ setup' = setup
  /\ \A d \in Execs : d # c =>
       /\ pc'[d] = pc[d] /\ at'[d] = at[d] /\ lock'[d] = lock[d]
       /\ slot'[d] = slot[d] /\ outcome'[d] = outcome[d] /\ result'[d] = result[d]
  /\ \A d \in Warmups : d # c => pc'[d] = pc[d] /\ startAt'[d] = startAt[d]

\* Dictionaries keep their names.
NamesKept == \A d \in DOMAIN dicts : d \in DOMAIN dicts' /\ dicts'[d].name = dicts[d].name

SameLists == pool' = pool /\ dicts' = dicts /\ line' = line
SameDocker == alive' = alive /\ suspect' = suspect /\ hit' = hit
SameCounts == faults' = faults /\ cleanups' = cleanups /\ cleaning' = cleaning

\* A step that gives each function at most another value for c.
LEMMA OthersKept ==
  ASSUME PoolInv, NEW c \in Callers, NEW q, setup' = setup, pc' = [pc EXCEPT ![c] = q],
         startAt' = startAt \/ startAt' = [startAt EXCEPT ![c] = startAt[c] + 1],
         at' = at \/ \E x : at' = [at EXCEPT ![c] = x],
         lock' = lock \/ \E x : lock' = [lock EXCEPT ![c] = x],
         slot' = slot \/ \E x : slot' = [slot EXCEPT ![c] = x],
         outcome' = outcome \/ \E x : outcome' = [outcome EXCEPT ![c] = x],
         result' = result \/ \E x : result' = [result EXCEPT ![c] = x]
  PROVE  Others(c) /\ pc'[c] = q
<1>1. CallTypes
  BY TypeParts DEF PoolInv
<1>2. slot \in [Execs -> Nat]
  BY DEF PoolInv, Phases
<1>3. \A d \in Callers : d # c => startAt'[d] = startAt[d]
  BY <1>1 DEF CallTypes
<1>4. \A d \in Execs : d # c => at'[d] = at[d]
  BY <1>1 DEF CallTypes
<1>5. \A d \in Execs : d # c => lock'[d] = lock[d]
  BY <1>1 DEF CallTypes
<1>6. \A d \in Execs : d # c => slot'[d] = slot[d]
  BY <1>2
<1>7. \A d \in Execs : d # c => outcome'[d] = outcome[d]
  BY <1>1 DEF CallTypes
<1>8. \A d \in Execs : d # c => result'[d] = result[d]
  BY <1>1 DEF CallTypes
<1>9. pc'[c] = q /\ (\A d \in Execs : d # c => pc'[d] = pc[d])
      /\ (\A d \in Warmups : d # c => pc'[d] = pc[d])
  BY Moved
<1>10. Warmups \subseteq Callers
  BY DEF Callers
<1> QED BY <1>3, <1>4, <1>5, <1>6, <1>7, <1>8, <1>9, <1>10 DEF Others

\* A call and the orchestrator's call of start() are different callers.
LEMMA CallersDiffer ==
  /\ \A e \in Execs : e \in Callers /\ e \notin Warmups
  /\ \A c \in Warmups : c \in Callers /\ c \notin Execs
BY WarmPoolAssumption DEF Callers

\* A call picks a container: the i-th, with the i-th semaphore when there is one.
PickedEntry(e, i) ==
  /\ at'[e] = pool[i]
  /\ (locked' /\ i <= Len(line)) => lock'[e] = i
  /\ Len(line') = Len(line)
  /\ pc'[e] = "queued"

\* A call takes a reference to an entry of the list, with its semaphore.
LEMMA PickStep ==
  ASSUME PoolInv, NEW e \in Execs, pool # <<>>, Pick(e), setup' = setup,
         startAt' = startAt, slot' = slot, outcome' = outcome, result' = result
  PROVE  Others(e) /\ \E i \in DOMAIN pool : PickedEntry(e, i)
<1>1. PICK i \in DOMAIN pool :
           /\ at' = [at EXCEPT ![e] = pool[i]]
           /\ (locked' /\ i <= Len(line)) =>
                /\ lock' = [lock EXCEPT ![e] = i]
                /\ line' = [line EXCEPT ![i] = Append(line[i], e)]
           /\ ~(locked' /\ i <= Len(line)) => lock' = lock /\ line' = line
           /\ pc' = [pc EXCEPT ![e] = "queued"]
  BY PickEffect
<1>2. CallTypes
  BY TypeParts DEF PoolInv
<1>3. lock' = lock \/ lock' = [lock EXCEPT ![e] = i]
  BY <1>1
<1>4. at' = [at EXCEPT ![e] = pool[i]] /\ pc' = [pc EXCEPT ![e] = "queued"]
  BY <1>1
<1>5. Others(e) /\ pc'[e] = "queued"
  BY <1>3, <1>4, OthersKept, CallersDiffer
<1>6. at'[e] = pool[i]
  BY <1>2, <1>4 DEF CallTypes
<1>7. line' = line \/ (i \in DOMAIN line /\ line' = [line EXCEPT ![i] = Append(line[i], e)])
  BY <1>1, TypeFacts
<1>8. Len(line') = Len(line)
  <2>1. CASE line' = line
    BY <2>1
  <2>2. CASE i \in DOMAIN line /\ line' = [line EXCEPT ![i] = Append(line[i], e)]
    <3>1. line \in Seq(Seq(Execs)) /\ line[i] \in Seq(Execs)
      BY <2>2, TypeFacts, TypeParts DEF PoolInv, ListTypes
    <3>2. Append(line[i], e) \in Seq(Execs)
      BY <3>1, AppendFacts
    <3> QED BY <2>2, <3>1, <3>2, ExceptSeq, SeqFacts
  <2> QED BY <1>7, <2>1, <2>2
<1>9. (locked' /\ i <= Len(line)) => lock'[e] = i
  <2>1. lock' = [lock EXCEPT ![e] = i] => lock'[e] = i
    BY <1>2 DEF CallTypes
  <2>2. (locked' /\ i <= Len(line)) => lock' = [lock EXCEPT ![e] = i]
    BY <1>1
  <2> QED BY <2>1, <2>2
<1>10. PickedEntry(e, i)
  BY <1>5, <1>6, <1>8, <1>9 DEF PickedEntry
<1> QED BY <1>5, <1>10

\* execute() on a pool that has containers.
LEMMA ExecuteWarmStep ==
  ASSUME PoolInv, NEW e \in Execs, ExecuteWarm(e)
  PROVE  /\ pc[e] = "idle" /\ (setup.startFirst => started) /\ Others(e)
         /\ ~overlapped' => ~overlapped /\ InFlight = {}
         /\ \E i \in DOMAIN pool : PickedEntry(e, i)
         /\ pool' = pool /\ dicts' = dicts /\ SameDocker /\ SameCounts
         /\ started' = started /\ locked' = locked
         /\ startAt' = startAt /\ result' = result
<1>1. /\ pool # <<>> /\ Pick(e) /\ setup' = setup /\ pc[e] = "idle"
      /\ pool' = pool /\ dicts' = dicts /\ startAt' = startAt /\ slot' = slot
      /\ outcome' = outcome /\ result' = result
  BY DEF ExecuteWarm, Enter
<1>2. SameDocker /\ SameCounts
  BY DEF ExecuteWarm, dockerVars, boundVars, SameDocker, SameCounts
<1>3. started' = started /\ locked' = locked
  BY DEF ExecuteWarm
<1>4. setup.startFirst => started
  BY DEF ExecuteWarm, Enter
<1>5. ~overlapped' => ~overlapped /\ InFlight = {}
  BY DEF ExecuteWarm, Enter
<1>6. Others(e) /\ \E i \in DOMAIN pool : PickedEntry(e, i)
  BY <1>1, PickStep
<1> QED BY <1>1, <1>2, <1>3, <1>4, <1>5, <1>6

\* execute() on an empty pool.
LEMMA ExecuteColdStep ==
  ASSUME PoolInv, NEW e \in Execs, ExecuteCold(e)
  PROVE  /\ pc[e] = "idle" /\ (setup.startFirst => started) /\ Others(e)
         /\ ~overlapped' => ~overlapped /\ InFlight = {}
         /\ pool = <<>> /\ SameLists /\ SameDocker /\ SameCounts
         /\ started' = started /\ locked' = locked /\ startAt' = startAt
         /\ \/ pc'[e] = "returned" /\ result'[e] = "none available"
            \/ ~started /\ pc'[e] = "removing old" /\ result' = result
<1>1. /\ pool = <<>> /\ setup' = setup /\ pc[e] = "idle"
      /\ startAt' = startAt /\ at' = at /\ lock' = lock /\ slot' = slot /\ outcome' = outcome
  BY DEF ExecuteCold, Enter
<1>2. SameLists /\ SameDocker /\ SameCounts
  BY DEF ExecuteCold, listVars, dockerVars, boundVars, SameLists, SameDocker, SameCounts
<1>3. started' = started /\ locked' = locked
  BY DEF ExecuteCold, listVars
<1>4. setup.startFirst => started
  BY DEF ExecuteCold, Enter
<1>5. ~overlapped' => ~overlapped /\ InFlight = {}
  BY DEF ExecuteCold, Enter
<1>6. CASE started
  <2>1. NoContainer(e)
    BY <1>6 DEF ExecuteCold
  <2>2. /\ pc' = [pc EXCEPT ![e] = "returned"]
        /\ result' = [result EXCEPT ![e] = "none available"]
    BY <2>1 DEF NoContainer
  <2>3. Others(e) /\ pc'[e] = "returned"
    BY <1>1, <2>2, OthersKept, CallersDiffer
  <2>4. result'[e] = "none available"
    BY <2>2, TypeParts DEF PoolInv, CallTypes
  <2> QED BY <1>1, <1>2, <1>3, <1>4, <1>5, <2>3, <2>4
<1>7. CASE ~started
  <2>1. pc' = [pc EXCEPT ![e] = "removing old"] /\ result' = result
    BY <1>7 DEF ExecuteCold
  <2>2. Others(e) /\ pc'[e] = "removing old"
    BY <1>1, <2>1, OthersKept, CallersDiffer
  <2> QED BY <1>1, <1>2, <1>3, <1>4, <1>5, <1>7, <2>1, <2>2
<1> QED BY <1>6, <1>7

\* The orchestrator starts the pool.
LEMMA WarmupStep ==
  ASSUME PoolInv, NEW c \in Warmups, Warmup(c)
  PROVE  /\ pc[c] = "idle" /\ ~started /\ Others(c) /\ pc'[c] = "removing old"
         /\ SameLists /\ SameDocker /\ SameCounts
         /\ started' = started /\ locked' = locked /\ overlapped' = overlapped
         /\ startAt' = startAt
<1>1. /\ setup' = setup /\ pc[c] = "idle" /\ pc' = [pc EXCEPT ![c] = "removing old"]
      /\ startAt' = startAt /\ at' = at /\ lock' = lock /\ slot' = slot /\ outcome' = outcome
      /\ result' = result
  BY DEF Warmup, callVars
<1>2. SameLists /\ SameDocker /\ SameCounts
  BY DEF Warmup, listVars, dockerVars, boundVars, SameLists, SameDocker, SameCounts
<1>3. ~started /\ started' = started /\ locked' = locked
  BY DEF Warmup, listVars
<1>4. overlapped' = overlapped
  BY DEF Warmup
<1>5. Others(c) /\ pc'[c] = "removing old"
  BY <1>1, OthersKept, CallersDiffer
<1> QED BY <1>1, <1>2, <1>3, <1>4, <1>5

\* start(): docker rm -f ...
LEMMA StartRemovesStep ==
  ASSUME PoolInv, NEW c \in Callers, StartRemoves(c)
  PROVE  /\ pc[c] = "removing old" /\ Others(c) /\ pc'[c] = "starting"
         /\ SameLists /\ SameCounts
         /\ started' = started /\ locked' = locked /\ overlapped' = overlapped
         /\ startAt' = startAt /\ result' = result
         /\ alive' = alive \ {startAt[c]} /\ suspect' = suspect
         /\ hit' = hit \cup Inside(startAt[c])
<1>1. /\ setup' = setup /\ pc[c] = "removing old" /\ pc' = [pc EXCEPT ![c] = "starting"]
      /\ startAt' = startAt /\ at' = at /\ lock' = lock /\ slot' = slot /\ outcome' = outcome
      /\ result' = result
  BY DEF StartRemoves, callVars
<1>2. SameLists /\ SameCounts
  BY DEF StartRemoves, listVars, boundVars, SameLists, SameCounts
<1>3. started' = started /\ locked' = locked
  BY DEF StartRemoves, listVars
<1>4. overlapped' = overlapped
  BY DEF StartRemoves
<1>5. Others(c) /\ pc'[c] = "starting"
  BY <1>1, OthersKept
<1>6. /\ alive' = alive \ {startAt[c]} /\ suspect' = suspect
      /\ hit' = hit \cup Inside(startAt[c])
  BY DEF StartRemoves, Removed, Emptied
<1> QED BY <1>1, <1>2, <1>3, <1>4, <1>5, <1>6

\* ... and docker run: one container more, with its semaphore, or none.
EntryAdded(n) ==
  /\ alive' = alive \cup {n} /\ suspect' = suspect \ {n} /\ hit' = hit
  /\ Len(pool') = Len(pool) + 1 /\ DOMAIN pool' = 1..(Len(pool) + 1)
  /\ \A k \in DOMAIN pool : pool'[k] = pool[k]
  /\ pool'[Len(pool) + 1] \in DOMAIN dicts' /\ dicts'[pool'[Len(pool) + 1]].name = n
  /\ NamesKept
  /\ Len(line') = Len(line) + 1

\* The list grows at its end.
LEMMA ListExtended ==
  ASSUME PoolInv, NEW n, EntryAdded(n)
  PROVE  /\ \A k \in DOMAIN pool : k \in DOMAIN pool' /\ pool'[k] = pool[k]
         /\ \A k \in DOMAIN pool' : k \in DOMAIN pool \/ k = Len(pool) + 1
         /\ Len(pool) + 1 \notin DOMAIN pool /\ Len(pool) + 1 \in DOMAIN pool'
<1>1. Len(pool) \in Nat /\ DOMAIN pool = 1..Len(pool)
  BY TypeFacts
<1>2. DOMAIN pool' = 1..(Len(pool) + 1) /\ \A k \in DOMAIN pool : pool'[k] = pool[k]
  BY DEF EntryAdded
<1> QED BY <1>1, <1>2

\* docker run of start(): an entry more, a failure, or the start gives up.
LEMMA StartRunsStep ==
  ASSUME PoolInv, NEW c \in Callers, StartRuns(c)
  PROVE  /\ pc[c] = "starting" /\ Others(c) /\ pc'[c] \in {"removing old", "started"}
         /\ startAt'[c] = startAt[c] + 1
         /\ started' = started /\ locked' = locked /\ overlapped' = overlapped
         /\ cleanups' = cleanups /\ result' = result
         /\ startAt[c] \in Names
         /\ \/ EntryAdded(startAt[c]) /\ faults' = faults
            \/ SameLists /\ SameDocker /\ (startAt[c] \in alive \/ faults' = faults + 1)
<1> DEFINE n == startAt[c]
<1>1. /\ pc[c] = "starting" /\ setup' = setup
      /\ slot' = slot /\ at' = at /\ lock' = lock
      /\ outcome' = outcome /\ result' = result /\ cleanups' = cleanups
      /\ startAt' = [startAt EXCEPT ![c] = startAt[c] + 1]
      /\ pc' = [pc EXCEPT ![c] = IF startAt[c] < setup.poolSize THEN "removing old" ELSE "started"]
  BY DEF StartRuns, Advance
<1>2. started' = started /\ locked' = locked
  BY DEF StartRuns
<1>3. overlapped' = overlapped
  BY DEF StartRuns
<1>4. \/ /\ alive' = alive \cup {n} /\ suspect' = suspect \ {n} /\ hit' = hit
         /\ dicts' = Append(dicts, [name |-> n, uses |-> 0])
         /\ pool' = Append(pool, Len(dicts) + 1)
         /\ line' = Append(line, <<>>)
         /\ faults' = faults
      \/ /\ alive' = alive /\ suspect' = suspect /\ hit' = hit
         /\ RunRefused(n) /\ dicts' = dicts /\ pool' = pool /\ line' = line
  BY DEF StartRuns, Created, dockerVars
<1>5. n \in Names
  <2>1. n \in 1..(setup.poolSize + 1) /\ n <= setup.poolSize
    BY <1>1 DEF PoolInv, Phases, PoolTypes
  <2>2. setup.poolSize \in Nat
    BY TypeFacts
  <2> QED BY <2>1, <2>2 DEF Names
<1>6. Others(c) /\ pc'[c] = IF startAt[c] < setup.poolSize THEN "removing old" ELSE "started"
  BY <1>1, OthersKept
<1>7. startAt'[c] = startAt[c] + 1
  BY <1>1, TypeParts DEF PoolInv, CallTypes
<1>8. CASE /\ alive' = alive \cup {n} /\ suspect' = suspect \ {n} /\ hit' = hit
           /\ dicts' = Append(dicts, [name |-> n, uses |-> 0])
           /\ pool' = Append(pool, Len(dicts) + 1)
           /\ line' = Append(line, <<>>)
           /\ faults' = faults
  <2>1. /\ Len(dicts') = Len(dicts) + 1 /\ DOMAIN dicts' = 1..(Len(dicts) + 1)
        /\ \A d \in DOMAIN dicts : dicts'[d] = dicts[d] /\ d \in DOMAIN dicts'
        /\ dicts'[Len(dicts) + 1].name = n
    BY <1>5, <1>8, DictAdded
  <2>2. /\ Len(dicts) + 1 \in DOMAIN dicts'
        /\ Len(pool') = Len(pool) + 1 /\ DOMAIN pool' = 1..(Len(pool) + 1)
        /\ \A k \in DOMAIN pool : pool'[k] = pool[k]
        /\ pool'[Len(pool) + 1] = Len(dicts) + 1
    BY <1>8, <2>1, PoolAdded
  <2>3. Len(line') = Len(line) + 1
    <3>1. line \in Seq(Seq(Execs)) /\ <<>> \in Seq(Execs)
      BY EmptySeq, TypeParts DEF PoolInv, ListTypes
    <3> QED BY <1>8, <3>1, AppendFacts
  <2>4. NamesKept
    BY <2>1 DEF NamesKept
  <2>5. EntryAdded(n)
    <3>1. pool'[Len(pool) + 1] \in DOMAIN dicts' /\ dicts'[pool'[Len(pool) + 1]].name = n
      BY <2>1, <2>2
    <3> HIDE DEF n
    <3> QED BY <1>8, <2>2, <2>3, <2>4, <3>1 DEF EntryAdded
  <2> QED BY <1>1, <1>2, <1>3, <1>5, <1>6, <1>7, <1>8, <2>5
<1>9. CASE /\ alive' = alive /\ suspect' = suspect /\ hit' = hit
           /\ RunRefused(n) /\ dicts' = dicts /\ pool' = pool /\ line' = line
  <2>1. SameLists /\ SameDocker
    BY <1>9 DEF SameLists, SameDocker
  <2>2. startAt[c] \in alive \/ faults' = faults + 1
    BY <1>9 DEF RunRefused, Fault
  <2> QED BY <1>1, <1>2, <1>3, <1>5, <1>6, <1>7, <2>1, <2>2
<1> QED BY <1>4, <1>8, <1>9

\* The end of start().
LEMMA StartReturnsStep ==
  ASSUME PoolInv, NEW c \in Callers, StartReturns(c)
  PROVE  /\ pc[c] = "started" /\ setup' = setup
         /\ pool' = pool /\ dicts' = dicts /\ SameDocker /\ SameCounts
         /\ startAt' = startAt /\ slot' = slot /\ outcome' = outcome
         /\ overlapped' = overlapped
         /\ (started' <=> started \/ pool # <<>>) /\ (locked' <=> locked \/ pool # <<>>)
<1>1. /\ pc[c] = "started" /\ setup' = setup
      /\ pool' = pool /\ dicts' = dicts
      /\ startAt' = startAt /\ slot' = slot /\ outcome' = outcome
  BY DEF StartReturns
<1>2. SameDocker /\ SameCounts
  BY DEF StartReturns, dockerVars, boundVars, SameDocker, SameCounts
<1>3. started' <=> started \/ pool # <<>>
  BY DEF StartReturns
<1>4. locked' <=> locked \/ pool # <<>>
  BY DEF StartReturns
<1>5. overlapped' = overlapped
  BY DEF StartReturns
<1> QED BY <1>1, <1>2, <1>3, <1>4, <1>5

\* start() called by the orchestrator returns.
LEMMA WarmupReturnsStep ==
  ASSUME PoolInv, NEW c \in Warmups, WarmupReturns(c)
  PROVE  /\ pc[c] = "started" /\ Others(c) /\ pc'[c] = "returned"
         /\ SameLists /\ SameDocker /\ SameCounts
         /\ startAt' = startAt /\ overlapped' = overlapped
         /\ (started' <=> started \/ pool # <<>>) /\ (locked' <=> locked \/ pool # <<>>)
<1>1. StartReturns(c)
  BY DEF WarmupReturns
<1>2. /\ pc' = [pc EXCEPT ![c] = "returned"]
      /\ line' = line /\ at' = at /\ lock' = lock /\ result' = result
  BY DEF WarmupReturns
<1>3. /\ pc[c] = "started" /\ setup' = setup
      /\ pool' = pool /\ dicts' = dicts /\ SameDocker /\ SameCounts
      /\ startAt' = startAt /\ slot' = slot /\ outcome' = outcome
      /\ overlapped' = overlapped
      /\ (started' <=> started \/ pool # <<>>) /\ (locked' <=> locked \/ pool # <<>>)
  BY <1>1, StartReturnsStep, CallersDiffer
<1>4. Others(c) /\ pc'[c] = "returned"
  BY <1>2, <1>3, OthersKept, CallersDiffer
<1> QED BY <1>2, <1>3, <1>4 DEF SameLists

\* The lazy start of a call is over: it picks a container or finds none.
LEMMA PickAfterStartStep ==
  ASSUME PoolInv, NEW e \in Execs, PickAfterStart(e)
  PROVE  /\ pc[e] = "started" /\ Others(e)
         /\ pool' = pool /\ dicts' = dicts /\ SameCounts
         /\ overlapped' = overlapped
         /\ \/ result' = result /\ \E i \in DOMAIN pool : PickedEntry(e, i)
            \/ pc'[e] = "returned" /\ result'[e] = "none available"
<1>1. StartReturns(e)
  BY DEF PickAfterStart
<1>2. /\ pc[e] = "started" /\ setup' = setup
      /\ pool' = pool /\ dicts' = dicts /\ SameDocker /\ SameCounts
      /\ startAt' = startAt /\ slot' = slot /\ outcome' = outcome
      /\ overlapped' = overlapped
  BY <1>1, StartReturnsStep, CallersDiffer
<1>3. CASE pool # <<>> /\ Pick(e) /\ result' = result
  <2>1. Others(e) /\ \E i \in DOMAIN pool : PickedEntry(e, i)
    BY <1>2, <1>3, PickStep
  <2> QED BY <1>2, <1>3, <2>1
<1>4. CASE NoContainer(e) /\ UNCHANGED <<nextIdx, at, lock, line>>
  <2>1. /\ pc' = [pc EXCEPT ![e] = "returned"]
        /\ result' = [result EXCEPT ![e] = "none available"]
        /\ at' = at /\ lock' = lock
    BY <1>4 DEF NoContainer
  <2>2. Others(e) /\ pc'[e] = "returned"
    BY <1>2, <2>1, OthersKept, CallersDiffer
  <2>3. result'[e] = "none available"
    BY <2>1, TypeParts DEF PoolInv, CallTypes
  <2> QED BY <1>2, <2>2, <2>3
<1> QED BY <1>3, <1>4 DEF PickAfterStart

\* What the steps of a call that waits or holds keep.
SameCall == startAt' = startAt /\ at' = at /\ lock' = lock
SameFlags == (started' <=> started) /\ (locked' <=> locked) /\ (overlapped' <=> overlapped)

\* The candidate is started in its container.
LEMMA BeginStep ==
  ASSUME PoolInv, NEW e \in Execs, Begin(e)
  PROVE  /\ pc[e] = "queued" /\ Granted(e) /\ Others(e) /\ pc'[e] = "running"
         /\ SameLists /\ SameCounts /\ SameCall /\ SameFlags
         /\ slot' = slot /\ outcome' = outcome /\ result' = result
         /\ alive' = alive /\ suspect' = suspect
         /\ NameOf(e) \in alive => hit' = hit
<1>1. /\ pc[e] = "queued" /\ setup' = setup /\ Granted(e)
      /\ startAt' = startAt /\ slot' = slot /\ at' = at /\ lock' = lock
      /\ outcome' = outcome /\ result' = result
      /\ pc' = [pc EXCEPT ![e] = "running"]
      /\ alive' = alive /\ suspect' = suspect
      /\ NameOf(e) \in alive => hit' = hit
  BY DEF Begin, callVars
<1>2. SameLists /\ SameCounts /\ SameCall
  BY DEF Begin, listVars, boundVars, callVars, SameLists, SameCounts, SameCall
<1>3. SameFlags
  <2>1. started' = started /\ locked' = locked
    BY DEF Begin, listVars
  <2>2. overlapped' = overlapped
    BY DEF Begin
  <2> QED BY <2>1, <2>2 DEF SameFlags
<1>4. Others(e) /\ pc'[e] = "running"
  BY <1>1, OthersKept, CallersDiffer
<1> QED BY <1>1, <1>2, <1>3, <1>4

\* It ends.
LEMMA EndStep ==
  ASSUME PoolInv, NEW e \in Execs, End(e)
  PROVE  /\ pc[e] = "running" /\ Others(e) /\ pc'[e] = "killing"
         /\ SameLists /\ SameCounts /\ SameCall /\ SameFlags
         /\ slot' = slot /\ result' = result
         /\ alive' = alive /\ hit' = hit
         /\ \/ outcome'[e] = "exit" /\ suspect' = suspect
            \/ outcome'[e] = "timeout" /\ suspect' = suspect \cup {NameOf(e)}
<1>1. /\ pc[e] = "running" /\ setup' = setup
      /\ startAt' = startAt /\ slot' = slot /\ at' = at /\ lock' = lock
      /\ result' = result
      /\ pc' = [pc EXCEPT ![e] = "killing"]
      /\ alive' = alive /\ hit' = hit
  BY DEF End
<1>2. SameLists /\ SameCounts /\ SameCall
  BY DEF End, listVars, SameLists, SameCounts, SameCall
<1>3. SameFlags
  <2>1. started' = started /\ locked' = locked
    BY DEF End, listVars
  <2>2. overlapped' = overlapped
    BY DEF End
  <2> QED BY <2>1, <2>2 DEF SameFlags
<1>4. \/ outcome' = [outcome EXCEPT ![e] = "exit"] /\ suspect' = suspect
      \/ outcome' = [outcome EXCEPT ![e] = "timeout"] /\ suspect' = suspect \cup {NameOf(e)}
  BY DEF End
<1>5. Others(e) /\ pc'[e] = "killing"
  BY <1>1, <1>4, OthersKept, CallersDiffer
<1>6. \/ outcome'[e] = "exit" /\ suspect' = suspect
      \/ outcome'[e] = "timeout" /\ suspect' = suspect \cup {NameOf(e)}
  BY <1>4, TypeParts DEF PoolInv, CallTypes
<1> QED BY <1>1, <1>2, <1>3, <1>5, <1>6

\* A call returns with a result.
LEMMA ReturnStep ==
  ASSUME PoolInv, NEW e \in Execs, pc[e] \in Holding, NEW r, Return(e, r), setup' = setup,
         lock' = lock, at' = at, startAt' = startAt, outcome' = outcome, slot' = slot
  PROVE  Others(e) /\ pc'[e] = "returned" /\ result'[e] = r /\ Len(line') = Len(line)
<1>1. /\ result' = [result EXCEPT ![e] = r]
      /\ line' = Released(e)
      /\ pc' = [pc EXCEPT ![e] = "returned"]
  BY DEF Return
<1>2. ListTypes /\ CallTypes
  BY TypeParts DEF PoolInv
<1>3. Len(line') = Len(line)
  BY <1>1, ReleasedTypes
<1>4. result'[e] = r
  BY <1>1, <1>2 DEF CallTypes
<1>5. Others(e) /\ pc'[e] = "returned"
  BY <1>1, OthersKept, CallersDiffer
<1> QED BY <1>3, <1>4, <1>5

\* After the kill: the call returns, or has found the entry to replace.
LEMMA AfterKillStep ==
  ASSUME PoolInv, NEW e \in Execs, AfterKill(e)
  PROVE  /\ pc[e] = "killing" /\ Others(e) /\ NamesKept
         /\ pool' = pool /\ SameCounts /\ SameCall /\ SameFlags
         /\ alive' = alive /\ suspect' = suspect /\ hit' = hit \cup Inside(NameOf(e))
         /\ outcome' = outcome /\ Len(line') = Len(line)
         /\ \/ pc'[e] = "returned" /\ result'[e] # "failed" /\ outcome[e] # "timeout"
            \/ pc'[e] = "returned" /\ \A k \in DOMAIN pool : pool[k] # at[e]
            \/ /\ pc'[e] = "removing" /\ result' = result
               /\ slot'[e] \in DOMAIN pool
               /\ dicts[pool[slot'[e]]].name = NameOf(e)
<1>1. /\ pc[e] = "killing" /\ setup' = setup
      /\ dicts' = Used(e)
      /\ pool' = pool
      /\ startAt' = startAt /\ at' = at /\ lock' = lock
      /\ outcome' = outcome
      /\ alive' = alive /\ suspect' = suspect /\ hit' = hit \cup Inside(NameOf(e))
  BY DEF AfterKill, Killed, Emptied
<1>2. SameCounts /\ SameCall
  BY DEF AfterKill, boundVars, SameCounts, SameCall
<1>3. SameFlags
  <2>1. started' = started /\ locked' = locked
    BY DEF AfterKill
  <2>2. overlapped' = overlapped
    BY DEF AfterKill
  <2> QED BY <2>1, <2>2 DEF SameFlags
<1>4. pc[e] \in Holding /\ pc[e] \in InLine
  BY <1>1 DEF InLine, Holding
<1>5. \A d \in DOMAIN dicts : d \in DOMAIN dicts' /\ dicts'[d].name = dicts[d].name
  BY <1>1, <1>4, DictUsed
<1>6. NamesKept
  BY <1>5 DEF NamesKept
<1>7. at[e] \in DOMAIN dicts
  BY <1>4, CallFacts
<1>8. \A k \in Found(e) : k \in DOMAIN pool /\ dicts[pool[k]].name = NameOf(e)
  <2> SUFFICES ASSUME NEW k \in Found(e)
               PROVE  k \in DOMAIN pool /\ dicts[pool[k]].name = NameOf(e)
    OBVIOUS
  <2>1. k \in DOMAIN pool /\ dicts'[pool[k]] = dicts'[at[e]]
    BY <1>1 DEF Found
  <2>2. pool[k] \in DOMAIN dicts
    BY <2>1, TypeFacts
  <2> QED BY <1>5, <1>7, <2>1, <2>2 DEF NameOf
<1>9. \/ Return(e, Normal(e)) /\ slot' = slot /\ ~MustRecycle(e)
      \/ Return(e, "failed") /\ slot' = slot /\ Found(e) = {}
      \/ /\ Found(e) # {}
         /\ slot' = [slot EXCEPT ![e] = CHOOSE k \in Found(e) : \A m \in Found(e) : k <= m]
         /\ pc' = [pc EXCEPT ![e] = "removing"]
         /\ line' = line /\ result' = result
  BY DEF AfterKill
<1>10. CASE Return(e, Normal(e)) /\ slot' = slot /\ ~MustRecycle(e)
  <2>1. Others(e) /\ pc'[e] = "returned" /\ result'[e] = Normal(e) /\ Len(line') = Len(line)
    BY <1>1, <1>4, <1>10, ReturnStep
  <2>2. outcome[e] # "timeout"
    BY <1>10 DEF MustRecycle
  <2>3. result'[e] # "failed"
    BY <2>1 DEF Normal
  <2> QED BY <1>1, <1>2, <1>3, <1>6, <2>1, <2>2, <2>3
<1>11. CASE Return(e, "failed") /\ slot' = slot /\ Found(e) = {}
  <2>1. Others(e) /\ pc'[e] = "returned" /\ Len(line') = Len(line)
    BY <1>1, <1>4, <1>11, ReturnStep
  <2>2. \A k \in DOMAIN pool : pool[k] # at[e]
    BY <1>11 DEF Found
  <2> QED BY <1>1, <1>2, <1>3, <1>6, <2>1, <2>2
<1>12. CASE /\ Found(e) # {}
            /\ slot' = [slot EXCEPT ![e] = CHOOSE k \in Found(e) : \A m \in Found(e) : k <= m]
            /\ pc' = [pc EXCEPT ![e] = "removing"]
            /\ line' = line /\ result' = result
  <2> DEFINE k0 == CHOOSE k \in Found(e) : \A m \in Found(e) : k <= m
  <2>1. Found(e) \in SUBSET Nat
    BY TypeFacts DEF Found
  <2>2. k0 \in Found(e)
    BY <1>12, <2>1, LeastElement
  <2>3. slot' = [slot EXCEPT ![e] = k0]
    BY <1>12
  <2> HIDE DEF k0
  <2>4. slot'[e] = k0
    BY <2>3 DEF PoolInv, Phases
  <2>5. Others(e) /\ pc'[e] = "removing"
    BY <1>1, <1>12, <2>3, OthersKept, CallersDiffer
  <2>6. slot'[e] \in DOMAIN pool /\ dicts[pool[slot'[e]]].name = NameOf(e)
    BY <1>8, <2>2, <2>4
  <2>7. Len(line') = Len(line) /\ result' = result
    BY <1>12
  <2> QED BY <1>1, <1>2, <1>3, <1>6, <2>5, <2>6, <2>7
<1> QED BY <1>9, <1>10, <1>11, <1>12

\* Recycling: docker rm -f ...
LEMMA RecycleRemovesStep ==
  ASSUME PoolInv, NEW e \in Execs, RecycleRemoves(e)
  PROVE  /\ pc[e] = "removing" /\ Others(e) /\ pc'[e] = "rerun"
         /\ SameLists /\ SameCounts /\ SameCall /\ SameFlags
         /\ slot' = slot /\ outcome' = outcome /\ result' = result
         /\ alive' = alive \ {NameOf(e)} /\ suspect' = suspect
         /\ hit' = hit \cup Inside(NameOf(e))
<1>1. /\ pc[e] = "removing" /\ setup' = setup
      /\ startAt' = startAt /\ slot' = slot /\ at' = at /\ lock' = lock
      /\ outcome' = outcome /\ result' = result
      /\ pc' = [pc EXCEPT ![e] = "rerun"]
  BY DEF RecycleRemoves, callVars
<1>2. SameLists /\ SameCounts /\ SameCall
  BY DEF RecycleRemoves, listVars, boundVars, callVars, SameLists, SameCounts, SameCall
<1>3. SameFlags
  <2>1. started' = started /\ locked' = locked
    BY DEF RecycleRemoves, listVars
  <2>2. overlapped' = overlapped
    BY DEF RecycleRemoves
  <2> QED BY <2>1, <2>2 DEF SameFlags
<1>4. Others(e) /\ pc'[e] = "rerun"
  BY <1>1, OthersKept, CallersDiffer
<1>5. /\ alive' = alive \ {NameOf(e)} /\ suspect' = suspect
      /\ hit' = hit \cup Inside(NameOf(e))
  BY DEF RecycleRemoves, Removed, Emptied
<1> QED BY <1>1, <1>2, <1>3, <1>4, <1>5

\* ... docker run fails and is tried again ...
LEMMA RecycleRetriesStep ==
  ASSUME PoolInv, NEW e \in Execs, RecycleRetries(e)
  PROVE  /\ pc[e] = "rerun" /\ Others(e) /\ pc'[e] = "rerun again"
         /\ SameLists /\ SameDocker /\ SameCall /\ SameFlags
         /\ slot' = slot /\ outcome' = outcome /\ result' = result
         /\ cleanups' = cleanups
         /\ NameOf(e) \in alive \/ faults' = faults + 1
<1>1. /\ pc[e] = "rerun" /\ setup' = setup
      /\ startAt' = startAt /\ slot' = slot /\ at' = at /\ lock' = lock
      /\ outcome' = outcome /\ result' = result /\ cleanups' = cleanups
      /\ pc' = [pc EXCEPT ![e] = "rerun again"]
  BY DEF RecycleRetries, callVars
<1>2. SameLists /\ SameDocker /\ SameCall
  BY DEF RecycleRetries, listVars, dockerVars, callVars, SameLists, SameDocker, SameCall
<1>3. SameFlags
  <2>1. started' = started /\ locked' = locked
    BY DEF RecycleRetries, listVars
  <2>2. overlapped' = overlapped
    BY DEF RecycleRetries
  <2> QED BY <2>1, <2>2 DEF SameFlags
<1>4. Others(e) /\ pc'[e] = "rerun again"
  BY <1>1, OthersKept, CallersDiffer
<1>5. NameOf(e) \in alive \/ faults' = faults + 1
  <2>1. RunRefused(NameOf(e))
    BY DEF RecycleRetries
  <2> QED BY <2>1 DEF RunRefused, Fault
<1> QED BY <1>1, <1>2, <1>3, <1>4, <1>5

\* ... or gives a new container, whose entry replaces the old one ...
EntryReplaced(k, n) ==
  /\ k \in DOMAIN pool
  /\ Len(pool') = Len(pool) /\ DOMAIN pool' = DOMAIN pool
  /\ pool'[k] \in DOMAIN dicts' /\ dicts'[pool'[k]].name = n
  /\ \A m \in DOMAIN pool : m # k => pool'[m] = pool[m]

\* The container of a timed-out call is started again and replaces the entry.
LEMMA RecycleRunsStep ==
  ASSUME PoolInv, NEW e \in Execs, RecycleRuns(e)
  PROVE  /\ pc[e] \in {"rerun", "rerun again"} /\ Others(e) /\ NamesKept /\ pc'[e] = "returned"
         /\ SameCounts /\ SameCall /\ SameFlags
         /\ slot' = slot /\ outcome' = outcome /\ Len(line') = Len(line)
         /\ alive' = alive \cup {NameOf(e)} /\ suspect' = suspect \ {NameOf(e)}
         /\ hit' = hit
         /\ \/ EntryReplaced(slot[e], NameOf(e)) /\ result'[e] # "failed"
            \/ slot[e] \notin DOMAIN pool /\ pool' = pool
<1>1. /\ pc[e] \in {"rerun", "rerun again"} /\ setup' = setup
      /\ startAt' = startAt /\ slot' = slot /\ at' = at /\ lock' = lock
      /\ outcome' = outcome
      /\ alive' = alive \cup {NameOf(e)} /\ suspect' = suspect \ {NameOf(e)}
      /\ hit' = hit
      /\ dicts' = Append(dicts, [name |-> NameOf(e), uses |-> 0])
  BY DEF RecycleRuns, Created
<1>2. SameCounts /\ SameCall
  BY DEF RecycleRuns, boundVars, SameCounts, SameCall
<1>3. SameFlags
  <2>1. started' = started /\ locked' = locked
    BY DEF RecycleRuns
  <2>2. overlapped' = overlapped
    BY DEF RecycleRuns
  <2> QED BY <2>1, <2>2 DEF SameFlags
<1>4. pc[e] \in Holding /\ NameOf(e) \in Names
  BY RecycleFrame
<1>5. PICK r : /\ Return(e, r)
               /\ \/ /\ slot[e] \in DOMAIN pool /\ r = Normal(e)
                     /\ pool' = [pool EXCEPT ![slot[e]] = Len(dicts) + 1]
                  \/ slot[e] \notin DOMAIN pool /\ pool' = pool
  BY DEF RecycleRuns
<1>6. Others(e) /\ pc'[e] = "returned" /\ result'[e] = r /\ Len(line') = Len(line)
  BY <1>1, <1>4, <1>5, ReturnStep
<1>7. /\ Len(dicts') = Len(dicts) + 1 /\ DOMAIN dicts' = 1..(Len(dicts) + 1)
      /\ \A d \in DOMAIN dicts : dicts'[d] = dicts[d] /\ d \in DOMAIN dicts'
      /\ dicts'[Len(dicts) + 1].name = NameOf(e)
  BY <1>1, <1>4, DictAdded
<1>8. NamesKept
  BY <1>7 DEF NamesKept
<1>9. CASE /\ slot[e] \in DOMAIN pool /\ r = Normal(e)
           /\ pool' = [pool EXCEPT ![slot[e]] = Len(dicts) + 1]
  <2>1. /\ Len(dicts) + 1 \in DOMAIN dicts'
        /\ DOMAIN pool' = DOMAIN pool /\ Len(pool') = Len(pool)
    BY <1>7, <1>9, PoolAdded
  <2>2. pool'[slot[e]] = Len(dicts) + 1
    BY <1>9
  <2>3. \A m \in DOMAIN pool : m # slot[e] => pool'[m] = pool[m]
    BY <1>9
  <2>4. EntryReplaced(slot[e], NameOf(e))
    BY <1>7, <1>9, <2>1, <2>2, <2>3 DEF EntryReplaced
  <2>5. result'[e] # "failed"
    BY <1>6, <1>9 DEF Normal
  <2> QED BY <1>1, <1>2, <1>3, <1>6, <1>8, <2>4, <2>5
<1>10. CASE slot[e] \notin DOMAIN pool /\ pool' = pool
  BY <1>1, <1>2, <1>3, <1>6, <1>8, <1>10
<1> QED BY <1>5, <1>9, <1>10

\* ... or fails twice, and the entry is dropped.
EntryDropped(k) ==
  /\ k \in DOMAIN pool /\ Len(pool') = Len(pool) - 1
  /\ \A m \in DOMAIN pool' : \E j \in DOMAIN pool :
       /\ j # k /\ pool'[m] = pool[j]
       /\ (m < k /\ j = m) \/ (m >= k /\ j = m + 1)

\* The container cannot be started: the entry leaves the list.
LEMMA RecycleGivesUpStep ==
  ASSUME PoolInv, NEW e \in Execs, RecycleGivesUp(e)
  PROVE  /\ pc[e] = "rerun again" /\ Others(e) /\ dicts' = dicts /\ pc'[e] = "returned"
         /\ SameDocker /\ SameCall /\ SameFlags
         /\ slot' = slot /\ outcome' = outcome
         /\ cleanups' = cleanups /\ Len(line') = Len(line)
         /\ \/ EntryDropped(slot[e]) /\ result'[e] # "failed"
            \/ slot[e] \notin DOMAIN pool /\ pool' = pool
<1>1. /\ pc[e] = "rerun again" /\ setup' = setup
      /\ startAt' = startAt /\ slot' = slot /\ at' = at /\ lock' = lock
      /\ outcome' = outcome /\ dicts' = dicts /\ cleanups' = cleanups
  BY DEF RecycleGivesUp
<1>2. SameDocker /\ SameCall
  BY DEF RecycleGivesUp, dockerVars, SameDocker, SameCall
<1>3. SameFlags
  <2>1. started' = started /\ locked' = locked
    BY DEF RecycleGivesUp
  <2>2. overlapped' = overlapped
    BY DEF RecycleGivesUp
  <2> QED BY <2>1, <2>2 DEF SameFlags
<1>4. pc[e] \in Holding
  BY RecycleFrame
<1>5. PICK r : /\ Return(e, r)
               /\ \/ /\ slot[e] \in DOMAIN pool /\ r = Normal(e)
                     /\ pool' = DropAt(pool, slot[e])
                  \/ slot[e] \notin DOMAIN pool /\ pool' = pool
  BY DEF RecycleGivesUp
<1>6. Others(e) /\ pc'[e] = "returned" /\ result'[e] = r /\ Len(line') = Len(line)
  BY <1>1, <1>4, <1>5, ReturnStep
<1>7. CASE /\ slot[e] \in DOMAIN pool /\ r = Normal(e)
           /\ pool' = DropAt(pool, slot[e])
  <2> DEFINE k == slot[e]
  <2>1. k \in DOMAIN pool /\ pool \in Seq(DOMAIN dicts)
    BY <1>7, TypeParts DEF PoolInv, ListTypes
  <2>2. /\ pool' \in Seq(DOMAIN dicts) /\ Len(pool') = Len(pool) - 1
        /\ \A m \in 1..(Len(pool) - 1) : pool'[m] = IF m < k THEN pool[m] ELSE pool[m + 1]
    BY <1>7, <2>1, DropPositions
  <2>3. DOMAIN pool' = 1..(Len(pool) - 1) /\ DOMAIN pool = 1..Len(pool) /\ Len(pool) \in Nat
    BY <2>2, SeqFacts, TypeFacts
  <2> HIDE DEF k
  <2>4. EntryDropped(k)
    <3> SUFFICES ASSUME NEW m \in DOMAIN pool'
                 PROVE  \E j \in DOMAIN pool :
                          /\ j # k /\ pool'[m] = pool[j]
                          /\ (m < k /\ j = m) \/ (m >= k /\ j = m + 1)
      BY <2>1, <2>2 DEF EntryDropped
    <3>1. CASE m < k
      <4>1. m \in DOMAIN pool /\ m # k /\ pool'[m] = pool[m]
        BY <2>1, <2>2, <2>3, <3>1
      <4> QED BY <3>1, <4>1
    <3>2. CASE ~(m < k)
      <4>1. m + 1 \in DOMAIN pool /\ m + 1 # k /\ pool'[m] = pool[m + 1] /\ m >= k
        BY <2>1, <2>2, <2>3, <3>2
      <4> QED BY <4>1
    <3> QED BY <3>1, <3>2
  <2>5. EntryDropped(slot[e])
    BY <2>4 DEF k
  <2>6. result'[e] # "failed"
    BY <1>6, <1>7 DEF Normal
  <2> QED BY <1>1, <1>2, <1>3, <1>6, <2>5, <2>6
<1>8. CASE slot[e] \notin DOMAIN pool /\ pool' = pool
  BY <1>1, <1>2, <1>3, <1>6, <1>8
<1> QED BY <1>5, <1>7, <1>8

\* cleanup(): its removals, and the end, which empties the list.
LEMMA CleanupStep ==
  ASSUME PoolInv, CleanupBegins \/ CleanupRemoves \/ CleanupEnds
  PROVE  /\ setup' = setup /\ dicts' = dicts /\ pc' = pc /\ SameCall /\ slot' = slot
         /\ outcome' = outcome /\ result' = result /\ suspect' = suspect
         /\ (overlapped' <=> overlapped)
         /\ started' => started
         /\ line' = line
         /\ pool' = pool \/ pool' = <<>>
         /\ cleanups' # 0
<1>1. /\ setup' = setup /\ dicts' = dicts /\ pc' = pc /\ slot' = slot
      /\ outcome' = outcome /\ result' = result /\ line' = line
  BY DEF CleanupBegins, CleanupRemoves, CleanupEnds, listVars, callVars
<1>2. SameCall
  BY DEF CleanupBegins, CleanupRemoves, CleanupEnds, callVars, SameCall
<1>3. suspect' = suspect
  BY DEF CleanupBegins, CleanupRemoves, CleanupEnds, Removed, Emptied, dockerVars
<1>4. overlapped' <=> overlapped
  <2>1. overlapped' = overlapped
    BY DEF CleanupBegins, CleanupRemoves, CleanupEnds
  <2> QED BY <2>1
<1>5. started' => started
  <2>1. started' = started \/ started' = FALSE
    BY DEF CleanupBegins, CleanupRemoves, CleanupEnds, listVars
  <2> QED BY <2>1
<1>6. pool' = pool \/ pool' = <<>>
  BY DEF CleanupBegins, CleanupRemoves, CleanupEnds, listVars
<1>7. cleanups' # 0
  <2>1. cleanups \in Nat /\ cleaning \in Nat /\ (cleaning # 0 => cleanups # 0)
    BY DEF PoolInv, Phases
  <2>2. CASE CleanupBegins
    BY <2>1, <2>2 DEF CleanupBegins
  <2>3. CASE CleanupRemoves
    <3>1. cleaning \in DOMAIN pool /\ cleanups' = cleanups
      BY <2>3 DEF CleanupRemoves, boundVars
    <3> QED BY <2>1, <3>1, TypeFacts
  <2>4. CASE CleanupEnds
    <3>1. cleaning > Len(pool) /\ cleanups' = cleanups
      BY <2>4 DEF CleanupEnds, boundVars
    <3> QED BY <2>1, <3>1, TypeFacts
  <2> QED BY <2>2, <2>3, <2>4
<1> QED BY <1>1, <1>2, <1>3, <1>4, <1>5, <1>6, <1>7

\* A call is cancelled: it waited, or it had its container.
LEMMA CancelStep ==
  ASSUME PoolInv, NEW e \in Execs, CancelQueued(e) \/ CancelHolding(e)
  PROVE  /\ \/ pc[e] = "queued" /\ pc'[e] = "withdrawn"
            \/ pc[e] \in Holding /\ pc'[e] = "cancelled"
         /\ Others(e) /\ dicts' = dicts /\ pool' = pool /\ Len(line') = Len(line)
         /\ SameDocker /\ SameCounts /\ SameCall /\ SameFlags
         /\ slot' = slot /\ outcome' = outcome /\ result' = result
<1>1. /\ setup' = setup /\ dicts' = dicts /\ pool' = pool
      /\ startAt' = startAt /\ slot' = slot /\ at' = at /\ lock' = lock
      /\ outcome' = outcome /\ result' = result
  BY DEF CancelQueued, CancelHolding, callVars
<1>2. SameDocker /\ SameCounts /\ SameCall
  BY DEF CancelQueued, CancelHolding, dockerVars, boundVars, callVars, SameDocker, SameCounts,
     SameCall
<1>3. SameFlags
  <2>1. started' = started /\ locked' = locked
    BY DEF CancelQueued, CancelHolding
  <2>2. overlapped' = overlapped
    BY DEF CancelQueued, CancelHolding
  <2> QED BY <2>1, <2>2 DEF SameFlags
<1>4. CASE CancelQueued(e)
  <2>1. /\ pc[e] = "queued" /\ pc' = [pc EXCEPT ![e] = "withdrawn"]
        /\ lock[e] # 0 /\ Leaves(e)
    BY <1>4 DEF CancelQueued
  <2>2. Len(line') = Len(line)
    BY <1>1, <2>1, LinesLeft
  <2>3. Others(e) /\ pc'[e] = "withdrawn"
    BY <1>1, <2>1, OthersKept, CallersDiffer
  <2> QED BY <1>1, <1>2, <1>3, <2>1, <2>2, <2>3
<1>5. CASE CancelHolding(e)
  <2>1. pc[e] \in Holding /\ line' = Released(e) /\ pc' = [pc EXCEPT ![e] = "cancelled"]
    BY <1>5 DEF CancelHolding, Holding, Recycling
  <2>2. Len(line') = Len(line)
    BY <2>1, ReleasedTypes
  <2>3. Others(e) /\ pc'[e] = "cancelled"
    BY <1>1, <2>1, OthersKept, CallersDiffer
  <2> QED BY <1>1, <1>2, <1>3, <2>1, <2>2, <2>3
<1> QED BY <1>4, <1>5

\* start() is cancelled.
LEMMA CancelStartStep ==
  ASSUME PoolInv, NEW c \in Callers, CancelStart(c)
  PROVE  /\ pc[c] \in {"removing old", "starting"} /\ Others(c) /\ pc'[c] = "cancelled"
         /\ SameLists /\ SameDocker /\ SameCounts
         /\ started' = started /\ locked' = locked /\ overlapped' = overlapped
         /\ startAt' = startAt /\ result' = result
<1>1. /\ setup' = setup /\ pc[c] \in {"removing old", "starting"}
      /\ pc' = [pc EXCEPT ![c] = "cancelled"]
      /\ startAt' = startAt /\ at' = at /\ lock' = lock /\ slot' = slot /\ outcome' = outcome
      /\ result' = result
  BY DEF CancelStart, callVars
<1>2. SameLists /\ SameDocker /\ SameCounts
  BY DEF CancelStart, listVars, dockerVars, boundVars, SameLists, SameDocker, SameCounts
<1>3. started' = started /\ locked' = locked
  BY DEF CancelStart, listVars
<1>4. overlapped' = overlapped
  BY DEF CancelStart
<1>5. Others(c) /\ pc'[c] = "cancelled"
  BY <1>1, OthersKept
<1> QED BY <1>1, <1>2, <1>3, <1>4, <1>5

\* What a cancelled call has left ends, or is done to the container it names.
DoneLate(n) ==
  \/ alive' = alive /\ suspect' = suspect /\ hit' = hit \cup Inside(n)
  \/ alive' = alive \ {n} /\ suspect' = suspect /\ hit' = hit \cup Inside(n)
  \/ alive' = alive \cup {n} /\ suspect' = suspect \ {n} /\ hit' = hit

\* Nothing else changes.
LEMMA RemnantsStep ==
  ASSUME PoolInv,
         \/ \E e \in Execs : StrayEnds(e)
         \/ \E k \in late : LateCommand(k)
  PROVE  /\ setup' = setup /\ pc' = pc /\ slot' = slot /\ outcome' = outcome
         /\ result' = result
         /\ SameLists /\ SameCounts /\ SameCall /\ SameFlags
         /\ SameDocker \/ \E k \in late : DoneLate(k.name)
<1>1. /\ setup' = setup /\ pc' = pc /\ slot' = slot /\ outcome' = outcome /\ result' = result
  BY DEF StrayEnds, LateCommand, callVars
<1>2. SameLists /\ SameCounts /\ SameCall
  BY DEF StrayEnds, LateCommand, listVars, boundVars, callVars, SameLists, SameCounts, SameCall
<1>3. SameFlags
  <2>1. started' = started /\ locked' = locked
    BY DEF StrayEnds, LateCommand, listVars
  <2>2. overlapped' = overlapped
    BY DEF StrayEnds, LateCommand
  <2> QED BY <2>1, <2>2 DEF SameFlags
<1>4. CASE \E e \in Execs : StrayEnds(e)
  <2>1. SameDocker
    BY <1>4 DEF StrayEnds, SameDocker
  <2> QED BY <1>1, <1>2, <1>3, <2>1
<1>5. ASSUME NEW k \in late, LateCommand(k)
      PROVE  SameDocker \/ DoneLate(k.name)
  <2>1. \/ UNCHANGED dockerVars \/ Killed(k.name) \/ Removed(k.name) \/ Created(k.name)
    BY <1>5 DEF LateCommand
  <2> QED BY <2>1 DEF dockerVars, SameDocker, DoneLate, Killed, Removed, Created, Emptied
<1> QED BY <1>1, <1>2, <1>3, <1>4, <1>5

-------------------------------------------------------------------------------
(***************************************************************************)
(* A call that is alone finds its entry in the list.                       *)
(***************************************************************************)

\* What holds of one call while calls have not overlapped and cleanup() has
\* not been called.
Listing(e) ==
  /\ pc[e] \in InLine => \E k \in DOMAIN pool : pool[k] = at[e]
  /\ pc[e] \in Recycling => slot[e] \in DOMAIN pool
  /\ result[e] # "failed"

\* Alone, call by call.
LEMMA AloneParts ==
  Alone <=> (~overlapped => /\ \A e, d \in InFlight : e = d
                            /\ cleanups = 0 => \A e \in Execs : Listing(e))
BY DEF Alone, Listing

\* Listing of a call whose own values are as they were.
LEMMA ListingKept ==
  ASSUME NEW e \in Execs, Listing(e), pc'[e] = pc[e], at'[e] = at[e], slot'[e] = slot[e],
         result'[e] = result[e],
         \A k \in DOMAIN pool : k \in DOMAIN pool' /\ pool'[k] = pool[k]
  PROVE  Listing(e)'
<1>1. pc'[e] \in InLine => \E k \in DOMAIN pool' : pool'[k] = at'[e]
  BY DEF Listing
<1>2. pc'[e] \in Recycling => slot'[e] \in DOMAIN pool'
  BY DEF Listing
<1> QED BY <1>1, <1>2 DEF Listing

\* A step that starts no call and leaves the entries where they are.
LEMMA AloneKept ==
  ASSUME PoolInv, Alone, NEW c \in Callers, Others(c),
         ~overlapped' => ~overlapped, cleanups' = 0 => cleanups = 0,
         ~overlapped' => (InFlight = {} \/ (c \in InFlight' => c \in InFlight)),
         \/ \A k \in DOMAIN pool : k \in DOMAIN pool' /\ pool'[k] = pool[k]
         \/ c \in InFlight,
         ~overlapped' /\ cleanups' = 0 /\ c \in Execs => Listing(c)'
  PROVE  Alone'
<1>1. ASSUME ~overlapped' PROVE \A e, d \in InFlight' : e = d
  <2>1. \A e, d \in InFlight : e = d
    BY <1>1, AloneParts
  <2>2. \A e \in InFlight' : e # c => e \in InFlight
    BY DEF InFlight, Ended, Others
  <2>3. CASE InFlight = {}
    BY <2>2, <2>3
  <2>4. CASE c \in InFlight' => c \in InFlight
    BY <2>1, <2>2, <2>4
  <2> QED BY <1>1, <2>3, <2>4
<1>2. ASSUME ~overlapped', cleanups' = 0, NEW e \in Execs PROVE Listing(e)'
  <2>1. CASE e = c
    BY <1>2, <2>1
  <2>2. CASE e # c
    <3>1. Listing(e) /\ \A d, b \in InFlight : d = b
      BY <1>2, AloneParts
    <3>2. /\ pc'[e] = pc[e] /\ at'[e] = at[e] /\ slot'[e] = slot[e]
          /\ result'[e] = result[e]
      BY <2>2 DEF Others
    <3>3. CASE \A k \in DOMAIN pool : k \in DOMAIN pool' /\ pool'[k] = pool[k]
      BY <3>1, <3>2, <3>3, ListingKept
    <3>4. CASE c \in InFlight
      <4>1. e \notin InFlight
        BY <2>2, <3>1, <3>4
      <4>2. pc'[e] \notin InLine /\ pc'[e] \notin Recycling
        BY <3>2, <4>1, PhasesDiffer DEF InFlight, Ended
      <4>3. result'[e] # "failed"
        BY <3>1, <3>2 DEF Listing
      <4> QED BY <4>2, <4>3 DEF Listing
    <3> QED BY <3>3, <3>4
  <2> QED BY <2>1, <2>2
<1> QED BY <1>1, <1>2 DEF Alone, Listing

\* A step of a call in flight that leaves the list and its result alone.
LEMMA AloneMoves ==
  ASSUME PoolInv, Alone, NEW e \in Execs, e \in InFlight, Others(e),
         overlapped' <=> overlapped, cleanups' = cleanups, pool' = pool,
         at' = at, slot' = slot, result' = result,
         pc'[e] \in InLine => pc[e] \in InLine, pc'[e] \in Recycling => pc[e] \in Recycling
  PROVE  Alone'
<1>1. ~overlapped /\ cleanups = 0 => Listing(e)
  BY AloneParts
<1>2. ~overlapped' /\ cleanups' = 0 => Listing(e)'
  BY <1>1 DEF Listing
<1> QED BY <1>2, AloneKept, CallersDiffer

\* Until two calls of start() overlap, the one at work is alone.
LEMMA AloneStep ==
  ASSUME PoolInv, Alone, Next
  PROVE  Alone'
<1>1. ASSUME NEW e \in Execs, ExecuteWarm(e) PROVE Alone'
  <2>1. /\ pc[e] = "idle" /\ Others(e) /\ pool' = pool /\ SameCounts
        /\ ~overlapped' => ~overlapped /\ InFlight = {}
        /\ result' = result
    BY <1>1, ExecuteWarmStep
  <2>2. PICK i \in DOMAIN pool : PickedEntry(e, i)
    BY <1>1, ExecuteWarmStep
  <2>3. ~overlapped' /\ cleanups' = 0 => Listing(e)'
    <3>1. ~overlapped /\ cleanups = 0 => result[e] # "failed"
      BY AloneParts DEF Listing
    <3>2. pc'[e] = "queued" /\ at'[e] = pool[i]
      BY <2>2 DEF PickedEntry
    <3> QED BY <2>1, <3>1, <3>2, PhasesDiffer DEF Listing, SameCounts
  <2> QED BY <2>1, <2>3, AloneKept, CallersDiffer DEF SameCounts
<1>2. ASSUME NEW e \in Execs, ExecuteCold(e) PROVE Alone'
  <2>1. /\ pc[e] = "idle" /\ Others(e) /\ SameLists /\ SameCounts
        /\ ~overlapped' => ~overlapped /\ InFlight = {}
        /\ \/ pc'[e] = "returned" /\ result'[e] = "none available"
           \/ pc'[e] = "removing old" /\ result' = result
    BY <1>2, ExecuteColdStep
  <2>2. pc'[e] \notin InLine /\ pc'[e] \notin Recycling
    BY <2>1, PhasesDiffer DEF StartPhases
  <2>3. ~overlapped' /\ cleanups' = 0 => Listing(e)'
    <3>1. ~overlapped /\ cleanups = 0 => result[e] # "failed"
      BY AloneParts DEF Listing
    <3> QED BY <2>1, <2>2, <3>1 DEF Listing, SameCounts
  <2> QED BY <2>1, <2>3, AloneKept, CallersDiffer DEF SameCounts, SameLists
<1>3. ASSUME NEW c \in Warmups, Warmup(c) \/ WarmupReturns(c) PROVE Alone'
  <2>1. Others(c) /\ SameLists /\ SameCounts /\ overlapped' = overlapped
    BY <1>3, WarmupStep, WarmupReturnsStep
  <2>2. c \notin Execs /\ c \in Callers /\ c \notin InFlight'
    BY CallersDiffer DEF InFlight, Ended
  <2> QED BY <2>1, <2>2, AloneKept DEF SameCounts, SameLists
<1>4. ASSUME NEW c \in Callers, StartRemoves(c) PROVE Alone'
  <2>1. /\ pc[c] = "removing old" /\ Others(c) /\ pc'[c] = "starting"
        /\ SameLists /\ SameCounts /\ overlapped' = overlapped /\ result' = result
    BY <1>4, StartRemovesStep
  <2>2. pc'[c] \notin InLine /\ pc'[c] \notin Recycling /\ (c \in InFlight' => c \in InFlight)
    BY <2>1, PhasesDiffer DEF StartPhases, InFlight, Ended
  <2>3. c \in Execs => (~overlapped' /\ cleanups' = 0 => Listing(c)')
    BY <2>1, <2>2, AloneParts DEF Listing, SameCounts
  <2> QED BY <2>1, <2>2, <2>3, AloneKept DEF SameCounts, SameLists
<1>5. ASSUME NEW c \in Callers, StartRuns(c) PROVE Alone'
  <2>1. /\ pc[c] = "starting" /\ Others(c) /\ pc'[c] \in {"removing old", "started"}
        /\ overlapped' = overlapped /\ cleanups' = cleanups /\ result' = result
        /\ EntryAdded(startAt[c]) \/ SameLists
    BY <1>5, StartRunsStep
  <2>2. pc'[c] \notin InLine /\ pc'[c] \notin Recycling /\ (c \in InFlight' => c \in InFlight)
    BY <2>1, PhasesDiffer DEF StartPhases, InFlight, Ended
  <2>3. c \in Execs => (~overlapped' /\ cleanups' = 0 => Listing(c)')
    BY <2>1, <2>2, AloneParts DEF Listing
  <2>4. \A k \in DOMAIN pool : k \in DOMAIN pool' /\ pool'[k] = pool[k]
    <3>1. CASE EntryAdded(startAt[c])
      BY <3>1, ListExtended
    <3>2. CASE SameLists
      BY <3>2 DEF SameLists
    <3> QED BY <2>1, <3>1, <3>2
  <2> QED BY <2>1, <2>2, <2>3, <2>4, AloneKept
<1>6. ASSUME NEW e \in Execs, PickAfterStart(e) PROVE Alone'
  <2>1. /\ pc[e] = "started" /\ Others(e) /\ pool' = pool /\ SameCounts
        /\ overlapped' = overlapped
        /\ \/ result' = result /\ \E i \in DOMAIN pool : PickedEntry(e, i)
           \/ pc'[e] = "returned" /\ result'[e] = "none available"
    BY <1>6, PickAfterStartStep
  <2>2. ~overlapped /\ cleanups = 0 => result[e] # "failed"
    BY AloneParts DEF Listing
  <2>3. ~overlapped' /\ cleanups' = 0 => Listing(e)'
    <3>1. CASE result' = result /\ \E i \in DOMAIN pool : PickedEntry(e, i)
      <4>1. PICK i \in DOMAIN pool : PickedEntry(e, i)
        BY <3>1
      <4>2. pc'[e] = "queued" /\ at'[e] = pool[i]
        BY <4>1 DEF PickedEntry
      <4> QED BY <2>1, <2>2, <3>1, <4>2, PhasesDiffer DEF Listing, SameCounts
    <3>2. CASE pc'[e] = "returned" /\ result'[e] = "none available"
      BY <3>2, PhasesDiffer DEF Listing
    <3> QED BY <2>1, <3>1, <3>2
  <2>4. e \in InFlight
    BY <2>1 DEF InFlight, Ended
  <2> QED BY <2>1, <2>3, <2>4, AloneKept, CallersDiffer DEF SameCounts
<1>7. ASSUME NEW e \in Execs, Begin(e) PROVE Alone'
  <2>1. /\ pc[e] = "queued" /\ Others(e) /\ pc'[e] = "running"
        /\ SameLists /\ SameCounts /\ SameCall /\ SameFlags
        /\ slot' = slot /\ result' = result
    BY <1>7, BeginStep
  <2>2. e \in InFlight /\ pc[e] \in InLine /\ pc'[e] \notin Recycling
    BY <2>1 DEF InFlight, Ended, InLine, Recycling
  <2> QED BY <2>1, <2>2, AloneMoves DEF SameLists, SameCounts, SameCall, SameFlags
<1>8. ASSUME NEW e \in Execs, End(e) PROVE Alone'
  <2>1. /\ pc[e] = "running" /\ Others(e) /\ pc'[e] = "killing"
        /\ SameLists /\ SameCounts /\ SameCall /\ SameFlags
        /\ slot' = slot /\ result' = result
    BY <1>8, EndStep
  <2>2. e \in InFlight /\ pc[e] \in InLine /\ pc'[e] \notin Recycling
    BY <2>1 DEF InFlight, Ended, InLine, Holding, Recycling
  <2> QED BY <2>1, <2>2, AloneMoves DEF SameLists, SameCounts, SameCall, SameFlags
<1>9. ASSUME NEW e \in Execs, AfterKill(e) PROVE Alone'
  <2>1. /\ pc[e] = "killing" /\ Others(e) /\ pool' = pool
        /\ SameCounts /\ SameCall /\ SameFlags
        /\ \/ pc'[e] = "returned" /\ result'[e] # "failed" /\ outcome[e] # "timeout"
           \/ pc'[e] = "returned" /\ \A k \in DOMAIN pool : pool[k] # at[e]
           \/ pc'[e] = "removing" /\ result' = result /\ slot'[e] \in DOMAIN pool
    BY <1>9, AfterKillStep
  <2>2. e \in InFlight /\ pc[e] \in InLine
    BY <2>1 DEF InFlight, Ended, InLine, Holding
  <2>3. ~overlapped /\ cleanups = 0 => Listing(e)
    BY AloneParts
  <2>4. ~overlapped' /\ cleanups' = 0 => Listing(e)'
    <3> SUFFICES ASSUME ~overlapped', cleanups' = 0 PROVE Listing(e)'
      OBVIOUS
    <3>1. Listing(e)
      BY <2>1, <2>3 DEF SameFlags, SameCounts
    <3>2. PICK k \in DOMAIN pool : pool[k] = at[e]
      BY <2>2, <3>1 DEF Listing
    <3>3. at'[e] = at[e]
      BY <2>1 DEF SameCall
    <3>4. CASE pc'[e] = "returned"
      BY <2>1, <3>2, <3>4, PhasesDiffer DEF Listing
    <3>5. CASE pc'[e] = "removing" /\ result' = result /\ slot'[e] \in DOMAIN pool
      BY <2>1, <3>1, <3>2, <3>3, <3>5 DEF Listing
    <3> QED BY <2>1, <3>4, <3>5
  <2> QED BY <2>1, <2>2, <2>4, AloneKept, CallersDiffer DEF SameFlags, SameCounts
<1>10. ASSUME NEW e \in Execs, RecycleRemoves(e) PROVE Alone'
  <2>1. /\ pc[e] = "removing" /\ Others(e) /\ pc'[e] = "rerun"
        /\ SameLists /\ SameCounts /\ SameCall /\ SameFlags
        /\ slot' = slot /\ result' = result
    BY <1>10, RecycleRemovesStep
  <2>2. e \in InFlight /\ pc[e] \in InLine /\ pc[e] \in Recycling
    BY <2>1 DEF InFlight, Ended, InLine, Holding, Recycling
  <2> QED BY <2>1, <2>2, AloneMoves DEF SameLists, SameCounts, SameCall, SameFlags
<1>11. ASSUME NEW e \in Execs, RecycleRetries(e) PROVE Alone'
  <2>1. /\ pc[e] = "rerun" /\ Others(e) /\ pc'[e] = "rerun again"
        /\ SameLists /\ SameCall /\ SameFlags
        /\ slot' = slot /\ result' = result /\ cleanups' = cleanups
    BY <1>11, RecycleRetriesStep
  <2>2. e \in InFlight /\ pc[e] \in InLine /\ pc[e] \in Recycling
    BY <2>1 DEF InFlight, Ended, InLine, Holding, Recycling
  <2> QED BY <2>1, <2>2, AloneMoves DEF SameLists, SameCall, SameFlags
<1>12. ASSUME NEW e \in Execs, RecycleRuns(e) \/ RecycleGivesUp(e) PROVE Alone'
  <2>1. /\ pc[e] \in {"rerun", "rerun again"} /\ Others(e) /\ pc'[e] = "returned"
        /\ SameFlags /\ cleanups' = cleanups
        /\ slot[e] \in DOMAIN pool => result'[e] # "failed"
    BY <1>12, RecycleRunsStep, RecycleGivesUpStep DEF SameCounts
  <2>2. e \in InFlight /\ pc[e] \in Recycling
    BY <2>1 DEF InFlight, Ended, Recycling
  <2>3. ~overlapped /\ cleanups = 0 => Listing(e)
    BY AloneParts
  <2>4. ~overlapped' /\ cleanups' = 0 => Listing(e)'
    BY <2>1, <2>2, <2>3, PhasesDiffer DEF Listing, SameFlags
  <2> QED BY <2>1, <2>2, <2>4, AloneKept, CallersDiffer DEF SameFlags
<1>13. ASSUME CleanupBegins \/ CleanupRemoves \/ CleanupEnds PROVE Alone'
  <2>1. pc' = pc /\ (overlapped' <=> overlapped) /\ cleanups' # 0
    BY <1>13, CleanupStep
  <2> QED BY <2>1 DEF Alone, InFlight, Ended
<1>14. CASE \E e \in Execs : ExecuteWarm(e) \/ ExecuteCold(e) \/ ExecStep(e)
  BY <1>14, <1>1, <1>2, <1>6, <1>7, <1>8, <1>9, <1>10, <1>11, <1>12 DEF ExecStep
<1>15. ASSUME NEW e \in Execs, CancelQueued(e) \/ CancelHolding(e) PROVE Alone'
  <2>1. /\ \/ pc[e] = "queued" /\ pc'[e] = "withdrawn"
           \/ pc[e] \in Holding /\ pc'[e] = "cancelled"
        /\ Others(e) /\ pool' = pool /\ SameCounts /\ SameCall /\ SameFlags
        /\ slot' = slot /\ result' = result
    BY <1>15, CancelStep
  <2>2. e \in InFlight
    BY <2>1 DEF InFlight, Ended, Holding, Recycling
  <2>3. pc'[e] \notin InLine /\ pc'[e] \notin Recycling
    BY <2>1, PhasesDiffer
  <2> QED BY <2>1, <2>2, <2>3, AloneMoves DEF SameCounts, SameCall, SameFlags
<1>16. ASSUME NEW c \in Callers, CancelStart(c) PROVE Alone'
  <2>1. /\ pc[c] \in {"removing old", "starting"} /\ Others(c) /\ pc'[c] = "cancelled"
        /\ SameLists /\ SameCounts /\ overlapped' = overlapped /\ result' = result
    BY <1>16, CancelStartStep
  <2>2. pc'[c] \notin InLine /\ pc'[c] \notin Recycling /\ (c \in InFlight' => c \in InFlight)
    BY <2>1, PhasesDiffer DEF InFlight, Ended
  <2>3. c \in Execs => (~overlapped' /\ cleanups' = 0 => Listing(c)')
    BY <2>1, <2>2, AloneParts DEF Listing, SameCounts
  <2> QED BY <2>1, <2>2, <2>3, AloneKept DEF SameCounts, SameLists
<1>17. CASE \/ \E e \in Execs : StrayEnds(e)
            \/ \E k \in late : LateCommand(k)
  <2>1. /\ pc' = pc /\ slot' = slot /\ result' = result
        /\ SameLists /\ SameCounts /\ SameCall /\ SameFlags
    BY <1>17, RemnantsStep
  <2> QED BY <2>1 DEF Alone, InFlight, Ended, SameLists, SameCounts, SameCall, SameFlags
<1>18. CASE \E c \in Callers : StartStep(c) \/ CancelStart(c)
  BY <1>18, <1>3, <1>4, <1>5, <1>16 DEF StartStep
<1>19. CASE \E e \in Execs : CancelQueued(e) \/ CancelHolding(e) \/ StrayEnds(e)
  BY <1>19, <1>15, <1>17
<1> QED BY <1>3, <1>13, <1>14, <1>17, <1>18, <1>19 DEF Next

-------------------------------------------------------------------------------
(***************************************************************************)
(* A pool that is started once, before its use.                            *)
(***************************************************************************)

\* A step of a call of execute().
LEMMA OnceKept ==
  ASSUME PoolInv, Once, NEW e \in Execs, Others(e),
         setup.startFirst => started \/ pc[e] # "idle",
         setup.startFirst => pc'[e] \notin StartPhases,
         pool = <<>> => pool' = <<>>
  PROVE  Once'
<1> SUFFICES ASSUME setup.startFirst PROVE Once'
  BY DEF Once, Others
<1>1. \A c \in Warmups : pc[c] = "returned"
  BY DEF Once
<1>2. \A c \in Warmups : pc'[c] = "returned"
  BY <1>1, CallersDiffer DEF Others
<1>3. \A d \in Execs : pc'[d] \notin StartPhases
  BY DEF Once, Others
<1>4. (\A c \in Warmups : pc'[c] = "idle") => pool' = <<>>
  <2> SUFFICES ASSUME \A c \in Warmups : pc'[c] = "idle" PROVE pool' = <<>>
    OBVIOUS
  <2>1. \A c \in Warmups : FALSE
    BY <1>2
  <2>2. pool = <<>>
    BY <2>1 DEF Once
  <2> QED BY <2>2
<1>5. \A c \in Warmups : \A k \in DOMAIN pool' :
        pc'[c] \in StartPhases => NameAt(k)' < startAt'[c]
  BY <1>2, PhasesDiffer
<1> QED BY <1>2, <1>3, <1>4, <1>5 DEF Once

\* Before the orchestrator's start() returns, nobody is served.
LEMMA Unserved ==
  ASSUME PoolInv, Once, setup.startFirst, NEW c \in Warmups, pc[c] # "returned"
  PROVE  ~started /\ \A e \in Execs : pc[e] = "idle"
BY DEF Once

\* The names in the list stay.
LEMMA NamesStay ==
  ASSUME PoolInv, NamesKept, NEW k \in DOMAIN pool, k \in DOMAIN pool', pool'[k] = pool[k]
  PROVE  NameAt(k)' = NameAt(k) /\ NameAt(k) \in Names
<1>1. pool[k] \in DOMAIN dicts /\ dicts[pool[k]].name \in Names
  BY TypeFacts
<1> QED BY <1>1 DEF NamesKept, NameAt

\* The start() that the orchestrator calls is the only one.
LEMMA StarterIsWarmup ==
  ASSUME PoolInv, Once, setup.startFirst, NEW c \in Callers, pc[c] \in StartPhases
  PROVE  /\ c \in Warmups /\ ~started /\ \A e \in Execs : pc[e] = "idle"
         /\ \A k \in DOMAIN pool : NameAt(k) < startAt[c]
<1>1. c \in Warmups
  BY DEF Once, Callers
<1>2. pc[c] # "returned"
  BY PhasesDiffer
<1> QED BY <1>1, <1>2, Unserved DEF Once

\* With one start the entries keep their places and their names differ.
LEMMA OnceStep ==
  ASSUME OneStart, PoolInv, Once, Next
  PROVE  Once'
<1>1. ASSUME NEW e \in Execs, ExecuteWarm(e) PROVE Once'
  <2>1. (setup.startFirst => started) /\ Others(e) /\ pool' = pool
    BY <1>1, ExecuteWarmStep
  <2>2. pc'[e] = "queued"
    BY <1>1, ExecuteWarmStep DEF PickedEntry
  <2>3. pc'[e] \notin StartPhases
    BY <2>2 DEF StartPhases
  <2> QED BY <2>1, <2>3, OnceKept
<1>2. ASSUME NEW e \in Execs, ExecuteCold(e) PROVE Once'
  <2>1. /\ setup.startFirst => started
        /\ Others(e) /\ SameLists
        /\ pc'[e] = "returned" \/ ~started
    BY <1>2, ExecuteColdStep
  <2>2. setup.startFirst => pc'[e] \notin StartPhases
    BY <2>1, PhasesDiffer
  <2> QED BY <2>1, <2>2, OnceKept DEF SameLists
<1>3. ASSUME NEW c \in Warmups, Warmup(c) PROVE Once'
  <2>1. /\ pc[c] = "idle" /\ Others(c) /\ pc'[c] = "removing old"
        /\ SameLists /\ started' = started
    BY <1>3, WarmupStep
  <2> SUFFICES ASSUME setup.startFirst PROVE Once'
    BY <2>1 DEF Once, Others
  <2>2. ~started /\ \A e \in Execs : pc[e] = "idle"
    BY <2>1, Unserved
  <2>3. ~started' /\ \A e \in Execs : pc'[e] = "idle"
    BY <2>1, <2>2, CallersDiffer DEF Others
  <2>4. pool = <<>>
    BY <2>1 DEF Once, OneStart
  <2>5. DOMAIN pool' = {}
    BY <2>1, <2>4, NoPositions DEF SameLists
  <2>6. ~(\A d \in Warmups : pc'[d] = "idle")
    BY <2>1
  <2> QED BY <2>3, <2>5, <2>6, PhasesDiffer DEF Once
<1>4. ASSUME NEW c \in Callers, StartRemoves(c) PROVE Once'
  <2>1. /\ pc[c] = "removing old" /\ Others(c) /\ pc'[c] = "starting"
        /\ SameLists /\ started' = started /\ startAt' = startAt
    BY <1>4, StartRemovesStep
  <2> SUFFICES ASSUME setup.startFirst PROVE Once'
    BY <2>1 DEF Once, Others
  <2>2. pc[c] \in StartPhases
    BY <2>1 DEF StartPhases
  <2>3. /\ c \in Warmups /\ ~started /\ \A e \in Execs : pc[e] = "idle"
        /\ \A k \in DOMAIN pool : NameAt(k) < startAt[c]
    BY <2>2, StarterIsWarmup
  <2>4. ~started' /\ \A e \in Execs : pc'[e] = "idle"
    BY <2>1, <2>3, CallersDiffer DEF Others
  <2>5. \A d \in Warmups : d = c
    BY <2>3 DEF OneStart
  <2>6. \A k \in DOMAIN pool' : NameAt(k)' < startAt'[c]
    BY <2>1, <2>3 DEF SameLists, NameAt
  <2>7. ~(\A d \in Warmups : pc'[d] = "idle")
    BY <2>1, <2>3
  <2> QED BY <2>4, <2>5, <2>6, <2>7, PhasesDiffer DEF Once
<1>5. ASSUME NEW c \in Callers, StartRuns(c) PROVE Once'
  <2>1. /\ pc[c] = "starting" /\ Others(c) /\ pc'[c] \in {"removing old", "started"}
        /\ startAt'[c] = startAt[c] + 1 /\ started' = started
        /\ startAt[c] \in Names
        /\ EntryAdded(startAt[c]) \/ SameLists
    BY <1>5, StartRunsStep
  <2> SUFFICES ASSUME setup.startFirst PROVE Once'
    BY <2>1 DEF Once, Others
  <2>2. pc[c] \in StartPhases
    BY <2>1 DEF StartPhases
  <2>3. /\ c \in Warmups /\ ~started /\ \A e \in Execs : pc[e] = "idle"
        /\ \A k \in DOMAIN pool : NameAt(k) < startAt[c]
    BY <2>2, StarterIsWarmup
  <2>4. ~started' /\ \A e \in Execs : pc'[e] = "idle"
    BY <2>1, <2>3, CallersDiffer DEF Others
  <2>5. \A d \in Warmups : d = c
    BY <2>3 DEF OneStart
  <2>6. \A k \in DOMAIN pool' : NameAt(k)' < startAt'[c]
    <3> SUFFICES ASSUME NEW k \in DOMAIN pool' PROVE NameAt(k)' < startAt'[c]
      OBVIOUS
    <3>0. startAt[c] \in Nat
      BY <2>1, NamesAreNumbers
    <3>1. CASE EntryAdded(startAt[c])
      <4>1. /\ \A m \in DOMAIN pool : m \in DOMAIN pool' /\ pool'[m] = pool[m]
            /\ k \in DOMAIN pool \/ k = Len(pool) + 1
        BY <3>1, ListExtended
      <4>2. CASE k \in DOMAIN pool
        <5>1. NameAt(k)' = NameAt(k) /\ NameAt(k) \in Nat
          BY <3>1, <4>1, <4>2, NamesStay DEF EntryAdded, Names
        <5>2. NameAt(k) < startAt[c]
          BY <2>3, <4>2
        <5> QED BY <2>1, <3>0, <5>1, <5>2, SmallerThanNext
      <4>3. CASE k = Len(pool) + 1
        <5>1. NameAt(k)' = startAt[c]
          BY <3>1, <4>3 DEF EntryAdded, NameAt
        <5> QED BY <2>1, <3>0, <5>1, SmallerThanNext
      <4> QED BY <4>1, <4>2, <4>3
    <3>2. CASE SameLists
      <4>1. k \in DOMAIN pool /\ NameAt(k)' = NameAt(k)
        BY <3>2 DEF SameLists, NameAt
      <4>2. NameAt(k) < startAt[c] /\ NameAt(k) \in Nat
        BY <2>3, <4>1, TypeFacts DEF NameAt, Names
      <4> QED BY <2>1, <3>0, <4>1, <4>2, SmallerThanNext
    <3> QED BY <2>1, <3>1, <3>2
  <2>7. ~(\A d \in Warmups : pc'[d] = "idle")
    BY <2>1, <2>3
  <2> QED BY <2>4, <2>5, <2>6, <2>7, PhasesDiffer DEF Once
<1>6. ASSUME NEW c \in Warmups, WarmupReturns(c) PROVE Once'
  <2>1. pc[c] = "started" /\ Others(c) /\ pc'[c] = "returned"
    BY <1>6, WarmupReturnsStep
  <2> SUFFICES ASSUME setup.startFirst PROVE Once'
    BY <2>1 DEF Once, Others
  <2>2. \A d \in Warmups : pc'[d] = "returned"
    BY <2>1 DEF OneStart
  <2>3. \A d \in Execs : pc'[d] \notin StartPhases
    BY <2>1, CallersDiffer DEF Others, Once
  <2>4. ~(\A d \in Warmups : pc'[d] = "idle")
    BY <2>1
  <2> QED BY <2>2, <2>3, <2>4, PhasesDiffer DEF Once
<1>7. ASSUME NEW e \in Execs, PickAfterStart(e) PROVE Once'
  <2>1. pc[e] = "started" /\ Others(e)
    BY <1>7, PickAfterStartStep
  <2>2. ~setup.startFirst
    BY <2>1 DEF Once, StartPhases
  <2> QED BY <2>1, <2>2 DEF Once, Others
<1>8. ASSUME NEW e \in Execs,
             \/ Begin(e) \/ End(e) \/ AfterKill(e)
             \/ RecycleRemoves(e) \/ RecycleRuns(e) \/ RecycleRetries(e) \/ RecycleGivesUp(e)
      PROVE  Once'
  <2>1. /\ pc[e] \in {"queued", "running", "killing", "removing", "rerun", "rerun again"}
        /\ Others(e)
    BY <1>8, BeginStep, EndStep, AfterKillStep, RecycleRemovesStep, RecycleRunsStep,
       RecycleRetriesStep, RecycleGivesUpStep
  <2>2. pc'[e] \in {"running", "killing", "removing", "rerun", "rerun again", "returned"}
    BY <1>8, BeginStep, EndStep, AfterKillStep, RecycleRemovesStep, RecycleRunsStep,
       RecycleRetriesStep, RecycleGivesUpStep
  <2>3. pc[e] # "idle" /\ pc'[e] \notin StartPhases
    BY <2>1, <2>2 DEF StartPhases
  <2>4. pool = <<>> => pool' = <<>>
    <3>1. CASE Begin(e) \/ End(e) \/ AfterKill(e) \/ RecycleRemoves(e) \/ RecycleRetries(e)
      BY <3>1, BeginStep, EndStep, AfterKillStep, RecycleRemovesStep, RecycleRetriesStep
      DEF SameLists
    <3>2. CASE RecycleRuns(e) \/ RecycleGivesUp(e)
      <4>1. slot[e] \in DOMAIN pool \/ pool' = pool
        BY <3>2, RecycleRunsStep, RecycleGivesUpStep DEF EntryReplaced, EntryDropped
      <4> QED BY <4>1
    <3> QED BY <1>8, <3>1, <3>2
  <2> QED BY <2>1, <2>3, <2>4, OnceKept
<1>9. ASSUME CleanupBegins \/ CleanupRemoves \/ CleanupEnds PROVE Once'
  <2>1. /\ setup' = setup /\ dicts' = dicts /\ pc' = pc /\ SameCall
        /\ started' => started
        /\ pool' = pool \/ pool' = <<>>
    BY <1>9, CleanupStep
  <2> SUFFICES ASSUME setup.startFirst PROVE Once'
    BY <2>1 DEF Once
  <2>2. \A k \in DOMAIN pool' : k \in DOMAIN pool /\ NameAt(k)' = NameAt(k)
    BY <2>1 DEF NameAt
  <2>3. \A c \in Warmups : \A k \in DOMAIN pool' :
          pc'[c] \in StartPhases => NameAt(k)' < startAt'[c]
    BY <2>1, <2>2 DEF Once, SameCall
  <2>4. (\A c \in Warmups : pc'[c] = "idle") => pool' = <<>>
    BY <2>1 DEF Once
  <2>5. (\A e \in Execs : pc'[e] \notin StartPhases)
        /\ (started' \/ (\E e \in Execs : pc'[e] # "idle") =>
              \A c \in Warmups : pc'[c] = "returned")
    BY <2>1 DEF Once
  <2> QED BY <2>3, <2>4, <2>5 DEF Once
<1>10. CASE \E e \in Execs : ExecuteWarm(e) \/ ExecuteCold(e) \/ ExecStep(e)
  BY <1>10, <1>1, <1>2, <1>7, <1>8 DEF ExecStep
<1>11. ASSUME NEW e \in Execs, CancelQueued(e) \/ CancelHolding(e) PROVE Once'
  <2>1. /\ pc[e] \in {"queued"} \cup Holding /\ pc'[e] \in {"withdrawn", "cancelled"}
        /\ Others(e) /\ pool' = pool
    BY <1>11, CancelStep
  <2>2. pc[e] # "idle" /\ pc'[e] \notin StartPhases
    BY <2>1, PhasesDiffer DEF Holding, Recycling
  <2> QED BY <2>1, <2>2, OnceKept
<1>12. ASSUME NEW c \in Callers, CancelStart(c) PROVE Once'
  <2>1. /\ pc[c] \in {"removing old", "starting"} /\ Others(c) /\ pc'[c] = "cancelled"
        /\ SameLists /\ started' = started
    BY <1>12, CancelStartStep
  <2> SUFFICES ASSUME setup.startFirst PROVE Once'
    BY <2>1 DEF Once, Others
  <2>2. pc[c] \in StartPhases
    BY <2>1 DEF StartPhases
  <2>3. c \in Warmups /\ ~started /\ \A e \in Execs : pc[e] = "idle"
    BY <2>2, StarterIsWarmup
  <2>4. ~started' /\ \A e \in Execs : pc'[e] = "idle"
    BY <2>1, <2>3, CallersDiffer DEF Others
  <2>5. \A d \in Warmups : pc'[d] = "cancelled"
    BY <2>1, <2>3 DEF OneStart
  <2>6. ~(\A d \in Warmups : pc'[d] = "idle")
    BY <2>3, <2>5
  <2> QED BY <2>4, <2>5, <2>6, PhasesDiffer DEF Once
<1>13. CASE \/ \E e \in Execs : StrayEnds(e)
            \/ \E k \in late : LateCommand(k)
  <2>1. setup' = setup /\ pc' = pc /\ SameLists /\ SameCall /\ SameFlags
    BY <1>13, RemnantsStep
  <2>2. pool' = pool /\ dicts' = dicts /\ startAt' = startAt /\ (started' <=> started)
    BY <2>1 DEF SameLists, SameCall, SameFlags
  <2> QED BY <2>1, <2>2 DEF Once, NameAt
<1>14. CASE \E c \in Callers : StartStep(c) \/ CancelStart(c)
  BY <1>14, <1>4, <1>5, <1>6, <1>12 DEF StartStep
<1>15. CASE \E e \in Execs : CancelQueued(e) \/ CancelHolding(e) \/ StrayEnds(e)
  BY <1>15, <1>11, <1>13
<1> QED BY <1>3, <1>9, <1>10, <1>13, <1>14, <1>15 DEF Next

-------------------------------------------------------------------------------
(***************************************************************************)
(* A container in which a candidate timed out is replaced.                 *)
(***************************************************************************)

\* A call in line keeps the name of its container.
LEMMA NameStays ==
  ASSUME PoolInv, NamesKept, NEW e \in Execs, pc[e] \in InLine, at'[e] = at[e]
  PROVE  NameOf(e)' = NameOf(e) /\ NameOf(e) \in Names
<1>1. at[e] \in DOMAIN dicts /\ NameOf(e) \in Names
  BY CallFacts
<1> QED BY <1>1 DEF NamesKept, NameOf

\* A call that replaces a container is in line.
LEMMA ReplacesInLine ==
  ASSUME NEW e, NEW n, Replaces(e, n)
  PROVE  pc[e] \in InLine /\ pc[e] \in Holding /\ NameOf(e) = n
BY DEF Replaces, InLine, Holding

\* Who holds or awaits a semaphore is no start().
LEMMA InLineInFlight ==
  ASSUME NEW e \in Execs, pc[e] \in InLine
  PROVE  e \in InFlight
BY PhasesDiffer DEF InFlight, Ended

\* No dictionary changes.
LEMMA SameListsKeepNames ==
  ASSUME dicts' = dicts
  PROVE  NamesKept
BY DEF NamesKept

\* Another call's replacing, and what it finds.
LEMMA ReplacesKept ==
  ASSUME PoolInv, NamesKept, NEW e \in Execs, NEW c, Others(c), e # c
  PROVE  /\ \A n : Replaces(e, n) => Replaces(e, n)'
         /\ pc'[e] = pc[e] /\ (pc[e] \in InLine => NameOf(e)' = NameOf(e))
<1>1. pc'[e] = pc[e] /\ at'[e] = at[e] /\ outcome'[e] = outcome[e]
  BY DEF Others
<1>2. pc[e] \in InLine => NameOf(e)' = NameOf(e)
  BY <1>1, NameStays
<1>3. ASSUME NEW n, Replaces(e, n) PROVE Replaces(e, n)'
  <2>1. NameOf(e)' = n
    BY <1>2, <1>3, ReplacesInLine
  <2>2. pc'[e] \in {"killing"} \cup Recycling /\ outcome'[e] = "timeout"
    BY <1>1, <1>3 DEF Replaces
  <2> QED BY <2>1, <2>2 DEF Replaces
<1> QED BY <1>1, <1>2, <1>3

\* Another call goes on finding its entry.
LEMMA FindsKept ==
  ASSUME PoolInv, NamesKept, NEW e \in Execs, NEW c, Others(c), e # c, Finds(e), pool' = pool
  PROVE  Finds(e)'
<1>1. /\ pc'[e] = pc[e] /\ at'[e] = at[e] /\ slot'[e] = slot[e]
  BY DEF Others
<1>2. ASSUME pc'[e] \in Recycling, pool # <<>>
      PROVE  slot'[e] \in DOMAIN pool' /\ NameAt(slot[e])' = NameOf(e)'
  <2>1. slot[e] \in DOMAIN pool /\ NameAt(slot[e]) = NameOf(e)
    BY <1>1, <1>2 DEF Finds
  <2>2. PICK k \in DOMAIN pool : k = slot[e]
    BY <2>1
  <2>3. NameAt(k)' = NameAt(k) /\ NameAt(k) = NameAt(slot[e])
    BY <2>2, NamesStay
  <2>4. slot'[e] = k /\ NameAt(slot[e])' = NameAt(k)'
    BY <1>1, <2>2 DEF NameAt
  <2>5. NameOf(e)' = NameOf(e)
    BY <1>1, <1>2, NameStays, PhasesDiffer
  <2> QED BY <2>1, <2>2, <2>3, <2>4, <2>5
<1>3. pc'[e] \in InLine => (pool' = <<>> \/ \E k \in DOMAIN pool' : pool'[k] = at'[e])
  BY <1>1 DEF Finds
<1> QED BY <1>2, <1>3 DEF Finds

\* An entry is unlisted as long as the list stays.
LEMMA UnlistedKept ==
  ASSUME PoolInv, NamesKept, pool' = pool, NEW c, Others(c), c \in Execs => pc[c] # "cancelled",
         NEW n, Unlisted(n)
  PROVE  Unlisted(n)'
<1> SUFFICES ASSUME NEW k \in DOMAIN pool, NameAt(k)' = n PROVE CutShort(pool[k])'
  BY DEF Unlisted
<1>1. NameAt(k) = n
  BY NamesStay
<1>2. CutShort(pool[k])
  BY <1>1 DEF Unlisted
<1>3. PICK e \in Execs : pc[e] = "cancelled" /\ outcome[e] = "timeout" /\ at[e] = pool[k]
  BY <1>2 DEF CutShort
<1>4. pc'[e] = "cancelled" /\ outcome'[e] = "timeout" /\ at'[e] = pool'[k]
  BY <1>3 DEF Others
<1> QED BY <1>4 DEF CutShort

\* A step that leaves the list alone.
LEMMA SuspectsKept ==
  ASSUME PoolInv, Alone, Suspects, NEW c \in Callers, Others(c), NamesKept, pool' = pool,
         c \in Execs => pc[c] # "cancelled",
         ~overlapped' => ~overlapped,
         suspect' = suspect \/ c \in InFlight,
         setup.startFirst /\ ~overlapped' =>
           /\ \A n \in suspect' : n \in suspect \/ (c \in Execs /\ Replaces(c, n)'),
         setup.startFirst /\ ~overlapped' /\ c \in Execs =>
           /\ \A n \in suspect : Replaces(c, n) => Replaces(c, n)' \/ Unlisted(n)'
           /\ pc'[c] = "queued" => NameOf(c)' \notin suspect' \/ CutShort(at[c])'
           /\ Finds(c)'
  PROVE  Suspects'
<1> SUFFICES ASSUME setup.startFirst, ~overlapped'
             PROVE  (NamesDiffer /\ SuspectsReplaced /\ QueuedIsFresh /\ Listed)'
  BY DEF Suspects, Others
<1>1. /\ NamesDiffer /\ SuspectsReplaced /\ QueuedIsFresh /\ Listed
  BY DEF Suspects
<1>2. \A e, d \in InFlight : e = d
  BY AloneParts
<1>3. \A k \in DOMAIN pool : NameAt(k)' = NameAt(k)
  BY NamesStay
<1>4. NamesDiffer'
  BY <1>1, <1>3 DEF NamesDiffer
<1>5. SuspectsReplaced'
  <2> SUFFICES ASSUME NEW n \in suspect'
               PROVE  (\E e \in Execs : Replaces(e, n)') \/ Unlisted(n)'
    BY DEF SuspectsReplaced
  <2>1. CASE n \in suspect
    <3>1. CASE \E e \in Execs : Replaces(e, n)
      <4>1. PICK e \in Execs : Replaces(e, n)
        BY <3>1
      <4>2. CASE e = c
        BY <2>1, <4>1, <4>2
      <4>3. CASE e # c
        BY <4>1, <4>3, ReplacesKept
      <4> QED BY <4>2, <4>3
    <3>2. CASE Unlisted(n)
      BY <3>2, UnlistedKept
    <3> QED BY <1>1, <2>1, <3>1, <3>2 DEF SuspectsReplaced
  <2>2. CASE c \in Execs /\ Replaces(c, n)'
    BY <2>2
  <2> QED BY <2>1, <2>2
<1>6. QueuedIsFresh'
  <2> SUFFICES ASSUME NEW e \in Execs, pc'[e] = "queued"
               PROVE  NameOf(e)' \notin suspect' \/ CutShort(at[e])'
    BY DEF QueuedIsFresh
  <2>1. CASE e = c
    BY <2>1
  <2>2. CASE e # c
    <3>1. pc[e] = "queued" /\ at'[e] = at[e]
      BY <2>2 DEF Others
    <3>2. pc[e] \in InLine /\ e \in InFlight
      BY <3>1 DEF InLine, InFlight, Ended
    <3>3. NameOf(e)' = NameOf(e)
      BY <2>2, <3>2, ReplacesKept
    <3>4. suspect' = suspect
      BY <1>2, <2>2, <3>2
    <3>5. CASE NameOf(e) \notin suspect
      BY <3>3, <3>4, <3>5
    <3>6. CASE CutShort(at[e])
      <4>1. PICK f \in Execs : pc[f] = "cancelled" /\ outcome[f] = "timeout" /\ at[f] = at[e]
        BY <3>6 DEF CutShort
      <4>2. pc'[f] = "cancelled" /\ outcome'[f] = "timeout" /\ at'[f] = at'[e]
        BY <3>1, <4>1 DEF Others
      <4> QED BY <4>2 DEF CutShort
    <3> QED BY <1>1, <3>1, <3>5, <3>6 DEF QueuedIsFresh
  <2> QED BY <2>1, <2>2
<1>7. Listed'
  <2> SUFFICES ASSUME NEW e \in Execs PROVE Finds(e)'
    BY DEF Listed
  <2>1. e # c => Finds(e)'
    BY <1>1, FindsKept DEF Listed
  <2> QED BY <2>1
<1> QED BY <1>4, <1>5, <1>6, <1>7

\* A call that keeps its dictionary and its index.
LEMMA FindsMoves ==
  ASSUME PoolInv, NEW e \in Execs, Finds(e), pc[e] \in InLine, NamesKept, pool' = pool,
         at' = at, slot' = slot, pc'[e] \in Recycling => pc[e] \in Recycling
  PROVE  Finds(e)'
<1>1. NameOf(e)' = NameOf(e)
  BY NameStays
<1>2. pc'[e] \in InLine => (pool' = <<>> \/ \E k \in DOMAIN pool' : pool'[k] = at'[e])
  BY DEF Finds
<1>3. ASSUME pc'[e] \in Recycling, pool # <<>>
      PROVE  slot'[e] \in DOMAIN pool' /\ NameAt(slot[e])' = NameOf(e)'
  <2>1. slot[e] \in DOMAIN pool /\ NameAt(slot[e]) = NameOf(e)
    BY <1>3 DEF Finds
  <2>2. PICK k \in DOMAIN pool : k = slot[e]
    BY <2>1
  <2>3. NameAt(k)' = NameAt(k) /\ NameAt(k) = NameAt(slot[e])
    BY <2>2, NamesStay
  <2>4. slot'[e] = k /\ NameAt(slot[e])' = NameAt(k)'
    BY <2>2 DEF NameAt
  <2> QED BY <1>1, <2>1, <2>2, <2>3, <2>4
<1> QED BY <1>2, <1>3 DEF Finds

\* start() adds a name that is not in the list, before anything runs.
LEMMA StartRunsSuspects ==
  ASSUME OneStart, PoolInv, Once, Suspects, NEW c \in Callers, StartRuns(c)
  PROVE  Suspects'
<1>1. /\ pc[c] = "starting" /\ Others(c)
      /\ overlapped' = overlapped /\ startAt[c] \in Names
      /\ EntryAdded(startAt[c]) \/ (SameLists /\ SameDocker)
  BY StartRunsStep
<1> SUFFICES ASSUME setup.startFirst, ~overlapped'
             PROVE  (NamesDiffer /\ SuspectsReplaced /\ QueuedIsFresh /\ Listed)'
  BY <1>1 DEF Suspects, Others
<1>2. NamesDiffer /\ SuspectsReplaced
  BY <1>1 DEF Suspects
<1>3. /\ c \in Warmups /\ \A e \in Execs : pc[e] = "idle"
      /\ \A k \in DOMAIN pool : NameAt(k) < startAt[c]
  BY <1>1, StarterIsWarmup DEF StartPhases
<1>4. \A e \in Execs : pc'[e] = "idle"
  BY <1>1, <1>3, CallersDiffer DEF Others
<1>5. QueuedIsFresh'
  BY <1>4 DEF QueuedIsFresh
<1>6. Listed'
  BY <1>4, PhasesDiffer DEF Listed, Finds
<1>7. \A n \in suspect : \A k \in DOMAIN pool : NameAt(k) # n
  <2>1. \A e \in Execs : pc[e] \notin InLine /\ pc[e] # "cancelled"
    BY <1>3, PhasesDiffer
  <2>2. \A x : ~CutShort(x)
    BY <2>1 DEF CutShort
  <2> QED BY <1>2, <2>1, <2>2, ReplacesInLine DEF SuspectsReplaced, Unlisted
<1>8. CASE SameLists /\ SameDocker
  <2>1. \A k \in DOMAIN pool' : k \in DOMAIN pool /\ NameAt(k)' = NameAt(k)
    BY <1>8 DEF SameLists, NameAt
  <2>2. suspect' = suspect
    BY <1>8 DEF SameDocker
  <2>3. NamesDiffer'
    BY <1>2, <2>1 DEF NamesDiffer
  <2>4. SuspectsReplaced'
    BY <1>7, <2>1, <2>2 DEF SuspectsReplaced, Unlisted
  <2> QED BY <1>5, <1>6, <2>3, <2>4
<1>9. CASE EntryAdded(startAt[c])
  <2>1. /\ \A k \in DOMAIN pool : k \in DOMAIN pool' /\ pool'[k] = pool[k]
        /\ \A k \in DOMAIN pool' : k \in DOMAIN pool \/ k = Len(pool) + 1
    BY <1>9, ListExtended
  <2>2. \A k \in DOMAIN pool : NameAt(k)' = NameAt(k) /\ NameAt(k) # startAt[c]
    <3> SUFFICES ASSUME NEW k \in DOMAIN pool
                 PROVE  NameAt(k)' = NameAt(k) /\ NameAt(k) # startAt[c]
      OBVIOUS
    <3>1. NameAt(k)' = NameAt(k) /\ NameAt(k) \in Nat
      BY <1>9, <2>1, NamesStay, NamesAreNumbers DEF EntryAdded
    <3>2. startAt[c] \in Nat /\ NameAt(k) < startAt[c]
      BY <1>1, <1>3, NamesAreNumbers
    <3> QED BY <3>1, <3>2
  <2>4. suspect' = suspect \ {startAt[c]}
    BY <1>9 DEF EntryAdded
  <2>3. PICK l : l = Len(pool) + 1
    OBVIOUS
  <2>5. NameAt(l)' = startAt[c]
    BY <1>9, <2>3 DEF EntryAdded, NameAt
  <2>6. \A k \in DOMAIN pool' : k \in DOMAIN pool \/ k = l
    BY <2>1, <2>3
  <2>7. NamesDiffer'
    BY <1>2, <2>2, <2>5, <2>6 DEF NamesDiffer
  <2>8. SuspectsReplaced'
    BY <1>7, <2>2, <2>4, <2>5, <2>6 DEF SuspectsReplaced, Unlisted
  <2> QED BY <1>5, <1>6, <2>7, <2>8
<1> QED BY <1>1, <1>8, <1>9

\* A call returns when its container has been replaced, or dropped.
LEMMA RecycledSuspects ==
  ASSUME PoolInv, Alone, Suspects, NEW e \in Execs, RecycleRuns(e) \/ RecycleGivesUp(e)
  PROVE  Suspects'
<1>1. /\ pc[e] \in Recycling /\ Others(e) /\ pc'[e] = "returned" /\ SameFlags
      /\ NamesKept
  BY RecycleRunsStep, RecycleGivesUpStep, SameListsKeepNames DEF Recycling
<1> SUFFICES ASSUME setup.startFirst, ~overlapped'
             PROVE  (NamesDiffer /\ SuspectsReplaced /\ QueuedIsFresh /\ Listed)'
  BY <1>1 DEF Suspects, Others
<1>2. NamesDiffer /\ SuspectsReplaced /\ Finds(e) /\ \A d, b \in InFlight : d = b
  BY <1>1, AloneParts DEF Suspects, Listed, SameFlags
<1>3. pc[e] \in InLine /\ e \in InFlight
  BY <1>1, PhasesDiffer, InLineInFlight
<1>4. \A d \in Execs : pc'[d] \notin InLine
  <2> SUFFICES ASSUME NEW d \in Execs, pc'[d] \in InLine PROVE FALSE
    OBVIOUS
  <2>1. d # e
    BY <1>1, PhasesDiffer
  <2>2. d \in InFlight
    BY <2>1, <1>1, InLineInFlight DEF Others
  <2> QED BY <1>2, <1>3, <2>1, <2>2
<1>5. QueuedIsFresh'
  <2>1. "queued" \in InLine
    BY DEF InLine
  <2> QED BY <1>4, <2>1 DEF QueuedIsFresh
<1>6. Listed'
  BY <1>4, PhasesDiffer DEF Listed, Finds
<1>7. \A n \in suspect : n # NameOf(e) => Unlisted(n)
  <2> SUFFICES ASSUME NEW n \in suspect, n # NameOf(e)
               PROVE  Unlisted(n)
    OBVIOUS
  <2>1. ASSUME NEW d \in Execs, Replaces(d, n) PROVE FALSE
    <3>1. d \in InFlight /\ NameOf(d) = n
      BY <2>1, ReplacesInLine, InLineInFlight
    <3> QED BY <1>2, <1>3, <3>1
  <2> QED BY <1>2, <2>1 DEF SuspectsReplaced
<1>8. pool = <<>> \/ (slot[e] \in DOMAIN pool /\ NameAt(slot[e]) = NameOf(e))
  BY <1>1, <1>2 DEF Finds
<1>9. ASSUME pool' = pool, slot[e] \notin DOMAIN pool, suspect' \subseteq suspect
      PROVE  (NamesDiffer /\ SuspectsReplaced)'
  <2>1. DOMAIN pool' = {}
    BY <1>8, <1>9, NoPositions
  <2> QED BY <2>1 DEF NamesDiffer, SuspectsReplaced, Unlisted
<1>10. ASSUME RecycleRuns(e), EntryReplaced(slot[e], NameOf(e))
       PROVE  (NamesDiffer /\ SuspectsReplaced)'
  <2>1. suspect' = suspect \ {NameOf(e)}
    BY <1>10, RecycleRunsStep
  <2>2. PICK k \in DOMAIN pool : k = slot[e]
    BY <1>10 DEF EntryReplaced
  <2>3. NameAt(k) = NameOf(e)
    BY <1>8, <2>2, NoPositions
  <2>4. DOMAIN pool' = DOMAIN pool /\ dicts'[pool'[k]].name = NameOf(e)
        /\ \A m \in DOMAIN pool : m # k => pool'[m] = pool[m]
    BY <1>10, <2>2 DEF EntryReplaced
  <2>5. \A m \in DOMAIN pool : NameAt(m)' = NameAt(m)
    <3>1. NameAt(k)' = NameAt(k)
      BY <2>3, <2>4 DEF NameAt
    <3>2. ASSUME NEW m \in DOMAIN pool, m # k PROVE NameAt(m)' = NameAt(m)
      BY <1>1, <2>4, <3>2, NamesStay
    <3> QED BY <3>1, <3>2
  <2>6. NamesDiffer'
    BY <1>2, <2>4, <2>5 DEF NamesDiffer
  <2>7. SuspectsReplaced'
    <3> SUFFICES ASSUME NEW n \in suspect', NEW m \in DOMAIN pool', NameAt(m)' = n
                 PROVE  CutShort(pool[m])'
      BY DEF SuspectsReplaced, Unlisted
    <3>1. n \in suspect /\ n # NameOf(e) /\ m \in DOMAIN pool /\ NameAt(m) = n
      BY <2>1, <2>4, <2>5
    <3>2. CutShort(pool[m]) /\ m # k
      BY <1>7, <2>3, <3>1 DEF Unlisted
    <3>3. pool'[m] = pool[m]
      BY <2>4, <3>1, <3>2
    <3> DEFINE x == pool[m]
    <3>4. CutShort(x) /\ pool'[m] = x
      BY <3>2, <3>3
    <3> HIDE DEF x
    <3>5. PICK f \in Execs : pc[f] = "cancelled" /\ outcome[f] = "timeout" /\ at[f] = x
      BY <3>4 DEF CutShort
    <3>6. f # e
      BY <1>3, <3>5, PhasesDiffer
    <3>7. pc'[f] = "cancelled" /\ outcome'[f] = "timeout" /\ at'[f] = pool'[m]
      BY <1>1, <3>4, <3>5, <3>6 DEF Others
    <3> QED BY <3>7 DEF CutShort
  <2> QED BY <2>6, <2>7
<1>11. ASSUME RecycleGivesUp(e), EntryDropped(slot[e])
       PROVE  (NamesDiffer /\ SuspectsReplaced)'
  <2>1. suspect' = suspect /\ dicts' = dicts
    BY <1>11, RecycleGivesUpStep DEF SameDocker
  <2>2. PICK k \in DOMAIN pool : k = slot[e]
    BY <1>11 DEF EntryDropped
  <2>3. NameAt(k) = NameOf(e)
    BY <1>8, <2>2, NoPositions
  <2>4. \A m \in DOMAIN pool' : \E j \in DOMAIN pool :
          /\ j # k /\ pool'[m] = pool[j]
          /\ (m < k /\ j = m) \/ (m >= k /\ j = m + 1)
    BY <1>11, <2>2 DEF EntryDropped
  <2>5. \A m \in DOMAIN pool' : \E j \in DOMAIN pool : j # k /\ NameAt(m)' = NameAt(j)
    BY <2>1, <2>4 DEF NameAt
  <2>6. \A m \in DOMAIN pool' : NameAt(m)' # NameOf(e)
    BY <1>2, <2>3, <2>5 DEF NamesDiffer
  <2>7. NamesDiffer'
    <3> SUFFICES ASSUME NEW m \in DOMAIN pool', NEW i \in DOMAIN pool', NameAt(m)' = NameAt(i)'
                 PROVE  m = i
      BY DEF NamesDiffer
    <3>1. PICK j \in DOMAIN pool : /\ pool'[m] = pool[j]
                                   /\ (m < k /\ j = m) \/ (m >= k /\ j = m + 1)
      BY <2>4
    <3>2. PICK h \in DOMAIN pool : /\ pool'[i] = pool[h]
                                   /\ (i < k /\ h = i) \/ (i >= k /\ h = i + 1)
      BY <2>4
    <3>3. j = h
      BY <1>2, <2>1, <3>1, <3>2 DEF NamesDiffer, NameAt
    <3>4. m \in Nat /\ i \in Nat /\ k \in Nat
      <4>1. DOMAIN pool \subseteq Nat /\ DOMAIN pool' \subseteq Nat
        BY TypeFacts, RecycleGivesUpPool, <1>11, PositionsAreNumbers DEF PoolInv, PoolTypes
      <4> QED BY <4>1
    <3> QED BY <3>1, <3>2, <3>3, <3>4
  <2>8. SuspectsReplaced'
    <3> SUFFICES ASSUME NEW n \in suspect', NEW m \in DOMAIN pool', NameAt(m)' = n
                 PROVE  CutShort(pool[m])'
      BY DEF SuspectsReplaced, Unlisted
    <3>1. n \in suspect /\ n # NameOf(e)
      BY <2>1, <2>6
    <3>2. PICK j \in DOMAIN pool : pool'[m] = pool[j]
      BY <2>4
    <3>3. NameAt(j) = n
      BY <2>1, <3>2 DEF NameAt
    <3>4. CutShort(pool[j])
      BY <1>7, <3>1, <3>3 DEF Unlisted
    <3>5. PICK f \in Execs : pc[f] = "cancelled" /\ outcome[f] = "timeout" /\ at[f] = pool[j]
      BY <3>4 DEF CutShort
    <3>6. f # e
      BY <1>3, <3>5, PhasesDiffer
    <3>7. pc'[f] = "cancelled" /\ outcome'[f] = "timeout" /\ at'[f] = pool'[m]
      BY <1>1, <3>2, <3>5, <3>6 DEF Others
    <3> QED BY <3>7 DEF CutShort
  <2> QED BY <2>7, <2>8
<1>12. (NamesDiffer /\ SuspectsReplaced)'
  <2>1. CASE RecycleRuns(e)
    <3>1. /\ suspect' = suspect \ {NameOf(e)}
          /\ \/ EntryReplaced(slot[e], NameOf(e))
             \/ slot[e] \notin DOMAIN pool /\ pool' = pool
      BY <2>1, RecycleRunsStep
    <3>2. suspect' \subseteq suspect
      BY <3>1
    <3> QED BY <1>9, <1>10, <2>1, <3>1, <3>2
  <2>2. CASE RecycleGivesUp(e)
    <3>1. /\ suspect' = suspect
          /\ \/ EntryDropped(slot[e])
             \/ slot[e] \notin DOMAIN pool /\ pool' = pool
      BY <2>2, RecycleGivesUpStep DEF SameDocker
    <3>2. suspect' \subseteq suspect
      BY <3>1
    <3> QED BY <1>9, <1>11, <2>2, <3>1, <3>2
  <2> QED BY <2>1, <2>2
<1> QED BY <1>5, <1>6, <1>12

\* A container in which a command may still run is replaced before a call enters it.
LEMMA SuspectsStep ==
  ASSUME OneStart, PoolInv, Alone, Once, Suspects, Next
  PROVE  Suspects'
<1>0. \A e \in Execs : setup.startFirst /\ ~overlapped => Finds(e)
  BY DEF Suspects, Listed
<1>1. ASSUME NEW e \in Execs, ExecuteWarm(e) PROVE Suspects'
  <2>1. /\ pc[e] = "idle" /\ Others(e) /\ pool' = pool /\ dicts' = dicts /\ SameDocker
        /\ ~overlapped' => ~overlapped /\ InFlight = {}
    BY <1>1, ExecuteWarmStep
  <2>2. PICK i \in DOMAIN pool : PickedEntry(e, i)
    BY <1>1, ExecuteWarmStep
  <2>3. pc'[e] = "queued" /\ at'[e] = pool[i] /\ NameOf(e)' = NameAt(i)
    BY <2>1, <2>2 DEF PickedEntry, NameOf, NameAt
  <2>4. ~Replaces(e, NameOf(e)) /\ \A n : ~Replaces(e, n)
    BY <2>1 DEF Replaces, Recycling
  <2>5. setup.startFirst /\ ~overlapped' => NameOf(e)' \notin suspect' \/ CutShort(at[e])'
    <3> SUFFICES ASSUME setup.startFirst, ~overlapped', NameAt(i) \in suspect
                 PROVE  CutShort(at[e])'
      BY <2>1, <2>3 DEF SameDocker
    <3>1. SuspectsReplaced
      BY <2>1 DEF Suspects
    <3>2. ASSUME NEW d \in Execs, Replaces(d, NameAt(i)) PROVE FALSE
      BY <2>1, <3>2, ReplacesInLine, InLineInFlight
    <3>3. CutShort(pool[i])
      BY <3>1, <3>2 DEF SuspectsReplaced, Unlisted
    <3>4. PICK f \in Execs : pc[f] = "cancelled" /\ outcome[f] = "timeout" /\ at[f] = pool[i]
      BY <3>3 DEF CutShort
    <3>5. pc'[f] = "cancelled" /\ outcome'[f] = "timeout" /\ at'[f] = at'[e]
      BY <2>1, <2>3, <3>4 DEF Others
    <3> QED BY <3>5 DEF CutShort
  <2>6. Finds(e)'
    BY <2>1, <2>3, PhasesDiffer DEF Finds
  <2> QED BY <2>1, <2>4, <2>5, <2>6, SuspectsKept, SameListsKeepNames, CallersDiffer
          DEF SameDocker
<1>2. ASSUME NEW e \in Execs, ExecuteCold(e) PROVE Suspects'
  <2>1. /\ pc[e] = "idle" /\ Others(e) /\ SameLists /\ SameDocker
        /\ ~overlapped' => ~overlapped /\ InFlight = {}
        /\ pc'[e] \in {"returned", "removing old"}
    BY <1>2, ExecuteColdStep
  <2>2. \A n : ~Replaces(e, n)
    BY <2>1 DEF Replaces, Recycling
  <2>3. pc'[e] \notin InLine /\ pc'[e] \notin Recycling /\ pc'[e] # "queued"
    BY <2>1 DEF InLine, Holding, Recycling
  <2>4. Finds(e)'
    BY <2>3 DEF Finds
  <2> QED BY <2>1, <2>2, <2>3, <2>4, SuspectsKept, SameListsKeepNames, CallersDiffer
          DEF SameDocker, SameLists
<1>3. ASSUME NEW c \in Warmups, Warmup(c) \/ WarmupReturns(c) PROVE Suspects'
  <2>1. Others(c) /\ SameLists /\ SameDocker /\ overlapped' = overlapped
    BY <1>3, WarmupStep, WarmupReturnsStep
  <2>2. c \notin Execs /\ c \in Callers
    BY CallersDiffer
  <2> QED BY <2>1, <2>2, SuspectsKept, SameListsKeepNames DEF SameDocker, SameLists
<1>4. ASSUME NEW c \in Callers, StartRemoves(c) PROVE Suspects'
  <2>1. /\ pc[c] = "removing old" /\ Others(c) /\ pc'[c] = "starting"
        /\ SameLists /\ overlapped' = overlapped /\ suspect' = suspect
    BY <1>4, StartRemovesStep
  <2>2. setup.startFirst => c \notin Execs
    BY <2>1, StarterIsWarmup, CallersDiffer DEF StartPhases
  <2> QED BY <2>1, <2>2, SuspectsKept, SameListsKeepNames DEF SameLists
<1>5. ASSUME NEW e \in Execs, PickAfterStart(e) PROVE Suspects'
  <2>1. pc[e] = "started" /\ Others(e)
    BY <1>5, PickAfterStartStep
  <2>2. ~setup.startFirst
    BY <2>1 DEF Once, StartPhases
  <2> QED BY <2>1, <2>2 DEF Suspects, Others
<1>6. ASSUME NEW e \in Execs, Begin(e) PROVE Suspects'
  <2>1. /\ pc[e] = "queued" /\ Others(e) /\ pc'[e] = "running"
        /\ SameLists /\ SameCall /\ SameFlags /\ slot' = slot /\ suspect' = suspect
    BY <1>6, BeginStep
  <2>2. \A n : ~Replaces(e, n)
    BY <2>1 DEF Replaces, Recycling
  <2>3. pc[e] \in InLine /\ pc'[e] \notin Recycling
    BY <2>1 DEF InLine, Recycling
  <2>4. setup.startFirst /\ ~overlapped' => Finds(e)'
    BY <1>0, <2>1, <2>3, FindsMoves, SameListsKeepNames DEF SameLists, SameCall, SameFlags
  <2> QED BY <2>1, <2>2, <2>4, SuspectsKept, SameListsKeepNames, CallersDiffer
          DEF SameLists, SameFlags
<1>7. ASSUME NEW e \in Execs, End(e) PROVE Suspects'
  <2>1. /\ pc[e] = "running" /\ Others(e) /\ pc'[e] = "killing"
        /\ SameLists /\ SameCall /\ SameFlags /\ slot' = slot
        /\ \/ outcome'[e] = "exit" /\ suspect' = suspect
           \/ outcome'[e] = "timeout" /\ suspect' = suspect \cup {NameOf(e)}
    BY <1>7, EndStep
  <2>2. \A n : ~Replaces(e, n)
    BY <2>1 DEF Replaces, Recycling
  <2>3. pc[e] \in InLine /\ pc'[e] \notin Recycling
    BY <2>1 DEF InLine, Holding, Recycling
  <2>4. setup.startFirst /\ ~overlapped' => Finds(e)'
    BY <1>0, <2>1, <2>3, FindsMoves, SameListsKeepNames DEF SameLists, SameCall, SameFlags
  <2>5. NameOf(e)' = NameOf(e)
    BY <2>1, <2>3, NameStays, SameListsKeepNames DEF SameLists, SameCall
  <2>6. \A n \in suspect' : n \in suspect \/ Replaces(e, n)'
    BY <2>1, <2>5 DEF Replaces
  <2>7. e \in InFlight
    BY <2>3, InLineInFlight
  <2> QED BY <2>1, <2>2, <2>4, <2>6, <2>7, SuspectsKept, SameListsKeepNames, CallersDiffer
          DEF SameLists, SameFlags
<1>8. ASSUME NEW e \in Execs, AfterKill(e) PROVE Suspects'
  <2>1. /\ pc[e] = "killing" /\ Others(e) /\ NamesKept
        /\ pool' = pool /\ suspect' = suspect /\ SameCall /\ SameFlags
        /\ outcome' = outcome
        /\ \/ pc'[e] = "returned" /\ outcome[e] # "timeout"
           \/ pc'[e] = "returned" /\ \A k \in DOMAIN pool : pool[k] # at[e]
           \/ /\ pc'[e] = "removing"
              /\ slot'[e] \in DOMAIN pool
              /\ dicts[pool[slot'[e]]].name = NameOf(e)
    BY <1>8, AfterKillStep
  <2>2. pc[e] \in InLine /\ pc'[e] # "queued"
    BY <2>1 DEF InLine, Holding
  <2>3. NameOf(e)' = NameOf(e)
    BY <2>1, <2>2, NameStays DEF SameCall
  <2> SUFFICES ASSUME setup.startFirst, ~overlapped'
               PROVE  /\ Finds(e)'
                      /\ \A n \in suspect : Replaces(e, n) => Replaces(e, n)' \/ Unlisted(n)'
    BY <2>1, <2>2, SuspectsKept, CallersDiffer DEF SameFlags
  <2>4. pool = <<>> \/ \E k \in DOMAIN pool : pool[k] = at[e]
    BY <1>0, <2>1, <2>2 DEF Finds, SameFlags
  <2>5. CASE pc'[e] = "returned" /\ outcome[e] # "timeout"
    <3>1. \A n : ~Replaces(e, n)
      BY <2>5 DEF Replaces
    <3>2. Finds(e)'
      BY <2>5, PhasesDiffer DEF Finds
    <3> QED BY <3>1, <3>2
  <2>6. CASE pc'[e] = "returned" /\ \A k \in DOMAIN pool : pool[k] # at[e]
    <3>1. DOMAIN pool = {}
      BY <2>4, <2>6, NoPositions
    <3>2. Finds(e)'
      BY <2>6, PhasesDiffer DEF Finds
    <3> QED BY <2>1, <3>1, <3>2 DEF Unlisted
  <2>7. CASE /\ pc'[e] = "removing"
             /\ slot'[e] \in DOMAIN pool
             /\ dicts[pool[slot'[e]]].name = NameOf(e)
    <3>1. PICK k \in DOMAIN pool : k = slot'[e] /\ NameAt(k) = NameOf(e)
      BY <2>7 DEF NameAt
    <3>2. NameAt(k)' = NameOf(e)'
      BY <2>1, <2>3, <3>1, NamesStay
    <3>3. NameAt(slot[e])' = NameAt(k)'
      BY <3>1 DEF NameAt
    <3>4. at'[e] = at[e] /\ (pool' = <<>> \/ \E m \in DOMAIN pool' : pool'[m] = at'[e])
      BY <2>1, <2>4 DEF SameCall
    <3>5. Finds(e)'
      BY <2>1, <3>1, <3>2, <3>3, <3>4 DEF Finds
    <3>6. \A n : Replaces(e, n) => Replaces(e, n)'
      BY <2>1, <2>3, <2>7 DEF Replaces, Recycling
    <3> QED BY <3>5, <3>6
  <2> QED BY <2>1, <2>5, <2>6, <2>7
<1>9. ASSUME NEW e \in Execs, RecycleRemoves(e) \/ RecycleRetries(e) PROVE Suspects'
  <2>1. /\ pc[e] \in {"removing", "rerun"} /\ Others(e) /\ pc'[e] \in {"rerun", "rerun again"}
        /\ SameLists /\ SameCall /\ SameFlags
        /\ slot' = slot /\ outcome' = outcome /\ suspect' = suspect
    BY <1>9, RecycleRemovesStep, RecycleRetriesStep DEF SameDocker
  <2>2. pc[e] \in Recycling /\ pc[e] \in InLine /\ pc'[e] \in Recycling /\ pc'[e] # "queued"
    BY <2>1 DEF Recycling, InLine, Holding
  <2>3. NameOf(e)' = NameOf(e)
    BY <2>1, <2>2, NameStays, SameListsKeepNames DEF SameLists, SameCall
  <2>4. \A n : Replaces(e, n) => Replaces(e, n)'
    BY <2>1, <2>2, <2>3 DEF Replaces
  <2>5. setup.startFirst /\ ~overlapped' => Finds(e)'
    BY <1>0, <2>1, <2>2, FindsMoves, SameListsKeepNames DEF SameLists, SameCall, SameFlags
  <2> QED BY <2>1, <2>2, <2>4, <2>5, SuspectsKept, SameListsKeepNames, CallersDiffer
          DEF SameLists, SameFlags
<1>10. ASSUME CleanupBegins \/ CleanupRemoves \/ CleanupEnds PROVE Suspects'
  <2>1. /\ setup' = setup /\ dicts' = dicts /\ pc' = pc /\ SameCall /\ slot' = slot
        /\ outcome' = outcome /\ suspect' = suspect
        /\ (overlapped' <=> overlapped)
        /\ pool' = pool \/ pool' = <<>>
    BY <1>10, CleanupStep
  <2> SUFFICES ASSUME setup.startFirst, ~overlapped'
               PROVE  (NamesDiffer /\ SuspectsReplaced /\ QueuedIsFresh /\ Listed)'
    BY <2>1 DEF Suspects
  <2>2. NamesDiffer /\ SuspectsReplaced /\ QueuedIsFresh /\ Listed
    BY <2>1 DEF Suspects
  <2>3. at' = at /\ \A k \in DOMAIN pool' : k \in DOMAIN pool /\ NameAt(k)' = NameAt(k)
    BY <2>1, NoPositions DEF NameAt, SameCall
  <2>4. \A e \in Execs : NameOf(e)' = NameOf(e)
    BY <2>1, <2>3 DEF NameOf
  <2>5. NamesDiffer'
    BY <2>2, <2>3 DEF NamesDiffer
  <2>6. \A e \in Execs : \A n : Replaces(e, n) => Replaces(e, n)'
    BY <2>1, <2>4 DEF Replaces
  <2>7. SuspectsReplaced'
    <3>1. \A n : Unlisted(n) => Unlisted(n)'
      BY <2>1, <2>3, NoPositions DEF Unlisted, CutShort
    <3> QED BY <2>1, <2>2, <2>6, <3>1 DEF SuspectsReplaced
  <2>8. QueuedIsFresh'
    BY <2>1, <2>2, <2>3, <2>4 DEF QueuedIsFresh, CutShort
  <2>9. Listed'
    <3>1. CASE pool' = pool
      <4>1. \A e \in Execs : NameAt(slot[e])' = NameAt(slot[e])
        BY <2>1, <3>1 DEF NameAt
      <4> QED BY <2>1, <2>2, <2>3, <2>4, <3>1, <4>1 DEF Listed, Finds
    <3>2. CASE pool' = <<>>
      BY <3>2 DEF Listed, Finds
    <3> QED BY <2>1, <3>1, <3>2
  <2> QED BY <2>5, <2>7, <2>8, <2>9
<1>11. CASE \E e \in Execs : ExecuteWarm(e) \/ ExecuteCold(e) \/ ExecStep(e)
  BY <1>11, <1>1, <1>2, <1>5, <1>6, <1>7, <1>8, <1>9, RecycledSuspects DEF ExecStep
<1>12. ASSUME NEW e \in Execs, CancelQueued(e) \/ CancelHolding(e) PROVE Suspects'
  <2>1. /\ \/ pc[e] = "queued" /\ pc'[e] = "withdrawn"
           \/ pc[e] \in Holding /\ pc'[e] = "cancelled"
        /\ Others(e) /\ pool' = pool /\ dicts' = dicts /\ SameDocker /\ SameCall /\ SameFlags
        /\ outcome' = outcome
    BY <1>12, CancelStep
  <2>2. /\ pc[e] # "cancelled" /\ pc'[e] # "queued"
        /\ pc'[e] \notin InLine /\ pc'[e] \notin Recycling
    BY <2>1, PhasesDiffer
  <2>3. Finds(e)'
    BY <2>2 DEF Finds
  <2>4. ASSUME setup.startFirst, ~overlapped', NEW n \in suspect, Replaces(e, n)
        PROVE  Unlisted(n)'
    <3> SUFFICES ASSUME NEW k \in DOMAIN pool', NameAt(k)' = n PROVE CutShort(pool[k])'
      BY DEF Unlisted
    <3>1. k \in DOMAIN pool /\ NameAt(k) = n
      BY <2>1 DEF NameAt
    <3>2. /\ pc[e] \in InLine /\ pc[e] \in Holding /\ NameOf(e) = n
          /\ outcome[e] = "timeout"
      BY <2>4, ReplacesInLine DEF Replaces
    <3>3. PICK j \in DOMAIN pool : pool[j] = at[e]
      BY <1>0, <2>1, <2>4, <3>1, <3>2, NoPositions DEF Finds, SameFlags
    <3>4. NameAt(j) = n
      BY <3>2, <3>3 DEF NameAt, NameOf
    <3>5. j = k
      BY <2>1, <2>4, <3>1, <3>4 DEF Suspects, NamesDiffer, SameFlags
    <3>6. pc'[e] = "cancelled" /\ outcome'[e] = "timeout" /\ at'[e] = pool'[k]
      BY <2>1, <3>2, <3>3, <3>5, PhasesDiffer DEF SameCall
    <3> QED BY <3>6 DEF CutShort
  <2> QED BY <2>1, <2>2, <2>3, <2>4, SuspectsKept, SameListsKeepNames, CallersDiffer
          DEF SameDocker, SameFlags
<1>13. ASSUME NEW c \in Callers, CancelStart(c) PROVE Suspects'
  <2>1. /\ pc[c] \in {"removing old", "starting"} /\ Others(c) /\ pc'[c] = "cancelled"
        /\ SameLists /\ SameDocker /\ overlapped' = overlapped
    BY <1>13, CancelStartStep
  <2>2. setup.startFirst => c \notin Execs
    BY <2>1, StarterIsWarmup, CallersDiffer DEF StartPhases
  <2> QED BY <2>1, <2>2, SuspectsKept, SameListsKeepNames DEF SameLists, SameDocker
<1>14. CASE \/ \E e \in Execs : StrayEnds(e)
            \/ \E k \in late : LateCommand(k)
  <2>1. /\ setup' = setup /\ pc' = pc /\ slot' = slot /\ outcome' = outcome
        /\ SameLists /\ SameCall /\ SameFlags
        /\ SameDocker \/ \E k \in late : DoneLate(k.name)
    BY <1>14, RemnantsStep
  <2>2. pool' = pool /\ dicts' = dicts /\ at' = at /\ (overlapped' <=> overlapped)
    BY <2>1 DEF SameLists, SameCall, SameFlags
  <2>3. suspect' \subseteq suspect
    BY <2>1 DEF SameDocker, DoneLate
  <2>4. NamesDiffer => NamesDiffer'
    BY <2>2 DEF NamesDiffer, NameAt
  <2>5. Listed => Listed'
    BY <2>1, <2>2 DEF Listed, Finds, NameAt, NameOf
  <2>6. SuspectsReplaced => SuspectsReplaced'
    BY <2>1, <2>2, <2>3 DEF SuspectsReplaced, Replaces, Unlisted, CutShort, NameAt, NameOf
  <2>7. QueuedIsFresh => QueuedIsFresh'
    BY <2>1, <2>2, <2>3 DEF QueuedIsFresh, CutShort, NameOf
  <2> QED BY <2>1, <2>2, <2>4, <2>5, <2>6, <2>7 DEF Suspects
<1>15. CASE \E c \in Callers : StartStep(c) \/ CancelStart(c)
  BY <1>15, <1>3, <1>4, <1>13, StartRunsSuspects DEF StartStep
<1>16. CASE \E e \in Execs : CancelQueued(e) \/ CancelHolding(e) \/ StrayEnds(e)
  BY <1>16, <1>12, <1>14
<1> QED BY <1>3, <1>10, <1>11, <1>14, <1>15, <1>16 DEF Next

-------------------------------------------------------------------------------
(***************************************************************************)
(* What cancelled calls leave behind.                                      *)
(***************************************************************************)

\* A call that has picked its container keeps it, and one that was cancelled
\* stays so.
PastKept ==
  /\ NamesKept
  /\ \A e \in Execs : Past(e) => /\ Past(e)' /\ at'[e] = at[e]
                                 /\ pc[e] = "cancelled" => pc'[e] = "cancelled"

\* The phases of a call that has picked.
LEMMA PastPhases ==
  /\ \A e : Past(e) => pc[e] # "idle" /\ pc[e] \notin StartPhases
  /\ {"returned", "withdrawn", "cancelled"} \cup Holding \subseteq InLine \cup Ended
  /\ "queued" \in InLine
BY PhasesDiffer DEF Past, Ended, InLine, Holding, Recycling, StartPhases

\* A step of one caller.
LEMMA PastMoves ==
  ASSUME NamesKept, NEW c, Others(c),
         c \in Execs /\ Past(c) =>
           at'[c] = at[c] /\ pc[c] # "cancelled" /\ pc'[c] \in InLine \cup Ended
  PROVE  PastKept
<1> SUFFICES ASSUME NEW e \in Execs, Past(e)
             PROVE  /\ Past(e)' /\ at'[e] = at[e]
                    /\ pc[e] = "cancelled" => pc'[e] = "cancelled"
  BY DEF PastKept
<1>1. CASE e = c
  BY <1>1 DEF Past
<1>2. CASE e # c
  BY <1>2 DEF Past, Others
<1> QED BY <1>1, <1>2

\* Every step keeps what is past.
LEMMA PastStep == ASSUME PoolInv, Next PROVE PastKept
<1>1. ASSUME NEW e \in Execs, ExecuteWarm(e) \/ ExecuteCold(e) \/ PickAfterStart(e)
      PROVE  PastKept
  <2>1. pc[e] \in {"idle"} \cup StartPhases /\ Others(e) /\ dicts' = dicts
    BY <1>1, ExecuteWarmStep, ExecuteColdStep, PickAfterStartStep DEF StartPhases, SameLists
  <2> QED BY <2>1, PastMoves, PastPhases, SameListsKeepNames
<1>2. ASSUME NEW e \in Execs, Begin(e) \/ End(e) \/ RecycleRemoves(e) \/ RecycleRetries(e)
      PROVE  PastKept
  <2>1. /\ Others(e) /\ SameLists /\ SameCall
        /\ pc[e] \in InLine /\ pc'[e] \in Holding
    BY <1>2, BeginStep, EndStep, RecycleRemovesStep, RecycleRetriesStep
       DEF InLine, Holding, Recycling
  <2>2. NamesKept /\ at'[e] = at[e]
    BY <2>1, SameListsKeepNames DEF SameLists, SameCall
  <2> QED BY <2>1, <2>2, PastMoves, PastPhases, PhasesDiffer
<1>3. ASSUME NEW e \in Execs, AfterKill(e) PROVE PastKept
  <2>1. /\ pc[e] = "killing" /\ Others(e) /\ NamesKept /\ SameCall
        /\ pc'[e] \in {"returned", "removing"}
    BY <1>3, AfterKillStep
  <2>2. at'[e] = at[e] /\ pc'[e] \in {"returned"} \cup Holding
    BY <2>1 DEF SameCall, Holding, Recycling
  <2> QED BY <2>1, <2>2, PastMoves, PastPhases
<1>4. ASSUME NEW e \in Execs, RecycleRuns(e) PROVE PastKept
  <2>1. /\ pc[e] \in {"rerun", "rerun again"} /\ Others(e) /\ NamesKept /\ SameCall
        /\ pc'[e] = "returned"
    BY <1>4, RecycleRunsStep
  <2>2. at'[e] = at[e] /\ pc[e] # "cancelled"
    BY <2>1 DEF SameCall
  <2> QED BY <2>1, <2>2, PastMoves, PastPhases
<1>5. ASSUME NEW e \in Execs, RecycleGivesUp(e) PROVE PastKept
  <2>1. /\ pc[e] = "rerun again" /\ Others(e) /\ dicts' = dicts /\ SameCall
        /\ pc'[e] = "returned"
    BY <1>5, RecycleGivesUpStep
  <2>2. at'[e] = at[e] /\ NamesKept
    BY <2>1, SameListsKeepNames DEF SameCall
  <2> QED BY <2>1, <2>2, PastMoves, PastPhases
<1>6. ASSUME NEW c \in Callers, StartStep(c) \/ CancelStart(c) \/ (c \in Warmups /\ Warmup(c))
      PROVE  PastKept
  <2>1. /\ Others(c) /\ NamesKept
        /\ pc[c] \in {"idle"} \cup StartPhases
    <3>1. CASE StartRuns(c)
      BY <3>1, StartRunsStep, SameListsKeepNames DEF EntryAdded, SameLists, StartPhases
    <3>2. CASE StartRemoves(c) \/ (c \in Warmups /\ WarmupReturns(c)) \/ CancelStart(c)
               \/ (c \in Warmups /\ Warmup(c))
      BY <3>2, StartRemovesStep, WarmupReturnsStep, CancelStartStep, WarmupStep,
         SameListsKeepNames DEF SameLists, StartPhases
    <3> QED BY <1>6, <3>1, <3>2 DEF StartStep
  <2> QED BY <2>1, PastMoves, PastPhases
<1>7. ASSUME NEW e \in Execs, CancelQueued(e) \/ CancelHolding(e) PROVE PastKept
  <2>1. /\ pc[e] \in InLine /\ pc'[e] \in {"withdrawn", "cancelled"}
        /\ Others(e) /\ dicts' = dicts /\ SameCall
    BY <1>7, CancelStep, PhasesDiffer, PastPhases
  <2>2. at'[e] = at[e] /\ NamesKept
    BY <2>1, SameListsKeepNames DEF SameCall
  <2> QED BY <2>1, <2>2, PastMoves, PastPhases, PhasesDiffer
<1>8. CASE \/ \E e \in Execs : StrayEnds(e)
           \/ \E k \in late : LateCommand(k)
           \/ CleanupBegins \/ CleanupRemoves \/ CleanupEnds
  <2>1. pc' = pc /\ dicts' = dicts /\ at' = at
    BY <1>8, RemnantsStep, CleanupStep DEF SameLists, SameCall
  <2> QED BY <2>1, SameListsKeepNames DEF PastKept, Past
<1> QED BY <1>1, <1>2, <1>3, <1>4, <1>5, <1>6, <1>7, <1>8, CallersDiffer DEF Next, ExecStep

\* A call that has picked goes on naming its container.
LEMMA PastNames ==
  ASSUME PoolInv, PastKept, NEW e \in Execs, Past(e)
  PROVE  NameOf(e)' = NameOf(e) /\ NameOf(e) \in Names
<1>1. at[e] \in DOMAIN dicts
  BY CallFacts, TypeFacts DEF Past
<1>2. NameOf(e) \in Names
  BY <1>1, TypeFacts DEF NameOf
<1> QED BY <1>1, <1>2 DEF PastKept, NamesKept, NameOf

\* Containers are abandoned for good.
LEMMA StaysAbandoned ==
  ASSUME PoolInv, PastKept, NEW n, Abandoned(n)
  PROVE  Abandoned(n)'
<1>1. PICK e \in Execs : pc[e] = "cancelled" /\ at[e] # 0 /\ NameOf(e) = n
  BY DEF Abandoned
<1>2. Past(e)
  BY <1>1 DEF Past, Ended
<1>3. pc'[e] = "cancelled" /\ at'[e] = at[e] /\ NameOf(e)' = n
  BY <1>1, <1>2, PastNames DEF PastKept
<1> QED BY <1>1, <1>3 DEF Abandoned

\* What is calm was calm before, and no semaphore leaves the pool.
CalmBefore ==
  /\ setup' = setup
  /\ Len(pool) <= Len(line) => Len(pool') <= Len(line')
  /\ Len(pool) <= Len(line) /\ Calm' => Calm

\* Lengths, counters and cancelled starts after a step.
LEMMA CalmMoves ==
  ASSUME PoolInv, setup' = setup,
         \/ Len(pool') = Len(pool) /\ Len(line') = Len(line)
         \/ Len(pool') = Len(pool) + 1 /\ Len(line') = Len(line) + 1
         \/ Len(pool') = Len(pool) - 1 /\ Len(line') = Len(line),
         faults' = faults \/ faults' = faults + 1, cleanups' = cleanups,
         \A c \in Warmups : pc[c] = "cancelled" => pc'[c] = "cancelled"
  PROVE  CalmBefore
<1>1. Len(pool) \in Nat /\ Len(line) \in Nat
  BY TypeFacts
<1>2. faults \in Nat
  BY DEF PoolInv, Phases
<1>3. Len(pool) <= Len(line) => Len(pool') <= Len(line')
  BY <1>1
<1>4. Len(pool) <= Len(line) /\ Len(pool') = Len(line') => Len(pool) = Len(line)
  BY <1>1
<1>5. faults' = 0 => faults = 0
  BY <1>2
<1> QED BY <1>3, <1>4, <1>5 DEF CalmBefore, Calm

\* Every step is such a step, but cleanup(), which is not calm.
LEMMA CalmStep == ASSUME PoolInv, Next PROVE CalmBefore
<1>1. ASSUME NEW e \in Execs, Others(e)
      PROVE  setup' = setup /\ \A c \in Warmups : pc[c] = "cancelled" => pc'[c] = "cancelled"
  BY <1>1, CallersDiffer DEF Others
<1>2. ASSUME NEW e \in Execs, ExecuteWarm(e) PROVE CalmBefore
  <2>1. Others(e) /\ pool' = pool /\ SameCounts
    BY <1>2, ExecuteWarmStep
  <2>2. Len(line') = Len(line)
    BY <1>2, ExecuteWarmStep DEF PickedEntry
  <2> QED BY <1>1, <2>1, <2>2, CalmMoves DEF SameCounts
<1>3. ASSUME NEW e \in Execs, PickAfterStart(e) PROVE CalmBefore
  <2>1. Others(e) /\ pool' = pool /\ SameCounts
    BY <1>3, PickAfterStartStep
  <2>2. Len(line') = Len(line)
    <3>1. CASE line' = line
      BY <3>1
    <3>2. CASE pool # <<>> /\ Pick(e) /\ result' = result
      <4>1. PickAfterStart(e) => startAt' = startAt /\ slot' = slot /\ outcome' = outcome
        BY DEF PickAfterStart, StartReturns
      <4>2. \E i \in DOMAIN pool : PickedEntry(e, i)
        BY <1>3, <2>1, <3>2, <4>1, <1>1, PickStep
      <4> QED BY <4>2 DEF PickedEntry
    <3> QED BY <1>3, <3>1, <3>2 DEF PickAfterStart
  <2> QED BY <1>1, <2>1, <2>2, CalmMoves DEF SameCounts
<1>4. ASSUME NEW e \in Execs,
             ExecuteCold(e) \/ Begin(e) \/ End(e) \/ RecycleRemoves(e)
      PROVE  CalmBefore
  <2>1. Others(e) /\ SameLists /\ SameCounts
    BY <1>4, ExecuteColdStep, BeginStep, EndStep, RecycleRemovesStep
  <2> QED BY <1>1, <2>1, CalmMoves DEF SameLists, SameCounts
<1>5. ASSUME NEW e \in Execs, AfterKill(e) \/ CancelQueued(e) \/ CancelHolding(e)
      PROVE  CalmBefore
  <2>1. Others(e) /\ pool' = pool /\ Len(line') = Len(line) /\ SameCounts
    BY <1>5, AfterKillStep, CancelStep
  <2> QED BY <1>1, <2>1, CalmMoves DEF SameCounts
<1>6. ASSUME NEW e \in Execs, RecycleRuns(e) PROVE CalmBefore
  <2>1. Others(e) /\ Len(pool') = Len(pool) /\ Len(line') = Len(line) /\ SameCounts
    BY <1>6, RecycleRunsStep DEF EntryReplaced
  <2> QED BY <1>1, <2>1, CalmMoves DEF SameCounts
<1>7. ASSUME NEW e \in Execs, RecycleRetries(e) PROVE CalmBefore
  <2>1. Others(e) /\ SameLists /\ cleanups' = cleanups
    BY <1>7, RecycleRetriesStep
  <2>2. faults' = faults \/ faults' = faults + 1
    BY <1>7, FaultCounted DEF RecycleRetries
  <2> QED BY <1>1, <2>1, <2>2, CalmMoves DEF SameLists
<1>8. ASSUME NEW e \in Execs, RecycleGivesUp(e) PROVE CalmBefore
  <2>1. /\ Others(e) /\ cleanups' = cleanups /\ Len(line') = Len(line)
        /\ Len(pool') = Len(pool) \/ Len(pool') = Len(pool) - 1
    BY <1>8, RecycleGivesUpStep DEF EntryDropped
  <2>2. faults' = faults \/ faults' = faults + 1
    BY <1>8, FaultCounted DEF RecycleGivesUp
  <2> QED BY <1>1, <2>1, <2>2, CalmMoves
<1>9. ASSUME NEW c \in Callers, Others(c), pc[c] # "cancelled"
      PROVE  setup' = setup /\ \A d \in Warmups : pc[d] = "cancelled" => pc'[d] = "cancelled"
  BY <1>9 DEF Others
<1>10. ASSUME NEW c \in Callers, StartRuns(c) PROVE CalmBefore
  <2>1. /\ pc[c] = "starting" /\ Others(c) /\ cleanups' = cleanups
        /\ \/ EntryAdded(startAt[c]) /\ faults' = faults
           \/ SameLists
    BY <1>10, StartRunsStep
  <2>2. faults' = faults \/ faults' = faults + 1
    BY <1>10, FaultCounted DEF StartRuns
  <2>3. \/ Len(pool') = Len(pool) /\ Len(line') = Len(line)
        \/ Len(pool') = Len(pool) + 1 /\ Len(line') = Len(line) + 1
    BY <2>1 DEF EntryAdded, SameLists
  <2>4. setup' = setup /\ \A d \in Warmups : pc[d] = "cancelled" => pc'[d] = "cancelled"
    BY <1>9, <2>1
  <2> QED BY <2>1, <2>2, <2>3, <2>4, CalmMoves
<1>11. ASSUME NEW c \in Callers,
              \/ StartRemoves(c) \/ CancelStart(c)
              \/ c \in Warmups /\ (WarmupReturns(c) \/ Warmup(c))
       PROVE  CalmBefore
  <2>1. /\ pc[c] \in {"idle"} \cup StartPhases /\ Others(c)
        /\ SameLists /\ SameCounts
    BY <1>11, StartRemovesStep, CancelStartStep, WarmupReturnsStep, WarmupStep DEF StartPhases
  <2>2. pc[c] # "cancelled"
    BY <2>1, PhasesDiffer
  <2> QED BY <1>9, <2>1, <2>2, CalmMoves DEF SameLists, SameCounts
<1>12. CASE \/ \E e \in Execs : StrayEnds(e)
            \/ \E k \in late : LateCommand(k)
  BY <1>12, RemnantsStep, CalmMoves DEF SameLists, SameCounts
<1>13. CASE CleanupBegins \/ CleanupRemoves \/ CleanupEnds
  <2>1. /\ setup' = setup /\ line' = line /\ cleanups' # 0
        /\ pool' = pool \/ pool' = <<>>
    BY <1>13, CleanupStep
  <2>2. Len(<<>>) = 0
    BY EmptySeq
  <2>3. Len(pool) <= Len(line) => Len(pool') <= Len(line')
    BY <2>1, <2>2, TypeFacts
  <2> QED BY <2>1, <2>3 DEF CalmBefore, Calm
<1> QED BY <1>2, <1>3, <1>4, <1>5, <1>6, <1>7, <1>8, <1>10, <1>11, <1>12, <1>13, CallersDiffer
        DEF Next, ExecStep, StartStep

\* Cancellations leave something, and only they.
NothingLeft == stray' \subseteq stray /\ late' \subseteq late /\ cancels' = cancels
LEMMA CancelsLeave ==
  ASSUME Next
  PROVE  \/ NothingLeft
         \/ \E e \in Execs : CancelQueued(e) \/ CancelHolding(e)
         \/ \E c \in Callers : CancelStart(c)
<1> USE DEF NothingLeft, listVars, dockerVars, callVars, boundVars, cancelVars
<1>1. ASSUME NEW e \in Execs, ExecuteWarm(e) \/ ExecuteCold(e) \/ PickAfterStart(e)
      PROVE  NothingLeft
  BY <1>1 DEF ExecuteWarm, ExecuteCold, PickAfterStart, StartReturns
<1>2. ASSUME NEW e \in Execs, Begin(e) \/ End(e) \/ AfterKill(e) PROVE NothingLeft
  BY <1>2 DEF Begin, End, AfterKill, Killed, Emptied
<1>3. ASSUME NEW e \in Execs, RecycleRemoves(e) \/ RecycleRuns(e) PROVE NothingLeft
  BY <1>3 DEF RecycleRemoves, RecycleRuns, Removed, Emptied, Created
<1>4. ASSUME NEW e \in Execs, RecycleRetries(e) \/ RecycleGivesUp(e) PROVE NothingLeft
  BY <1>4 DEF RecycleRetries, RecycleGivesUp
<1>5. ASSUME NEW c, StartRemoves(c) \/ WarmupReturns(c) \/ Warmup(c) PROVE NothingLeft
  BY <1>5 DEF StartRemoves, Removed, Emptied, WarmupReturns, StartReturns, Warmup
<1>6. ASSUME NEW c, StartRuns(c) PROVE NothingLeft
  BY <1>6 DEF StartRuns, Created
<1>7. CASE CleanupBegins \/ CleanupRemoves \/ CleanupEnds
  BY <1>7 DEF CleanupBegins, CleanupRemoves, CleanupEnds, Removed, Emptied
<1>8. ASSUME NEW e \in Execs, StrayEnds(e) PROVE NothingLeft
  BY <1>8 DEF StrayEnds
<1>9. ASSUME NEW k, LateCommand(k) PROVE NothingLeft
  BY <1>9 DEF LateCommand, Killed, Removed, Created, Emptied
<1> QED BY <1>1, <1>2, <1>3, <1>4, <1>5, <1>6, <1>7, <1>8, <1>9 DEF Next, ExecStep, StartStep

\* A call that is cancelled at work leaves its candidate, or one command.
LEMMA HoldingLeaves ==
  ASSUME PoolInv, NEW e \in Execs, CancelHolding(e)
  PROVE  /\ pc'[e] = "cancelled" /\ at'[e] = at[e] /\ at[e] # 0
         /\ NameOf(e) \in Names /\ e \in Callers /\ Cancellation
         /\ stray' = stray \/ stray' = stray \cup {e}
         /\ \/ late' = late
            \/ \E q \in {"kill", "rm", "run"} :
                 late' = late \cup {[cmd |-> q, name |-> NameOf(e)]}
<1>1. pc[e] \in Holding
  BY Zenon DEF CancelHolding, Holding, Recycling
<1>2. pc'[e] = "cancelled" /\ at'[e] = at[e]
  BY <1>1, CancelStep, PhasesDiffer DEF SameCall
<1>3. at[e] # 0 /\ NameOf(e) \in Names /\ e \in Callers
  BY <1>1, CallFacts, TypeFacts, PhasesDiffer DEF PoolInv, Lines, Picked
<1>4. stray' = stray \/ stray' = stray \cup {e}
  BY Zenon DEF CancelHolding
<1>5. late' = late \/ Sent(e, NameOf(e))
  <2>1. CASE pc[e] = "running"
    BY <2>1, Zenon DEF CancelHolding
  <2>2. CASE pc[e] # "running"
    BY <2>2, Zenon DEF CancelHolding
  <2> QED BY <2>1, <2>2
<1>6. Sent(e, NameOf(e)) => \E q \in {"kill", "rm", "run"} :
                              late' = late \cup {[cmd |-> q, name |-> NameOf(e)]}
  BY Zenon DEF Sent
<1>7. Cancellation
  BY DEF CancelHolding
<1> QED BY <1>2, <1>3, <1>4, <1>5, <1>6, <1>7

\* What is left behind are candidates and commands of cancelled calls.
LEMMA RemnantsKept ==
  ASSUME PoolInv, Remnants, Next
  PROVE  Remnants'
<1>1. PastKept /\ CalmBefore
  BY PastStep, CalmStep
<1>2. Command' = Command /\ Len(pool') <= Len(line') /\ cancels \in Nat
  BY <1>1 DEF CalmBefore, Command, Names, Remnants
<1>3. \A e \in stray : pc'[e] = "cancelled" /\ at'[e] # 0
  BY <1>1 DEF Remnants, PastKept, Past, Ended
<1>4. CASE NothingLeft
  BY <1>2, <1>3, <1>4 DEF Remnants, NothingLeft
<1>5. ASSUME NEW e \in Execs, CancelQueued(e) PROVE Remnants'
  <2>1. stray' = stray /\ late' = late /\ cancels' = cancels + 1
    BY <1>5 DEF CancelQueued, Cancellation, dockerVars
  <2> QED BY <1>2, <1>3, <2>1 DEF Remnants
<1>6. ASSUME NEW n \in Names, NEW q \in {"kill", "rm", "run"},
             late' = late \cup {[cmd |-> q, name |-> n]}
      PROVE  late' \subseteq Command'
  BY <1>2, <1>6 DEF Remnants, Command
<1>7. ASSUME NEW e \in Execs, CancelHolding(e) PROVE Remnants'
  <2>1. /\ pc'[e] = "cancelled" /\ at'[e] = at[e] /\ at[e] # 0
        /\ NameOf(e) \in Names /\ Cancellation
        /\ stray' = stray \/ stray' = stray \cup {e}
        /\ \/ late' = late
           \/ \E q \in {"kill", "rm", "run"} :
                late' = late \cup {[cmd |-> q, name |-> NameOf(e)]}
    BY <1>7, HoldingLeaves
  <2>2. late' \subseteq Command'
    BY <1>2, <1>6, <2>1 DEF Remnants
  <2>3. cancels' \in Nat
    BY <1>2, <2>1 DEF Cancellation
  <2>4. stray' \subseteq Execs /\ \A d \in stray' : pc'[d] = "cancelled" /\ at'[d] # 0
    BY <1>3, <2>1 DEF Remnants
  <2> QED BY <1>2, <2>2, <2>3, <2>4 DEF Remnants
<1>8. ASSUME NEW c \in Callers, CancelStart(c) PROVE Remnants'
  <2>1. /\ Cancellation /\ Sent(c, startAt[c]) /\ stray' = stray
        /\ pc[c] \in {"removing old", "starting"}
    BY <1>8 DEF CancelStart, dockerVars
  <2>2. startAt[c] \in Names
    <3>1. startAt[c] \in 1..(setup.poolSize + 1) /\ startAt[c] <= setup.poolSize
      BY <2>1, TypeParts DEF PoolInv, Phases, CallTypes
    <3> QED BY <3>1, TypeFacts DEF Names
  <2>3. \E q \in {"kill", "rm", "run"} : late' = late \cup {[cmd |-> q, name |-> startAt[c]]}
    BY <2>1, Zenon DEF Sent
  <2>4. late' \subseteq Command'
    BY <1>6, <2>2, <2>3
  <2>5. cancels' \in Nat
    <3>1. cancels' = cancels + 1
      BY <2>1 DEF Cancellation
    <3> QED BY <1>2, <3>1
  <2> QED BY <1>2, <1>3, <2>1, <2>4, <2>5 DEF Remnants
<1> QED BY <1>4, <1>5, <1>7, <1>8, CancelsLeave

-------------------------------------------------------------------------------
(***************************************************************************)
(* While all is calm, each container has its semaphore.                    *)
(***************************************************************************)

\* Of the calls that wait for a container, the one whose turn it is.
LEMMA OneHolder ==
  ASSUME PoolInv, OwnSemaphore, NEW d \in Execs, NEW e \in Execs,
         pc[d] \in Holding, pc[e] \in InLine, pc[e] \in Holding \/ Granted(e),
         NameOf(d) = NameOf(e)
  PROVE  d = e
<1>1. pc[d] \in InLine
  BY PhasesDiffer
<1>2. lock[d] = NameOf(d) /\ lock[e] = NameOf(e)
  BY <1>1 DEF OwnSemaphore
<1>3. NameOf(e) # 0
  BY CallFacts, NamesAreNumbers
<1>4. Head(line[lock[d]]) = d /\ Head(line[lock[e]]) = e
  BY <1>2, <1>3 DEF PoolInv, Lines, HolderFirst, Granted
<1> QED BY <1>2, <1>4

\* The container of a call that waits is in the list.
LEMMA OwnEntry ==
  ASSUME PoolInv, InOrder, OwnSemaphore, NEW e \in Execs, pc[e] \in InLine
  PROVE  NameOf(e) \in DOMAIN pool
<1>1. lock[e] = NameOf(e) /\ lock[e] <= Len(line) /\ Len(line) = Len(pool)
  BY CallFacts DEF OwnSemaphore, InOrder
<1>2. NameOf(e) \in Nat /\ 1 <= NameOf(e)
  BY CallFacts, NamesAreNumbers
<1> HIDE DEF NameOf
<1>3. NameOf(e) <= Len(pool) /\ Len(pool) \in Nat /\ DOMAIN pool = 1..Len(pool)
  BY <1>1, TypeFacts
<1> QED BY <1>2, <1>3

\* Who is past the queue is alone in its container.
LEMMA NobodyInside ==
  ASSUME PoolInv, OwnSemaphore, NEW e \in Execs, pc[e] \in Holding, pc[e] # "running"
  PROVE  Inside(NameOf(e)) = {}
<1> SUFFICES ASSUME NEW d \in Inside(NameOf(e)) PROVE FALSE
  OBVIOUS
<1>1. d \in Execs /\ pc[d] = "running" /\ NameOf(d) = NameOf(e)
  BY DEF Inside
<1>2. pc[d] \in Holding /\ pc[e] \in InLine
  BY <1>1, PhasesDiffer DEF Holding
<1> QED BY <1>1, <1>2, OneHolder

\* The calls that replace a container, but for e.
LEMMA ReplacedKept ==
  ASSUME PoolInv, PastKept, NEW e, Others(e), NEW n
  PROVE  /\ Replaced(n)' => \/ e \in Execs /\ pc'[e] = "rerun" /\ NameOf(e)' = n
                            \/ Replaced(n)
         /\ Replaced(n) => \/ e \in Execs /\ pc[e] = "rerun" /\ NameOf(e) = n
                           \/ Replaced(n)'
<1>1. ASSUME NEW d \in Execs, d # e, pc[d] = "rerun" \/ pc'[d] = "rerun"
      PROVE  pc'[d] = pc[d] /\ NameOf(d)' = NameOf(d)
  <2>1. pc'[d] = pc[d] /\ at'[d] = at[d]
    BY <1>1 DEF Others
  <2>2. pc[d] \in InLine
    BY <1>1, <2>1 DEF InLine, Holding, Recycling
  <2> QED BY <2>1, <2>2, NameStays DEF PastKept
<1> QED BY <1>1 DEF Replaced

\* A step of a call that leaves the list and the containers alone.
LEMMA OrderedKept ==
  ASSUME PoolInv, Ordered, PastKept, NEW e \in Execs, Others(e),
         pool' = pool, Len(line') = Len(line), started' => started, locked => locked',
         alive' = alive,
         \A n : pc[e] = "rerun" /\ NameOf(e) = n => Abandoned(n)',
         pc'[e] # "rerun",
         pc'[e] \in InLine => lock'[e] = NameOf(e)',
         pc'[e] \in Recycling => slot'[e] = NameOf(e)'
  PROVE  Ordered'
<1>1. InOrder /\ OwnSemaphore /\ Present
  BY DEF Ordered
<1>2. \A k \in DOMAIN pool : NameAt(k)' = NameAt(k)
  BY NamesStay DEF PastKept
<1>3. \A c \in Warmups : pc'[c] = pc[c] /\ startAt'[c] = startAt[c]
  BY CallersDiffer DEF Others
<1>4. InOrder'
  BY <1>1, <1>2, <1>3 DEF InOrder
<1>5. \A d \in Execs : d # e =>
        pc'[d] = pc[d] /\ lock'[d] = lock[d] /\ slot'[d] = slot[d]
        /\ (pc[d] \in InLine => NameOf(d)' = NameOf(d))
  BY NameStays DEF Others, PastKept
<1>6. OwnSemaphore'
  <2> SUFFICES ASSUME NEW d \in Execs
               PROVE  /\ pc'[d] \in InLine => lock'[d] = NameOf(d)'
                      /\ pc'[d] \in Recycling => slot'[d] = NameOf(d)'
    BY DEF OwnSemaphore
  <2>1. CASE d = e
    BY <2>1
  <2>2. CASE d # e
    BY <1>1, <1>5, <2>2, PhasesDiffer DEF OwnSemaphore
  <2> QED BY <2>1, <2>2
<1>7. Present'
  <2>1. \A c \in Warmups : pc'[c] = "starting" => startAt'[c] \notin alive'
    BY <1>1, <1>3 DEF Present
  <2>2. ASSUME NEW n, Replaced(n)' PROVE n \notin alive' \/ Abandoned(n)'
    <3>1. Replaced(n)
      BY <2>2, ReplacedKept
    <3> QED BY <1>1, <3>1, StaysAbandoned DEF Present
  <2>3. ASSUME NEW n \in DOMAIN pool'
        PROVE  n \in alive' \/ Replaced(n)' \/ Abandoned(n)'
    <3>1. n \in alive \/ Replaced(n) \/ Abandoned(n)
      BY <1>1 DEF Present
    <3> QED BY <3>1, ReplacedKept, StaysAbandoned
  <2> QED BY <2>1, <2>2, <2>3 DEF Present
<1> QED BY <1>4, <1>6, <1>7 DEF Ordered

\* A step of start(), while no call is served.
LEMMA OrderedStarts ==
  ASSUME PoolInv, Ordered, NEW c \in Warmups, Others(c), \A e \in Execs : pc[e] = "idle"
  PROVE  /\ OwnSemaphore' /\ (\A n : ~ Replaced(n)')
         /\ (\A n : Inside(n) = {}) /\ (\A n \in DOMAIN pool : n \in alive)
<1>1. \A e \in Execs : pc'[e] = "idle"
  BY CallersDiffer DEF Others
<1>2. OwnSemaphore'
  BY <1>1, PhasesDiffer DEF OwnSemaphore
<1>3. \A n : Inside(n) = {} /\ ~ Replaced(n) /\ ~ Abandoned(n) /\ ~ Replaced(n)'
  BY <1>1 DEF Inside, Replaced, Abandoned
<1>4. \A n \in DOMAIN pool : n \in alive
  BY <1>3 DEF Ordered, Present
<1> QED BY <1>2, <1>3, <1>4

\* docker rm -f before docker run.
LEMMA StartRemovesOrdered ==
  ASSUME OneStart, PoolInv, Once, setup.startFirst, Ordered, NEW c \in Callers, StartRemoves(c)
  PROVE  Ordered' /\ hit' = hit
<1>1. /\ pc[c] = "removing old" /\ Others(c) /\ pc'[c] = "starting"
      /\ SameLists
      /\ started' = started /\ locked' = locked
      /\ startAt' = startAt
      /\ alive' = alive \ {startAt[c]}
      /\ hit' = hit \cup Inside(startAt[c])
  BY StartRemovesStep
<1>2. InOrder
  BY DEF Ordered
<1>3. pc[c] \in StartPhases /\ pc'[c] \in StartPhases
  BY <1>1 DEF StartPhases
<1>4. c \in Warmups /\ \A e \in Execs : pc[e] = "idle"
  BY <1>3, StarterIsWarmup
<1>5. /\ OwnSemaphore' /\ (\A n : ~ Replaced(n)')
      /\ (\A n : Inside(n) = {}) /\ (\A n \in DOMAIN pool : n \in alive)
  BY <1>1, <1>4, OrderedStarts
<1>6. \A d \in Warmups : d = c
  BY <1>4 DEF OneStart
<1>7. Len(pool) = startAt[c] - 1
  BY <1>2, <1>3, <1>4 DEF InOrder
<1>8. InOrder'
  <2>1. \A k \in DOMAIN pool : NameAt(k)' = k
    BY <1>1, <1>2 DEF InOrder, SameLists, NameAt
  <2> QED BY <1>1, <1>2, <1>6, <1>7, <2>1 DEF InOrder, SameLists
<1>9. startAt[c] \notin DOMAIN pool
  <2>1. startAt[c] \in Nat
    <3>1. startAt[c] \in 1..(setup.poolSize + 1)
      BY TypeParts DEF PoolInv, CallTypes
    <3> QED BY <3>1, TypeFacts
  <2> QED BY <1>7, <2>1, TypeFacts
<1>10. Present'
  <2>1. \A d \in Warmups : startAt'[d] \notin alive'
    BY <1>1, <1>6
  <2>2. \A n \in DOMAIN pool' : n \in alive'
    BY <1>1, <1>5, <1>9 DEF SameLists
  <2> QED BY <1>5, <2>1, <2>2 DEF Present
<1> QED BY <1>1, <1>5, <1>8, <1>10 DEF Ordered

\* A container started: the next name at the end of the list.
LEMMA StartRunsOrdered ==
  ASSUME OneStart, PoolInv, Once, setup.startFirst, faults' = 0, Ordered,
         NEW c \in Callers, StartRuns(c)
  PROVE  Ordered' /\ hit' = hit
<1>1. /\ pc[c] = "starting" /\ Others(c) /\ pc'[c] \in {"removing old", "started"}
      /\ startAt'[c] = startAt[c] + 1
      /\ started' = started /\ locked' = locked
      /\ startAt[c] \in Names
      /\ \/ EntryAdded(startAt[c]) /\ faults' = faults
         \/ SameLists /\ SameDocker /\ (startAt[c] \in alive \/ faults' = faults + 1)
  BY StartRunsStep
<1>2. ~(faults' = faults + 1)
  <2>1. faults \in Nat
    BY DEF PoolInv, Phases
  <2> QED BY <2>1
<1>3. pc[c] \in StartPhases
  BY <1>1 DEF StartPhases
<1>4. c \in Warmups /\ \A e \in Execs : pc[e] = "idle"
  BY <1>3, StarterIsWarmup
<1>5. InOrder /\ Present
  BY DEF Ordered
<1>6. EntryAdded(startAt[c])
  BY <1>1, <1>2, <1>4, <1>5 DEF Present
<1>7. /\ OwnSemaphore' /\ (\A n : ~ Replaced(n)')
      /\ (\A n \in DOMAIN pool : n \in alive)
  BY <1>1, <1>4, OrderedStarts
<1>8. \A d \in Warmups : d = c
  BY <1>4 DEF OneStart
<1>9. Len(pool) = startAt[c] - 1 /\ startAt[c] \in Nat /\ Len(pool) \in Nat
  BY <1>1, <1>3, <1>4, <1>5, NamesAreNumbers, TypeFacts DEF InOrder
<1>10. Len(pool) + 1 = startAt[c]
  BY <1>9
<1>11. /\ \A k \in DOMAIN pool : k \in DOMAIN pool' /\ pool'[k] = pool[k]
       /\ \A k \in DOMAIN pool' : k \in DOMAIN pool \/ k = startAt[c]
       /\ NamesKept /\ dicts'[pool'[startAt[c]]].name = startAt[c]
       /\ Len(pool') = Len(pool) + 1 /\ Len(line') = Len(line) + 1
       /\ alive' = alive \cup {startAt[c]} /\ hit' = hit
  BY <1>6, <1>10, ListExtended DEF EntryAdded
<1>12. \A k \in DOMAIN pool' : NameAt(k)' = k
  <2> SUFFICES ASSUME NEW k \in DOMAIN pool' PROVE NameAt(k)' = k
    OBVIOUS
  <2>1. CASE k \in DOMAIN pool
    BY <1>5, <1>11, <2>1, NamesStay DEF InOrder
  <2>2. CASE k = startAt[c]
    BY <1>11, <2>2 DEF NameAt
  <2> QED BY <1>11, <2>1, <2>2
<1>13. InOrder'
  <2>1. Len(line') = Len(pool') /\ Len(pool') = startAt'[c] - 1
    <3>1. Len(line) = Len(pool)
      BY <1>5 DEF InOrder
    <3>2. Len(pool') = Len(line')
      BY <1>11, <3>1
    <3>3. startAt'[c] = startAt[c] + 1 /\ Len(pool') = startAt[c]
      BY <1>1, <1>10, <1>11
    <3> QED BY <1>9, <3>2, <3>3
  <2>2. started' => locked'
    BY <1>1, <1>5 DEF InOrder
  <2> QED BY <1>8, <1>12, <2>1, <2>2 DEF InOrder
<1>14. Present'
  <2>1. \A d \in Warmups : pc'[d] # "starting"
    BY <1>1, <1>8
  <2>2. \A n \in DOMAIN pool' : n \in alive'
    BY <1>7, <1>11
  <2> QED BY <1>7, <2>1, <2>2 DEF Present
<1> QED BY <1>7, <1>11, <1>13, <1>14 DEF Ordered

\* The start of the orchestrator begins or returns.
LEMMA WarmupOrdered ==
  ASSUME OneStart, PoolInv, Once, setup.startFirst, Ordered,
         NEW c \in Warmups, Warmup(c) \/ WarmupReturns(c)
  PROVE  Ordered' /\ hit' = hit
<1>1. /\ pc[c] # "returned" /\ Others(c) /\ SameLists /\ SameDocker
      /\ startAt' = startAt
      /\ \/ pc[c] = "idle" /\ pc'[c] = "removing old" /\ started' = started /\ locked' = locked
         \/ /\ pc[c] = "started" /\ pc'[c] = "returned"
            /\ (started' <=> started \/ pool # <<>>) /\ (locked' <=> locked \/ pool # <<>>)
  BY WarmupStep, WarmupReturnsStep
<1>2. InOrder /\ Present
  BY DEF Ordered
<1>3. \A e \in Execs : pc[e] = "idle"
  BY <1>1, Unserved
<1>4. /\ OwnSemaphore' /\ (\A n : ~ Replaced(n)')
      /\ (\A n \in DOMAIN pool : n \in alive)
  BY <1>1, <1>3, OrderedStarts
<1>5. \A d \in Warmups : d = c
  BY DEF OneStart
<1>6. started' => locked'
  BY <1>1, <1>2 DEF InOrder
<1>7. \A k \in DOMAIN pool' : NameAt(k)' = k
  BY <1>1, <1>2 DEF InOrder, SameLists, NameAt
<1>8. pc'[c] \in StartPhases => Len(pool') = startAt'[c] - 1
  <2>1. CASE pc[c] = "idle"
    <3>1. pool = <<>>
      BY <1>5, <2>1 DEF Once
    <3>2. Len(pool) = 0
      BY <3>1, EmptySeq
    <3>3. startAt[c] = 1
      BY <2>1, CallersDiffer DEF PoolInv, Phases
    <3>4. Len(pool') = 0 /\ startAt'[c] = 1
      BY <1>1, <3>2, <3>3 DEF SameLists
    <3> QED BY <3>4
  <2>2. CASE pc'[c] = "returned"
    BY <2>2, PhasesDiffer
  <2> QED BY <1>1, <2>1, <2>2
<1>9. InOrder'
  <2>1. Len(line') = Len(pool')
    BY <1>1, <1>2 DEF InOrder, SameLists
  <2> QED BY <1>5, <1>6, <1>7, <1>8, <2>1 DEF InOrder
<1>10. Present'
  <2>1. \A d \in Warmups : pc'[d] # "starting"
    BY <1>1, <1>5
  <2> QED BY <1>1, <1>4, <2>1 DEF Present, SameLists, SameDocker
<1> QED BY <1>1, <1>4, <1>9, <1>10 DEF Ordered, SameDocker

\* The removal of a container to be replaced.
LEMMA RecycleRemovesOrdered ==
  ASSUME PoolInv, PastKept, Ordered, NEW e \in Execs, RecycleRemoves(e)
  PROVE  Ordered'
<1>1. /\ pc[e] = "removing" /\ Others(e) /\ pc'[e] = "rerun"
      /\ SameLists /\ SameCall /\ SameFlags /\ slot' = slot
      /\ alive' = alive \ {NameOf(e)}
  BY RecycleRemovesStep
<1>2. InOrder /\ OwnSemaphore /\ Present
  BY DEF Ordered
<1>3. pc[e] \in InLine /\ pc[e] \in Recycling
  BY <1>1 DEF InLine, Holding, Recycling
<1>4. \A d \in Execs : pc[d] \in InLine => NameOf(d)' = NameOf(d)
  BY <1>1, NameStays, SameListsKeepNames DEF SameLists, SameCall
<1>5. \A c \in Warmups : pc'[c] = pc[c] /\ startAt'[c] = startAt[c]
  BY <1>1, CallersDiffer DEF Others
<1>6. InOrder'
  <2>1. \A k \in DOMAIN pool' : NameAt(k)' = k
    BY <1>1, <1>2 DEF InOrder, SameLists, NameAt
  <2> QED BY <1>1, <1>2, <1>5, <2>1 DEF InOrder, SameLists, SameFlags
<1>7. OwnSemaphore'
  <2> SUFFICES ASSUME NEW d \in Execs
               PROVE  /\ pc'[d] \in InLine => lock'[d] = NameOf(d)'
                      /\ pc'[d] \in Recycling => slot'[d] = NameOf(d)'
    BY DEF OwnSemaphore
  <2>1. CASE d = e
    BY <1>1, <1>2, <1>3, <1>4, <2>1 DEF OwnSemaphore, SameCall
  <2>2. CASE d # e
    BY <1>1, <1>2, <1>4, <2>2, PhasesDiffer, ZenonT(60) DEF OwnSemaphore, Others, SameCall
  <2> QED BY <2>1, <2>2
<1>8. Present'
  <2>1. \A c \in Warmups : pc'[c] = "starting" => startAt'[c] \notin alive'
    BY <1>1, <1>2, <1>5 DEF Present
  <2>2. NameOf(e)' = NameOf(e)
    BY <1>3, <1>4
  <2>3. ASSUME NEW n, Replaced(n)' PROVE n \notin alive' \/ Abandoned(n)'
    <3>1. n = NameOf(e) \/ Replaced(n)
      BY <1>1, <2>2, <2>3, ReplacedKept
    <3>2. CASE n = NameOf(e)
      BY <1>1, <3>2
    <3>3. CASE Replaced(n)
      BY <1>1, <1>2, <3>3, StaysAbandoned DEF Present
    <3> QED BY <3>1, <3>2, <3>3
  <2>4. ASSUME NEW n \in DOMAIN pool' PROVE n \in alive' \/ Replaced(n)' \/ Abandoned(n)'
    <3>1. n \in alive \/ Replaced(n) \/ Abandoned(n)
      BY <1>1, <1>2, <2>4 DEF Present, SameLists
    <3>2. CASE n = NameOf(e)
      BY <1>1, <2>2, <3>2 DEF Replaced
    <3>3. CASE n # NameOf(e)
      BY <1>1, <3>1, <3>3, ReplacedKept, StaysAbandoned
    <3> QED BY <3>2, <3>3
  <2> QED BY <2>1, <2>3, <2>4 DEF Present
<1> QED BY <1>6, <1>7, <1>8 DEF Ordered

\* The new container takes the place of the old one.
LEMMA RecycleRunsOrdered ==
  ASSUME PoolInv, PastKept, Once, setup.startFirst, Ordered, NEW e \in Execs, RecycleRuns(e)
  PROVE  Ordered'
<1>1. /\ pc[e] \in {"rerun", "rerun again"} /\ Others(e) /\ NamesKept /\ pc'[e] = "returned"
      /\ SameCall /\ SameFlags
      /\ slot' = slot /\ Len(line') = Len(line)
      /\ alive' = alive \cup {NameOf(e)}
      /\ EntryReplaced(slot[e], NameOf(e)) \/ (slot[e] \notin DOMAIN pool /\ pool' = pool)
  BY RecycleRunsStep
<1>2. InOrder /\ OwnSemaphore /\ Present
  BY DEF Ordered
<1>3. pc[e] \in Holding /\ pc[e] \in InLine /\ pc[e] \in Recycling
  BY <1>1 DEF InLine, Holding, Recycling
<1>4. slot[e] = NameOf(e) /\ slot[e] \in DOMAIN pool
  BY <1>2, <1>3, OwnEntry DEF OwnSemaphore
<1>5. PICK k \in DOMAIN pool : k = NameOf(e)
  BY <1>4
<1>6. EntryReplaced(k, k)
  BY <1>1, <1>4, <1>5
<1>7. \A c \in Warmups : pc'[c] = "returned"
  <2>1. \A c \in Warmups : pc[c] = "returned"
    BY <1>3, PhasesDiffer DEF Once
  <2> QED BY <1>1, <2>1, CallersDiffer DEF Others
<1>8. \A m \in DOMAIN pool' : m \in DOMAIN pool /\ NameAt(m)' = m
  <2>1. DOMAIN pool' = DOMAIN pool /\ dicts'[pool'[k]].name = k
        /\ \A m \in DOMAIN pool : m # k => pool'[m] = pool[m]
    BY <1>6 DEF EntryReplaced
  <2>2. NameAt(k)' = k
    BY <2>1 DEF NameAt
  <2>3. ASSUME NEW m \in DOMAIN pool, m # k PROVE NameAt(m)' = m
    <3>1. NameAt(m)' = NameAt(m)
      BY <1>1, <2>1, <2>3, NamesStay
    <3> QED BY <1>2, <3>1 DEF InOrder
  <2> QED BY <2>1, <2>2, <2>3
<1>9. InOrder'
  <2>1. Len(line') = Len(pool')
    BY <1>1, <1>2, <1>6 DEF InOrder, EntryReplaced
  <2> QED BY <1>1, <1>2, <1>7, <1>8, <2>1, PhasesDiffer DEF InOrder, SameFlags
<1>10. \A d \in Execs : d # e =>
         pc'[d] = pc[d] /\ lock'[d] = lock[d] /\ slot'[d] = slot[d]
         /\ (pc[d] \in InLine => NameOf(d)' = NameOf(d))
  BY <1>1, NameStays DEF Others
<1>11. OwnSemaphore'
  <2> SUFFICES ASSUME NEW d \in Execs
               PROVE  /\ pc'[d] \in InLine => lock'[d] = NameOf(d)'
                      /\ pc'[d] \in Recycling => slot'[d] = NameOf(d)'
    BY DEF OwnSemaphore
  <2>1. CASE d = e
    BY <1>1, <2>1, PhasesDiffer
  <2>2. CASE d # e
    BY <1>2, <1>10, <2>2, PhasesDiffer DEF OwnSemaphore
  <2> QED BY <2>1, <2>2
<1>12. Present'
  <2>1. ASSUME NEW n, Replaced(n)' PROVE n \notin alive' \/ Abandoned(n)'
    <3>1. PICK d \in Execs : pc'[d] = "rerun" /\ NameOf(d)' = n
      BY <2>1 DEF Replaced
    <3>2. d # e /\ pc[d] = "rerun" /\ pc[d] \in Holding
      BY <1>1, <1>10, <3>1 DEF Holding, Recycling
    <3>3. NameOf(d) = n
      BY <1>10, <3>1, <3>2, PhasesDiffer
    <3>4. n # NameOf(e)
      BY <1>2, <1>3, <3>2, <3>3, OneHolder
    <3>5. n \notin alive \/ Abandoned(n)
      BY <1>2, <3>2, <3>3 DEF Present, Replaced
    <3> QED BY <1>1, <3>4, <3>5, StaysAbandoned
  <2>2. ASSUME NEW n \in DOMAIN pool' PROVE n \in alive' \/ Replaced(n)' \/ Abandoned(n)'
    <3>1. n \in alive \/ Replaced(n) \/ Abandoned(n)
      BY <1>2, <1>8 DEF Present
    <3> QED BY <1>1, <3>1, ReplacedKept, StaysAbandoned
  <2> QED BY <1>7, <2>1, <2>2 DEF Present
<1> QED BY <1>9, <1>11, <1>12 DEF Ordered

\* What is left of cancelled calls.
LEMMA RemnantsOrdered ==
  ASSUME PoolInv, Once, setup.startFirst, Ordered, LateAbandoned,
         \/ \E e \in Execs : StrayEnds(e)
         \/ \E k \in late : LateCommand(k)
  PROVE  Ordered'
<1>1. /\ setup' = setup /\ pc' = pc /\ slot' = slot
      /\ SameLists /\ SameCall /\ SameFlags
      /\ SameDocker \/ \E k \in late : DoneLate(k.name)
  BY RemnantsStep
<1>2. InOrder /\ OwnSemaphore /\ Present
  BY DEF Ordered
<1>3. (\A n : NameAt(n)' = NameAt(n)) /\ (\A e : NameOf(e)' = NameOf(e))
  BY <1>1 DEF SameLists, SameCall, NameAt, NameOf
<1>4. \A n : (Abandoned(n)' <=> Abandoned(n)) /\ (Replaced(n)' <=> Replaced(n))
  BY <1>1, <1>3 DEF Abandoned, Replaced, SameCall
<1>5. InOrder'
  BY <1>1, <1>2, <1>3 DEF InOrder, SameLists, SameCall, SameFlags
<1>6. OwnSemaphore'
  BY <1>1, <1>2, <1>3 DEF OwnSemaphore, SameCall
<1>7. CASE SameDocker
  <2>1. Present'
    BY <1>1, <1>2, <1>4, <1>7 DEF Present, SameDocker, SameLists, SameCall
  <2> QED BY <1>5, <1>6, <2>1 DEF Ordered
<1>8. ASSUME NEW k \in late, DoneLate(k.name) PROVE Ordered'
  <2>1. Abandoned(k.name) /\ \A n : n # k.name => (n \in alive' <=> n \in alive)
    BY <1>8 DEF LateAbandoned, DoneLate
  <2>2. PICK e \in Execs : pc[e] = "cancelled"
    BY <2>1 DEF Abandoned
  <2>3. \A c \in Warmups : pc[c] = "returned"
    BY <2>2 DEF Once
  <2>4. Present'
    <3>1. \A n : Replaced(n)' => n \notin alive' \/ Abandoned(n)'
      BY <1>2, <1>4, <2>1 DEF Present
    <3>2. \A n \in DOMAIN pool' : n \in alive' \/ Replaced(n)' \/ Abandoned(n)'
      BY <1>1, <1>2, <1>4, <2>1 DEF Present, SameLists
    <3> QED BY <1>1, <2>3, <3>1, <3>2 DEF Present
  <2> QED BY <1>5, <1>6, <2>4 DEF Ordered
<1> QED BY <1>1, <1>7, <1>8

\* A call that is served keeps its semaphore.
LEMMA LockStays ==
  ASSUME PoolInv, OwnSemaphore, NamesKept, NEW e \in Execs, pc[e] \in InLine, SameCall
  PROVE  lock'[e] = NameOf(e)' /\ NameOf(e)' = NameOf(e)
<1>1. NameOf(e)' = NameOf(e)
  BY NameStays DEF SameCall
<1> QED BY <1>1 DEF OwnSemaphore, SameCall

\* While nothing fails, container k is at position k with semaphore k.
LEMMA OrderedStep ==
  ASSUME OneStart, PoolInv, PastKept, Once, Ordered, LateAbandoned, Calm, Calm', Next
  PROVE  Ordered'
<1> USE DEF Ordered
<1>1. ASSUME NEW e \in Execs, ExecuteWarm(e) PROVE Ordered'
  <2>1. /\ pc[e] = "idle" /\ started /\ Others(e)
        /\ pool' = pool /\ dicts' = dicts /\ SameDocker
        /\ started' = started /\ locked' = locked
    BY <1>1, ExecuteWarmStep DEF Calm
  <2>2. PICK i \in DOMAIN pool : PickedEntry(e, i)
    BY <1>1, ExecuteWarmStep
  <2>3. /\ at'[e] = pool[i] /\ Len(line') = Len(line) /\ pc'[e] = "queued"
        /\ (locked' /\ i <= Len(line)) => lock'[e] = i
    BY <2>2 DEF PickedEntry
  <2>4. lock'[e] = NameOf(e)'
    <3>1. NameOf(e)' = i
      BY <2>1, <2>3 DEF InOrder, NameOf, NameAt
    <3>2. locked' /\ i <= Len(line)
      <4>1. i <= Len(pool)
        BY TypeFacts
      <4> QED BY <2>1, <4>1 DEF InOrder
    <3> QED BY <2>3, <3>1, <3>2
  <2>5. "queued" \notin Recycling
    BY DEF Recycling
  <2> QED BY <2>1, <2>3, <2>4, <2>5, OrderedKept DEF SameDocker
<1>2. ASSUME NEW e \in Execs, ExecuteCold(e) PROVE Ordered'
  <2>1. /\ pc[e] = "idle" /\ Others(e) /\ SameLists /\ SameDocker
        /\ started' = started /\ locked' = locked
        /\ pc'[e] \in {"returned", "removing old"}
    BY <1>2, ExecuteColdStep
  <2>2. pc'[e] \notin InLine /\ pc'[e] \notin Recycling
    BY <2>1 DEF InLine, Holding, Recycling
  <2>3. pc[e] # "rerun" /\ pc'[e] # "rerun"
    BY <2>1
  <2> QED BY <2>1, <2>2, <2>3, OrderedKept DEF SameDocker, SameLists
<1>3. ASSUME NEW e \in Execs, PickAfterStart(e) PROVE Ordered'
  <2>1. pc[e] \in StartPhases
    BY <1>3, PickAfterStartStep DEF StartPhases
  <2> QED BY <2>1 DEF Once, Calm
<1>4. ASSUME NEW e \in Execs, Begin(e) \/ End(e) PROVE Ordered'
  <2>1. /\ pc[e] \in InLine /\ pc[e] # "rerun" /\ Others(e)
        /\ pc'[e] \in {"running", "killing"}
        /\ SameLists /\ SameCall /\ SameFlags /\ alive' = alive
    BY <1>4, BeginStep, EndStep DEF InLine, Holding
  <2>2. pc'[e] \notin Recycling /\ pc'[e] # "rerun"
    BY <2>1 DEF Recycling
  <2>3. lock'[e] = NameOf(e)'
    BY <2>1, LockStays, SameListsKeepNames DEF SameLists
  <2> QED BY <2>1, <2>2, <2>3, OrderedKept DEF SameLists, SameFlags
<1>5. ASSUME NEW e \in Execs, AfterKill(e) PROVE Ordered'
  <2>1. /\ pc[e] = "killing" /\ Others(e) /\ NamesKept
        /\ pool' = pool /\ alive' = alive /\ SameCall /\ SameFlags
        /\ Len(line') = Len(line)
        /\ \/ pc'[e] = "returned"
           \/ /\ pc'[e] = "removing"
              /\ slot'[e] \in DOMAIN pool
              /\ dicts[pool[slot'[e]]].name = NameOf(e)
    BY <1>5, AfterKillStep
  <2>2. pc[e] \in InLine
    BY <2>1 DEF InLine, Holding
  <2>3. lock'[e] = NameOf(e)' /\ NameOf(e)' = NameOf(e)
    BY <2>1, <2>2, LockStays
  <2>4. pc'[e] \in Recycling => slot'[e] = NameOf(e)'
    <3> SUFFICES ASSUME pc'[e] \in Recycling PROVE slot'[e] = NameOf(e)
      BY <2>3
    <3>1. slot'[e] \in DOMAIN pool /\ dicts[pool[slot'[e]]].name = NameOf(e)
      BY <2>1, PhasesDiffer
    <3>2. PICK k \in DOMAIN pool : k = slot'[e]
      BY <3>1
    <3>3. NameAt(k) = k
      BY DEF InOrder
    <3> QED BY <3>1, <3>2, <3>3 DEF NameAt
  <2>5. pc[e] # "rerun" /\ pc'[e] # "rerun"
    BY <2>1
  <2> QED BY <2>1, <2>3, <2>4, <2>5, OrderedKept DEF SameFlags
<1>6. ASSUME NEW e \in Execs, RecycleRetries(e) PROVE Ordered'
  <2>1. /\ pc[e] = "rerun" /\ Others(e) /\ pc'[e] = "rerun again"
        /\ SameLists /\ SameDocker /\ SameCall /\ SameFlags /\ slot' = slot
        /\ NameOf(e) \in alive \/ faults' = faults + 1
    BY <1>6, RecycleRetriesStep
  <2>2. ~(faults' = faults + 1)
    <3>1. faults \in Nat
      BY DEF PoolInv, Phases
    <3>2. faults' = 0
      BY DEF Calm
    <3> QED BY <3>1, <3>2
  <2>3. Abandoned(NameOf(e))
    BY <2>1, <2>2 DEF Present, Replaced
  <2>4. \A n : NameOf(e) = n => Abandoned(n)'
    BY <2>3, StaysAbandoned
  <2>5. pc[e] \in InLine /\ pc[e] \in Recycling /\ pc'[e] # "rerun"
    BY <2>1 DEF InLine, Holding, Recycling
  <2>6. lock'[e] = NameOf(e)' /\ NameOf(e)' = NameOf(e)
    BY <2>1, <2>5, LockStays DEF PastKept
  <2>7. slot'[e] = NameOf(e)'
    BY <2>1, <2>5, <2>6 DEF OwnSemaphore
  <2> QED BY <2>1, <2>4, <2>5, <2>6, <2>7, OrderedKept DEF SameLists, SameDocker, SameFlags
<1>7. ASSUME NEW e \in Execs, RecycleGivesUp(e) PROVE Ordered'
  <2>1. /\ pc[e] = "rerun again" /\ Len(line') = Len(line)
        /\ EntryDropped(slot[e]) \/ slot[e] \notin DOMAIN pool
    BY <1>7, RecycleGivesUpStep
  <2>2. pc[e] \in InLine /\ pc[e] \in Recycling
    BY <2>1 DEF InLine, Holding, Recycling
  <2>3. slot[e] \in DOMAIN pool
    BY <2>2, OwnEntry DEF OwnSemaphore
  <2>4. Len(pool') = Len(pool) - 1
    BY <2>1, <2>3 DEF EntryDropped
  <2>5. Len(pool) = Len(line) /\ Len(pool') = Len(line')
    BY DEF Calm
  <2>6. Len(pool) \in Nat
    BY TypeFacts
  <2>7. Len(pool') = Len(pool)
    BY <2>1, <2>5
  <2> QED BY <2>4, <2>6, <2>7
<1>8. ASSUME NEW e \in Execs, CancelQueued(e) \/ CancelHolding(e) PROVE Ordered'
  <2>1. /\ \/ pc[e] = "queued" /\ pc'[e] = "withdrawn"
           \/ pc[e] \in Holding /\ pc'[e] = "cancelled"
        /\ Others(e) /\ dicts' = dicts /\ pool' = pool /\ Len(line') = Len(line)
        /\ SameDocker /\ SameCall /\ SameFlags
    BY <1>8, CancelStep
  <2>2. pc'[e] \notin InLine /\ pc'[e] \notin Recycling /\ pc'[e] # "rerun"
    BY <2>1, PhasesDiffer
  <2>3. \A n : pc[e] = "rerun" /\ NameOf(e) = n => Abandoned(n)'
    <3> SUFFICES ASSUME pc[e] = "rerun" PROVE Abandoned(NameOf(e))'
      <4>1. pc[e] = "rerun" => NameOf(e)' = NameOf(e)
        BY <2>1, NameStays, SameListsKeepNames DEF InLine, Holding, Recycling, SameCall
      <4> QED BY <4>1 DEF Abandoned
    <3>1. pc[e] \in InLine /\ pc'[e] = "cancelled"
      BY <2>1 DEF InLine, Holding, Recycling
    <3>2. at[e] # 0 /\ at'[e] = at[e]
      BY <2>1, <3>1 DEF PoolInv, Lines, Picked, SameCall
    <3> QED BY <3>1, <3>2 DEF Abandoned
  <2> QED BY <2>1, <2>2, <2>3, OrderedKept DEF SameDocker, SameFlags
<1>9. ASSUME NEW c \in Callers, CancelStart(c) PROVE Ordered'
  <2>1. pc[c] \in StartPhases /\ pc'[c] = "cancelled"
    BY <1>9, CancelStartStep DEF StartPhases
  <2>2. c \in Warmups
    BY <2>1, StarterIsWarmup DEF Calm
  <2> QED BY <2>1, <2>2 DEF Calm
<1>10. CASE CleanupBegins \/ CleanupRemoves \/ CleanupEnds
  BY <1>10, CleanupStep DEF Calm
<1>11. setup.startFirst /\ faults' = 0
  BY DEF Calm
<1>12. CASE \E e \in Execs : ExecuteWarm(e) \/ ExecuteCold(e) \/ ExecStep(e)
  BY <1>1, <1>2, <1>3, <1>4, <1>5, <1>6, <1>7, <1>11, <1>12, RecycleRemovesOrdered,
     RecycleRunsOrdered DEF ExecStep
<1>13. CASE \E c \in Callers : StartStep(c) \/ CancelStart(c)
  BY <1>9, <1>11, <1>13, StartRemovesOrdered, StartRunsOrdered, WarmupOrdered DEF StartStep
<1>14. CASE \E c \in Warmups : Warmup(c)
  BY <1>11, <1>14, WarmupOrdered
<1>15. CASE \/ \E e \in Execs : CancelQueued(e) \/ CancelHolding(e) \/ StrayEnds(e)
            \/ \E k \in late : LateCommand(k)
  BY <1>8, <1>11, <1>15, RemnantsOrdered
<1> HIDE DEF Ordered
<1> QED BY <1>10, <1>12, <1>13, <1>14, <1>15 DEF Next

\* Calls are disturbed only in containers that a cancelled call had.
LEMMA UnhurtStep ==
  ASSUME OneStart, PoolInv, PastKept, Once, Ordered, Unhurt, LateAbandoned, Calm, Calm', Next
  PROVE  Unhurt'
<1>1. \A e \in Execs : pc[e] \in InLine => Past(e)
  BY DEF PoolInv, Lines, Picked, Past
<1>2. SUFFICES \A e \in hit' : e \in hit \/ (e \in Execs /\ Past(e) /\ Abandoned(NameOf(e)))
  <2> SUFFICES ASSUME NEW e \in hit' PROVE Past(e)' /\ Abandoned(NameOf(e))'
    BY DEF Unhurt
  <2>1. hit \subseteq Execs
    BY DEF PoolInv, PoolTypes
  <2>2. e \in Execs /\ Past(e) /\ Abandoned(NameOf(e))
    BY <1>2, <2>1 DEF Unhurt
  <2>3. Past(e)' /\ NameOf(e)' = NameOf(e)
    BY <2>2, PastNames DEF PastKept
  <2>4. PICK d \in Execs : pc[d] = "cancelled" /\ at[d] # 0 /\ NameOf(d) = NameOf(e)
    BY <2>2 DEF Abandoned
  <2>5. Past(d)
    BY <2>4 DEF Past, Ended
  <2>6. pc'[d] = "cancelled" /\ at'[d] # 0 /\ NameOf(d)' = NameOf(e)'
    BY <2>3, <2>4, <2>5, PastNames DEF PastKept
  <2> QED BY <2>3, <2>6 DEF Abandoned
<1>3. InOrder /\ OwnSemaphore /\ Present /\ setup.startFirst /\ faults' = 0
  BY DEF Ordered, Calm
<1>4. ASSUME NEW e \in Execs,
             \/ ExecuteWarm(e) \/ ExecuteCold(e) \/ End(e) \/ RecycleRuns(e)
             \/ RecycleRetries(e) \/ RecycleGivesUp(e) \/ CancelQueued(e) \/ CancelHolding(e)
      PROVE  hit' = hit
  BY <1>4, ExecuteWarmStep, ExecuteColdStep, EndStep, RecycleRunsStep, RecycleRetriesStep,
     RecycleGivesUpStep, CancelStep DEF SameDocker
<1>5. ASSUME NEW e \in Execs, PickAfterStart(e) PROVE hit' = hit
  BY <1>5 DEF PickAfterStart, StartReturns, dockerVars
<1>6. ASSUME NEW e \in Execs, Begin(e)
      PROVE  hit' = hit \/ (hit' = hit \cup {e} /\ Past(e) /\ Abandoned(NameOf(e)))
  <2>1. /\ pc[e] = "queued" /\ Granted(e)
        /\ hit' = hit \/ (hit' = hit \cup {e} /\ NameOf(e) \notin alive)
    BY <1>6 DEF Begin
  <2> SUFFICES ASSUME NameOf(e) \notin alive, ~ Abandoned(NameOf(e)) PROVE FALSE
    BY <1>1, <2>1 DEF InLine
  <2>2. pc[e] \in InLine
    BY <2>1 DEF InLine
  <2>3. NameOf(e) \in DOMAIN pool
    BY <1>3, <2>2, OwnEntry
  <2>4. PICK d \in Execs : pc[d] = "rerun" /\ NameOf(d) = NameOf(e)
    BY <1>3, <2>3 DEF Present, Replaced
  <2>5. pc[d] \in Holding
    BY <2>4 DEF Holding, Recycling
  <2>6. d = e
    BY <1>3, <2>1, <2>2, <2>4, <2>5, OneHolder
  <2> QED BY <2>1, <2>4, <2>6
<1>7. ASSUME NEW e \in Execs, AfterKill(e) \/ RecycleRemoves(e) PROVE hit' = hit
  <2>1. pc[e] \in {"killing", "removing"} /\ hit' = hit \cup Inside(NameOf(e))
    BY <1>7, AfterKillStep, RecycleRemovesStep
  <2>2. Inside(NameOf(e)) = {}
    BY <1>3, <2>1, NobodyInside DEF Holding, Recycling
  <2> QED BY <2>1, <2>2
<1>8. ASSUME NEW c \in Callers, StartStep(c) \/ CancelStart(c) PROVE hit' = hit
  BY <1>3, <1>8, StartRemovesOrdered, StartRunsOrdered, WarmupOrdered, CancelStartStep
     DEF StartStep, SameDocker
<1>9. ASSUME NEW c \in Warmups, Warmup(c) PROVE hit' = hit
  BY <1>9, WarmupStep DEF SameDocker
<1>10. CASE CleanupBegins \/ CleanupRemoves \/ CleanupEnds
  BY <1>10, CleanupStep DEF Calm
<1>11. CASE \/ \E e \in Execs : StrayEnds(e)
            \/ \E k \in late : LateCommand(k)
  <2>1. hit' = hit \/ \E k \in late : hit' = hit \cup Inside(k.name)
    BY <1>11, RemnantsStep DEF SameDocker, DoneLate
  <2>2. \A k \in late : \A e \in Inside(k.name) :
          e \in Execs /\ Past(e) /\ Abandoned(NameOf(e))
    <3>1. "running" \in InLine
      BY DEF InLine, Holding
    <3> QED BY <1>1, <3>1 DEF Inside, LateAbandoned
  <2> QED BY <2>1, <2>2
<1> QED BY <1>4, <1>5, <1>6, <1>7, <1>8, <1>9, <1>10, <1>11 DEF Next, ExecStep

\* Late commands name such containers.
LEMMA LateStep ==
  ASSUME PoolInv, PastKept, Once, LateAbandoned, Calm, Calm', Next
  PROVE  LateAbandoned'
<1>1. \A k \in late : Abandoned(k.name)'
  BY StaysAbandoned DEF LateAbandoned
<1>2. CASE NothingLeft
  BY <1>1, <1>2 DEF NothingLeft, LateAbandoned
<1>3. ASSUME NEW e \in Execs, CancelQueued(e) PROVE LateAbandoned'
  BY <1>1, <1>3 DEF CancelQueued, LateAbandoned
<1>4. ASSUME NEW e \in Execs, CancelHolding(e) PROVE LateAbandoned'
  <2>1. /\ pc'[e] = "cancelled" /\ at'[e] = at[e] /\ at[e] # 0
        /\ \/ late' = late
           \/ \E q \in {"kill", "rm", "run"} :
                late' = late \cup {[cmd |-> q, name |-> NameOf(e)]}
    BY <1>4, HoldingLeaves
  <2>2. NameOf(e)' = NameOf(e)
    BY <1>4, <2>1, CancelStep DEF NameOf
  <2>3. Abandoned(NameOf(e))'
    BY <2>1 DEF Abandoned
  <2>4. \A n : n = NameOf(e) => Abandoned(n)'
    BY <2>1, <2>2 DEF Abandoned
  <2>5. \A k \in late' : k \in late \/ k.name = NameOf(e)
    BY <2>1
  <2> QED BY <1>1, <2>4, <2>5 DEF LateAbandoned
<1>5. ASSUME NEW c \in Callers, CancelStart(c) PROVE LateAbandoned'
  <2>1. pc[c] \in StartPhases /\ pc'[c] = "cancelled"
    BY <1>5, CancelStartStep DEF StartPhases
  <2>2. c \in Warmups
    BY <2>1, StarterIsWarmup DEF Calm
  <2> QED BY <2>1, <2>2 DEF Calm
<1> QED BY <1>2, <1>3, <1>4, <1>5, CancelsLeave

\* What holds while all is calm goes on to hold.
LEMMA SteadyStep ==
  ASSUME OneStart, PoolInv, Once, Remnants, Steady, Next
  PROVE  Steady'
<1> SUFFICES ASSUME Calm' PROVE Ordered' /\ Unhurt' /\ LateAbandoned'
  BY DEF Steady
<1>1. PastKept /\ CalmBefore
  BY PastStep, CalmStep
<1>2. Calm
  BY <1>1 DEF CalmBefore, Remnants
<1>3. Ordered /\ Unhurt /\ LateAbandoned
  BY <1>2 DEF Steady
<1> QED BY <1>1, <1>2, <1>3, OrderedStep, UnhurtStep, LateStep

-------------------------------------------------------------------------------
(***************************************************************************)
(* The theorems.                                                           *)
(***************************************************************************)

\* The whole inductive invariant.
CareInv == PoolInv /\ Remnants /\ Alone /\ Once /\ Suspects /\ Steady

\* The invariant at the beginning.
LEMMA CareInit == Init => CareInv
<1> SUFFICES ASSUME Init PROVE CareInv
  OBVIOUS
<1>1. PoolInv
  BY PoolInvInit
<1>2. /\ \A c \in Callers : pc[c] = "idle"
      /\ pool = <<>> /\ DOMAIN pool = {} /\ line = <<>> /\ suspect = {} /\ hit = {}
      /\ \A e \in Execs : result[e] = "none"
  BY NoPositions DEF Init
<1>3. (\A e \in Execs : pc[e] = "idle") /\ (\A c \in Warmups : pc[c] = "idle")
  BY <1>2, CallersDiffer
<1>4. ~started
  BY DEF Init
<1>5. InFlight = {}
  BY <1>3 DEF InFlight, Ended
<1>6. \A e \in Execs : pc[e] \notin InLine /\ pc[e] \notin Recycling /\ pc[e] \notin StartPhases
  BY <1>3, PhasesDiffer
<1>7. Alone
  BY <1>2, <1>5, <1>6 DEF Alone
<1>8. Once
  BY <1>2, <1>3, <1>4, <1>6 DEF Once
<1>9. Suspects
  <2>1. QueuedIsFresh /\ SuspectsReplaced /\ NamesDiffer
    BY <1>2 DEF QueuedIsFresh, SuspectsReplaced, NamesDiffer
  <2>2. Listed
    BY <1>6 DEF Listed, Finds
  <2> QED BY <2>1, <2>2 DEF Suspects
<1>10. Steady
  <2>1. Len(line) = Len(pool) /\ late = {}
    BY <1>2 DEF Init
  <2>2. InOrder
    BY <1>2, <1>3, <1>4, <2>1, PhasesDiffer DEF InOrder
  <2>3. OwnSemaphore
    BY <1>3, <1>6 DEF OwnSemaphore
  <2>4. Present
    BY <1>2, <1>3 DEF Present, Replaced
  <2> QED BY <1>2, <2>1, <2>2, <2>3, <2>4 DEF Steady, Ordered, Unhurt, LateAbandoned
<1>11. Remnants
  <2>1. Len(pool) = 0 /\ Len(line) = 0
    BY <1>2, EmptySeq
  <2>2. stray = {} /\ late = {} /\ cancels = 0
    BY DEF Init
  <2> QED BY <2>1, <2>2 DEF Remnants
<1> QED BY <1>1, <1>7, <1>8, <1>9, <1>10, <1>11 DEF CareInv

\* A stutter keeps the invariant.
LEMMA CareStutters ==
  ASSUME CareInv, UNCHANGED vars
  PROVE  CareInv'
<1>1. PoolInv'
  BY PoolInvStep DEF CareInv, Remnants
<1>2. /\ setup' = setup /\ pool' = pool /\ dicts' = dicts /\ line' = line
      /\ alive' = alive /\ suspect' = suspect /\ hit' = hit
      /\ pc' = pc /\ startAt' = startAt /\ at' = at /\ lock' = lock /\ slot' = slot
      /\ outcome' = outcome /\ result' = result
      /\ faults' = faults /\ cleanups' = cleanups
      /\ stray' = stray /\ late' = late /\ cancels' = cancels
  BY DEF vars, listVars, dockerVars, callVars, boundVars, cancelVars
<1>3. started' = started /\ locked' = locked
  BY DEF vars, listVars
<1>4. overlapped' = overlapped
  BY DEF vars
<1>5. (\A k : NameAt(k)' = NameAt(k)) /\ (\A e : NameOf(e)' = NameOf(e))
  BY <1>2 DEF NameAt, NameOf
<1>6. Alone'
  BY <1>2, <1>4 DEF CareInv, Alone, InFlight, Ended
<1>7. Once'
  BY <1>2, <1>3, <1>5 DEF CareInv, Once
<1>8. Suspects'
  <2> SUFFICES ASSUME setup.startFirst, ~overlapped
               PROVE  (NamesDiffer /\ SuspectsReplaced /\ QueuedIsFresh /\ Listed)'
    BY <1>2, <1>4 DEF Suspects
  <2>1. NamesDiffer /\ SuspectsReplaced /\ QueuedIsFresh /\ Listed
    BY DEF CareInv, Suspects
  <2>2. \A e, n : Replaces(e, n)' <=> Replaces(e, n)
    BY <1>2, <1>5 DEF Replaces
  <2>3. \A e : NameAt(slot[e])' = NameAt(slot[e])
    BY <1>2 DEF NameAt
  <2>4. NamesDiffer' /\ SuspectsReplaced'
    BY <1>2, <1>5, <2>1, <2>2 DEF NamesDiffer, SuspectsReplaced, Unlisted, CutShort
  <2>5. QueuedIsFresh' /\ Listed'
    BY <1>2, <1>5, <2>1, <2>3 DEF QueuedIsFresh, CutShort, Listed, Finds
  <2> QED BY <2>4, <2>5
<1>9. Steady'
  <2> SUFFICES ASSUME Calm PROVE (Ordered /\ Unhurt /\ LateAbandoned)'
    BY <1>2 DEF Steady, Calm
  <2>1. InOrder /\ OwnSemaphore /\ Present /\ Unhurt /\ LateAbandoned
    BY DEF CareInv, Steady, Ordered
  <2>2. \A n : (Abandoned(n)' <=> Abandoned(n)) /\ (Replaced(n)' <=> Replaced(n))
    BY <1>2, <1>5 DEF Abandoned, Replaced
  <2>3. Ordered'
    BY <1>2, <1>3, <1>5, <2>1, <2>2 DEF Ordered, InOrder, OwnSemaphore, Present
  <2>4. Unhurt' /\ LateAbandoned'
    BY <1>2, <1>5, <2>1, <2>2 DEF Unhurt, Past, LateAbandoned
  <2> QED BY <2>3, <2>4
<1>10. Remnants'
  <2>1. Command' = Command
    BY <1>2 DEF Command, Names
  <2> QED BY <1>2, <2>1 DEF CareInv, Remnants
<1> QED BY <1>1, <1>6, <1>7, <1>8, <1>9, <1>10 DEF CareInv

\* Every step keeps the invariant.
LEMMA CareStep ==
  ASSUME OneStart, CareInv, [Next]_vars
  PROVE  CareInv'
<1>1. CASE UNCHANGED vars
  BY <1>1, CareStutters
<1>2. CASE Next
  <2>1. PoolInv /\ Remnants /\ Alone /\ Once /\ Suspects /\ Steady
    BY DEF CareInv
  <2>2. PoolInv'
    BY <1>2, <2>1, PoolInvStep DEF Remnants
  <2> QED BY <1>2, <2>1, <2>2, RemnantsKept, AloneStep, OnceStep, SuspectsStep, SteadyStep
          DEF CareInv
<1> QED BY <1>1, <1>2

\* The invariant the theorems rest on.
LEMMA Care == ASSUME OneStart PROVE Spec => []CareInv
<1>1. CareInv /\ [Next]_vars => CareInv'
  BY CareStep
<1> QED BY <1>1, CareInit, PTL DEF Spec

\* Calls of which no two differ are at most one.
LEMMA AtMostOne ==
  ASSUME NEW S, \A d, e \in S : d = e
  PROVE  Cardinality(S) <= 1
<1>1. CASE S = {}
  BY <1>1, FS_EmptySet
<1>2. CASE S # {}
  <2>1. PICK e : S = {e}
    BY <1>2
  <2> QED BY <2>1, FS_Singleton
<1> QED BY <1>1, <1>2

\* Of the calls in one container at most one is running its candidate, and it
\* has no company where no call was cancelled.
LEMMA OneInside ==
  ASSUME PoolInv, Remnants, Steady, Calm, NEW n \in Names
  PROVE  Cardinality(Inside(n)) <= 1 /\ (Cardinality(Occupants(n)) <= 1 \/ Abandoned(n))
<1>1. ASSUME NEW d \in Inside(n), NEW e \in Inside(n) PROVE d = e
  <2>1. /\ d \in Execs /\ pc[d] = "running" /\ NameOf(d) = n
        /\ e \in Execs /\ pc[e] = "running" /\ NameOf(e) = n
    BY DEF Inside
  <2>2. pc[d] \in Holding /\ pc[e] \in Holding /\ pc[e] \in InLine
    BY <2>1 DEF Holding, InLine
  <2> QED BY <2>1, <2>2, OneHolder DEF Steady, Ordered
<1>2. ~ Abandoned(n) => Occupants(n) = Inside(n)
  BY DEF Remnants, Occupants, Abandoned
<1> QED BY <1>1, <1>2, AtMostOne

\* Who holds a semaphore is at work.
LEMMA HeadIsRunning ==
  ASSUME PoolInv
  PROVE  HeldByRunningCall
<1> SUFFICES ASSUME NEW k \in DOMAIN line, line[k] # <<>>
             PROVE  pc[Head(line[k])] \notin Ended
  BY DEF HeldByRunningCall
<1>1. line[k] \in Seq(Execs)
  BY TypeFacts
<1>2. Head(line[k]) = line[k][1] /\ 1 \in DOMAIN line[k]
  BY <1>1, TailFacts
<1>3. pc[line[k][1]] \in InLine
  BY <1>2 DEF PoolInv, Lines, InLines
<1> QED BY <1>2, <1>3, PhasesDiffer DEF Ended

\* Calls that have overlapped have done so for good.
LEMMA StepsOverlap ==
  ASSUME PoolInv, Next
  PROVE  overlapped => overlapped'
<1>1. ASSUME NEW e \in Execs, ExecuteWarm(e) \/ ExecuteCold(e) PROVE overlapped => overlapped'
  BY <1>1, ExecuteWarmStep, ExecuteColdStep
<1>2. ASSUME NEW e \in Execs, ExecStep(e) PROVE overlapped => overlapped'
  BY <1>2, PickAfterStartStep, BeginStep, EndStep, AfterKillStep, RecycleRemovesStep,
     RecycleRunsStep, RecycleRetriesStep, RecycleGivesUpStep DEF ExecStep, SameFlags
<1>3. ASSUME NEW c \in Warmups, Warmup(c) PROVE overlapped => overlapped'
  BY <1>3, WarmupStep
<1>4. ASSUME NEW c \in Callers, StartStep(c) PROVE overlapped => overlapped'
  BY <1>4, StartRemovesStep, StartRunsStep, WarmupReturnsStep DEF StartStep
<1>5. CASE CleanupBegins \/ CleanupRemoves \/ CleanupEnds
  BY <1>5, CleanupStep
<1>6. ASSUME NEW e \in Execs, CancelQueued(e) \/ CancelHolding(e) PROVE overlapped => overlapped'
  BY <1>6, CancelStep DEF SameFlags
<1>7. ASSUME NEW c \in Callers, CancelStart(c) PROVE overlapped => overlapped'
  BY <1>7, CancelStartStep
<1>8. CASE \/ \E e \in Execs : StrayEnds(e)
           \/ \E k \in late : LateCommand(k)
  BY <1>8, RemnantsStep DEF SameFlags
<1> QED BY <1>1, <1>2, <1>3, <1>4, <1>5, <1>6, <1>7, <1>8 DEF Next

\* ExecutionsUndisturbed: of the calls of sandbox/warm_pool_executor.py one at a
\* time is at work in a container, which nothing but a cancelled call's remnants
\* kills, removes or shares under its candidate; a finished candidate is not
\* reported as a failure; and no semaphore stays with a call that is gone,
\* whoever is cancelled.
THEOREM ExecutionsSafe == ASSUME OneStart PROVE Spec => []ExecutionsUndisturbed
<1>1. CareInv => ExecutionsUndisturbed
  <2> SUFFICES ASSUME CareInv PROVE ExecutionsUndisturbed
    OBVIOUS
  <2>1. PoolInv /\ Remnants /\ Alone /\ Steady
    BY DEF CareInv
  <2>2. TypeOK
    BY <2>1 DEF PoolInv, PoolTypes, Remnants, TypeOK
  <2>3. OneExecPerContainer
    BY <2>1, OneInside DEF OneExecPerContainer
  <2>4. NotRemovedUnderfoot
    BY <2>1 DEF Steady, Unhurt, NotRemovedUnderfoot
  <2>5. CompletedIsReported
    BY <2>1 DEF Alone, CompletedIsReported
  <2>6. HeldByRunningCall
    BY <2>1, HeadIsRunning
  <2> QED BY <2>2, <2>3, <2>4, <2>5, <2>6 DEF ExecutionsUndisturbed
<1> QED BY <1>1, Care, PTL

\* FreshAfterTimeout: _recycle_container() replaces a container in which a
\* candidate timed out before another candidate is started in it, unless the
\* call that timed out is cancelled before it has done so.
THEOREM TimedOutIsReplaced == ASSUME OneStart PROVE Spec => FreshAfterTimeout
<1>1. CareInv /\ [Next]_vars =>
        [~overlapped' /\ setup.startFirst =>
           \A e \in Execs : pc[e] = "queued" /\ pc'[e] = "running" =>
             NameOf(e) \notin suspect \/ CutShort(at[e])]_vars
  <2> SUFFICES ASSUME CareInv, Next, ~overlapped', setup.startFirst,
                      NEW e \in Execs, pc[e] = "queued", pc'[e] = "running"
               PROVE  NameOf(e) \notin suspect \/ CutShort(at[e])
    OBVIOUS
  <2>1. ~overlapped
    <3>1. overlapped => overlapped'
      BY StepsOverlap DEF CareInv
    <3> QED BY <3>1
  <2> QED BY <2>1 DEF CareInv, Suspects, QueuedIsFresh
<1> QED BY <1>1, Care, PTL DEF Spec, FreshAfterTimeout
===============================================================================
