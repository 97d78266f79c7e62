---------------------------- MODULE JobQueueProofs ----------------------------
(***************************************************************************)
(* Theorems about JobQueue, for all values of its constants: first what     *)
(* holds whatever clients do and whatever fails (IInv, QueueInv), then what *)
(* a queue with a file promises across crashes (DurableInv) and that it     *)
(* implements JobService.                                                   *)
(***************************************************************************)
EXTENDS JobQueue, TLAPS, WellFoundedInduction, FiniteSetTheorems, SequenceTheorems

(***************************************************************************)
(* Lemmas about the helpers on sequences.                                   *)
(***************************************************************************)

\* The scan of submit() and start() that stops at the first match: a nonempty
\* set of positions has a first element.
LEMMA FirstExists ==
  ASSUME NEW S \in SUBSET Nat, S # {}
  PROVE  LET first == CHOOSE i \in S : \A k \in S : i <= k
         IN  first \in S /\ \A k \in S : first <= k
<1> DEFINE Less == OpToRel(<, Nat)
<1>1. IsWellFoundedOn(Less, Nat)
  BY NatLessThanWellFounded
<1>2. \A k, m \in Nat : <<k, m>> \in Less <=> k < m
  BY DEF OpToRel
<1> HIDE DEF Less
<1>3. PICK m \in S : \A k \in S : ~ (<<k, m>> \in Less)
  BY <1>1, WFMin
<1>4. ASSUME NEW k \in S PROVE m <= k
  <2>1. k \in Nat /\ m \in Nat
    OBVIOUS
  <2>2. ~ (k < m)
    BY <2>1, <1>2, <1>3, Zenon
  <2> QED BY <2>1, <2>2
<1> QED BY <1>4

\* The sorted insertion puts the object after all objects that are as urgent and
\* before the first that is less so; the others keep their order.
LEMMA InsertPositions ==
  ASSUME NEW s \in Seq(Obj), NEW o \in Obj
  PROVE  \E at \in 1..(Len(s) + 1) :
           /\ InsertByPriority(s, o) \in Seq(Obj)
           /\ Len(InsertByPriority(s, o)) = Len(s) + 1
           /\ \A i \in 1..(Len(s) + 1) :
                InsertByPriority(s, o)[i] =
                  IF i < at THEN s[i] ELSE IF i = at THEN o ELSE s[i - 1]
           /\ \A i \in 1..(at - 1) : ~(Priority[o[1]] > Priority[s[i][1]])
           /\ at <= Len(s) => Priority[o[1]] > Priority[s[at][1]]
<1> DEFINE p == Priority[o[1]]
           Below == {i \in DOMAIN s : p > Priority[s[i][1]]}
           at == IF Below = {} THEN Len(s) + 1
                 ELSE CHOOSE i \in Below : \A k \in Below : i <= k
           left == SubSeq(s, 1, at - 1)
           right == SubSeq(s, at, Len(s))
<1>1. Len(s) \in Nat /\ DOMAIN s = 1..Len(s)
  BY LenProperties
<1>2. at \in 1..(Len(s) + 1)
  <2>1. CASE Below = {}
    BY <2>1, <1>1, SMTT(60)
  <2>2. CASE Below # {}
    <3>1. Below \in SUBSET Nat
      BY <1>1
    <3>2. at \in Below
      BY <2>2, <3>1, FirstExists
    <3> QED BY <3>2, <1>1
  <2> QED BY <2>1, <2>2
<1>A. /\ \A i \in 1..(at - 1) : ~(p > Priority[s[i][1]])
      /\ at <= Len(s) => p > Priority[s[at][1]]
  <2>1. CASE Below = {}
    <3>1. at = Len(s) + 1 /\ \A i \in 1..Len(s) : i \notin Below
      BY <2>1, SMTT(60)
    <3> QED BY <3>1, <1>1, SMTT(60)
  <2>2. CASE Below # {}
    <3>1. Below \in SUBSET Nat
      BY <1>1
    <3>2. at \in Below /\ \A k \in Below : at <= k
      BY <2>2, <3>1, FirstExists
    <3>3. ASSUME NEW i \in 1..(at - 1) PROVE i \notin Below
      <4>1. ~(at <= i)
        BY <1>2
      <4> QED BY <3>2, <4>1
    <3>4. \A i \in 1..(at - 1) : i \in DOMAIN s
      BY <1>1, <1>2
    <3> QED BY <3>2, <3>3, <3>4
  <2> QED BY <2>1, <2>2
<1> HIDE DEF at
<1>3. /\ left \in Seq(Obj)
      /\ Len(left) = at - 1
      /\ \A i \in 1..(at - 1) : left[i] = s[i]
  <2>1. \A i \in 1..(at - 1) : s[i] \in Obj
    BY <1>1, <1>2, ElementOfSeq
  <2> QED BY <2>1, <1>1, <1>2, SubSeqProperties
<1>4. /\ right \in Seq(Obj)
      /\ Len(right) = Len(s) - at + 1
      /\ \A i \in 1..(Len(s) - at + 1) : right[i] = s[at + i - 1]
  <2>1. \A i \in at..Len(s) : s[i] \in Obj
    BY <1>1, <1>2, ElementOfSeq
  <2> QED BY <2>1, <1>1, <1>2, SubSeqProperties
<1> HIDE DEF left, right
<1>5. <<o>> \in Seq(Obj) /\ Len(<<o>>) = 1 /\ <<o>>[1] = o
  OBVIOUS
<1>6. /\ left \o <<o>> \in Seq(Obj)
      /\ Len(left \o <<o>>) = at
      /\ \A i \in 1..at : (left \o <<o>>)[i] = IF i <= at - 1 THEN left[i] ELSE o
  <2>1. /\ left \o <<o>> \in Seq(Obj)
        /\ Len(left \o <<o>>) = Len(left) + Len(<<o>>)
        /\ \A i \in 1..(Len(left) + Len(<<o>>)) :
             (left \o <<o>>)[i] = IF i <= Len(left) THEN left[i]
                                  ELSE <<o>>[i - Len(left)]
    BY <1>3, <1>5, ConcatProperties
  <2> QED BY <2>1, <1>2, <1>3, <1>5
<1> DEFINE head == left \o <<o>>
<1> HIDE DEF head
<1>7. /\ head \o right \in Seq(Obj)
      /\ Len(head \o right) = Len(s) + 1
      /\ \A i \in 1..(Len(s) + 1) :
           (head \o right)[i] = IF i <= at THEN head[i] ELSE right[i - at]
  <2>1. head \in Seq(Obj) /\ Len(head) = at
    BY <1>6 DEF head
  <2>2. /\ head \o right \in Seq(Obj)
        /\ Len(head \o right) = Len(head) + Len(right)
        /\ \A i \in 1..(Len(head) + Len(right)) :
             (head \o right)[i] = IF i <= Len(head) THEN head[i]
                                  ELSE right[i - Len(head)]
    BY <2>1, <1>4, ConcatProperties
  <2> QED BY <2>1, <2>2, <1>1, <1>2, <1>4
<1>8. InsertByPriority(s, o) = head \o right
  BY DEF InsertByPriority, at, left, right, head
<1>9. ASSUME NEW i \in 1..(Len(s) + 1)
      PROVE  (head \o right)[i] = IF i < at THEN s[i] ELSE IF i = at THEN o ELSE s[i - 1]
  <2> i \in Int /\ at \in Int /\ Len(s) \in Int
    BY <1>1, <1>2
  <2>1. CASE i < at
    <3>1. i \in 1..at /\ i \in 1..(at - 1)
      BY <2>1, <1>1, <1>2
    <3>2. (head \o right)[i] = s[i]
      BY <2>1, <3>1, <1>3, <1>6, <1>7 DEF head
    <3> QED BY <2>1, <3>2
  <2>2. CASE i = at
    BY <2>2, <1>1, <1>2, <1>6, <1>7 DEF head
  <2>3. CASE i > at
    <3>1. i - at \in 1..(Len(s) - at + 1) /\ at + (i - at) - 1 = i - 1 /\ ~(i <= at)
      BY <2>3, <1>1, <1>2
    <3>2. (head \o right)[i] = s[at + (i - at) - 1]
      BY <3>1, <1>4, <1>7, <1>2, <1>1
    <3> QED BY <2>3, <3>1, <3>2
  <2>4. i < at \/ i = at \/ i > at
    OBVIOUS
  <2> QED BY <2>1, <2>2, <2>3, <2>4, Zenon
<1> HIDE DEF Below
<1> QED BY <1>2, <1>7, <1>8, <1>9, <1>A

\* The sorted insertion keeps every object of the queue and adds one.
LEMMA InsertProperties ==
  ASSUME NEW s \in Seq(Obj), NEW o \in Obj
  PROVE  /\ InsertByPriority(s, o) \in Seq(Obj)
         /\ \A i \in DOMAIN InsertByPriority(s, o) :
              \/ InsertByPriority(s, o)[i] = o
              \/ \E k \in DOMAIN s : InsertByPriority(s, o)[i] = s[k]
<1> DEFINE t == InsertByPriority(s, o)
<1>1. PICK at \in 1..(Len(s) + 1) :
        /\ t \in Seq(Obj)
        /\ Len(t) = Len(s) + 1
        /\ \A i \in 1..(Len(s) + 1) :
             t[i] = IF i < at THEN s[i] ELSE IF i = at THEN o ELSE s[i - 1]
  BY InsertPositions
<1> HIDE DEF t
<1>2. DOMAIN t = 1..(Len(s) + 1) /\ DOMAIN s = 1..Len(s) /\ Len(s) \in Nat
  BY <1>1, LenProperties
<1>3. ASSUME NEW i \in DOMAIN t PROVE t[i] = o \/ \E k \in DOMAIN s : t[i] = s[k]
  <2>1. CASE i < at
    <3>1. i \in DOMAIN s /\ t[i] = s[i]
      BY <1>1, <1>2, <2>1
    <3> QED BY <3>1
  <2>2. CASE i = at
    BY <1>1, <1>2, <2>2
  <2>3. CASE i > at
    <3>1. i - 1 \in DOMAIN s /\ t[i] = s[i - 1]
      BY <1>1, <1>2, <2>3
    <3> QED BY <3>1
  <2> QED BY <1>2, <2>1, <2>2, <2>3
<1> QED BY <1>1, <1>3 DEF t

\* Dropping a position leaves the others in their order.
LEMMA DropPositions ==
  ASSUME NEW S, NEW s \in Seq(S), NEW i \in DOMAIN s
  PROVE  /\ DropAt(s, i) \in Seq(S)
         /\ Len(DropAt(s, i)) = Len(s) - 1
         /\ \A m \in 1..(Len(s) - 1) : DropAt(s, i)[m] = IF m < i THEN s[m] ELSE s[m + 1]
<1> DEFINE left == SubSeq(s, 1, i - 1)
           right == SubSeq(s, i + 1, Len(s))
<1>1. Len(s) \in Nat /\ DOMAIN s = 1..Len(s) /\ i \in 1..Len(s)
  BY LenProperties
<1>2. \A k \in 1..Len(s) : s[k] \in S
  BY ElementOfSeq
<1>3. /\ left \in Seq(S)
      /\ Len(left) = i - 1
      /\ \A k \in 1..(i - 1) : left[k] = s[k]
  <2>1. \A k \in 1..(i - 1) : s[k] \in S
    BY <1>1, <1>2
  <2> QED BY <2>1, <1>1, SubSeqProperties
<1>4. /\ right \in Seq(S)
      /\ Len(right) = Len(s) - i
      /\ \A k \in 1..(Len(s) - i) : right[k] = s[i + k]
  <2>1. \A k \in (i + 1)..Len(s) : s[k] \in S
    BY <1>1, <1>2
  <2>2. /\ right \in Seq(S)
        /\ Len(right) = IF i + 1 <= Len(s) THEN Len(s) - (i + 1) + 1 ELSE 0
        /\ \A k \in 1..(Len(s) - (i + 1) + 1) : right[k] = s[(i + 1) + k - 1]
    BY <2>1, <1>1, SubSeqProperties
  <2>3. Len(s) - (i + 1) + 1 = Len(s) - i /\ \A k \in Int : (i + 1) + k - 1 = i + k
    BY <1>1
  <2>4. Len(right) = Len(s) - i
    BY <2>2, <1>1, SMTT(60)
  <2>5. ASSUME NEW k \in 1..(Len(s) - i) PROVE right[k] = s[i + k]
    <3>1. k \in 1..(Len(s) - (i + 1) + 1) /\ (i + 1) + k - 1 = i + k
      BY <1>1
    <3> QED BY <2>2, <3>1
  <2> QED BY <2>2, <2>4, <2>5
<1> HIDE DEF left, right
<1>5. /\ left \o right \in Seq(S)
      /\ Len(left \o right) = Len(s) - 1
      /\ \A k \in 1..(Len(s) - 1) :
           (left \o right)[k] = IF k <= i - 1 THEN left[k] ELSE right[k - (i - 1)]
  <2>1. /\ left \o right \in Seq(S)
        /\ Len(left \o right) = Len(left) + Len(right)
        /\ \A k \in 1..(Len(left) + Len(right)) :
             (left \o right)[k] = IF k <= Len(left) THEN left[k]
                                  ELSE right[k - Len(left)]
    BY <1>3, <1>4, ConcatProperties
  <2> QED BY <2>1, <1>1, <1>3, <1>4, SMTT(60)
<1>6. DropAt(s, i) = left \o right
  BY DEF DropAt, left, right
<1>7. ASSUME NEW m \in 1..(Len(s) - 1)
      PROVE  (left \o right)[m] = IF m < i THEN s[m] ELSE s[m + 1]
  <2>1. CASE m < i
    <3>1. m \in 1..(i - 1) /\ m <= i - 1
      BY <2>1, <1>1
    <3>2. (left \o right)[m] = s[m]
      BY <3>1, <1>3, <1>5
    <3> QED BY <2>1, <3>2
  <2>2. CASE ~(m < i)
    <3>1. m - (i - 1) \in 1..(Len(s) - i) /\ ~(m <= i - 1) /\ i + (m - (i - 1)) = m + 1
      BY <2>2, <1>1
    <3>2. (left \o right)[m] = s[i + (m - (i - 1))]
      BY <3>1, <1>1, <1>4, <1>5
    <3> QED BY <2>2, <3>1, <3>2
  <2> QED BY <2>1, <2>2
<1> QED BY <1>5, <1>6, <1>7

\* Dropping a position keeps a sequence and adds no element.
LEMMA DropAtProperties ==
  ASSUME NEW S, NEW s \in Seq(S), NEW i \in DOMAIN s
  PROVE  /\ DropAt(s, i) \in Seq(S)
         /\ \A m \in DOMAIN DropAt(s, i) : \E k \in DOMAIN s : DropAt(s, i)[m] = s[k]
<1> DEFINE t == DropAt(s, i)
<1>1. /\ t \in Seq(S) /\ Len(t) = Len(s) - 1
      /\ \A m \in 1..(Len(s) - 1) : t[m] = IF m < i THEN s[m] ELSE s[m + 1]
  BY DropPositions
<1> HIDE DEF t
<1>2. DOMAIN t = 1..(Len(s) - 1) /\ DOMAIN s = 1..Len(s) /\ Len(s) \in Nat
  BY <1>1, LenProperties
<1>3. ASSUME NEW m \in DOMAIN t PROVE \E k \in DOMAIN s : t[m] = s[k]
  <2>1. m \in DOMAIN s /\ m + 1 \in DOMAIN s
    BY <1>2
  <2> QED BY <1>1, <1>2, <2>1
<1> QED BY <1>1, <1>3 DEF t

\* Removing the line of a finished job keeps a file of job ids.
LEMMA UnpersistedType ==
  ASSUME NEW j \in Jobs, file \in Seq(Jobs)
  PROVE  Unpersisted(j) \in Seq(Jobs)
<1>1. CASE torn # "no" \/ j \notin Elements(file)
  BY <1>1 DEF Unpersisted
<1>2. CASE ~(torn # "no" \/ j \notin Elements(file))
  <2>1. \E i \in DOMAIN file : file[i] = j
    BY <1>2 DEF Elements
  <2>2. (CHOOSE i \in DOMAIN file : file[i] = j) \in DOMAIN file
    BY <2>1
  <2> QED BY <1>2, <2>2, DropAtProperties DEF Unpersisted
<1> QED BY <1>1, <1>2

\* A nonempty set of positions up to n has a last element.
LEMMA LastExists ==
  ASSUME NEW n \in Nat, NEW S \in SUBSET (1..n), S # {}
  PROVE  \E i \in S : \A k \in S : k <= i
<1> DEFINE back == {n - i : i \in S}
<1>1. back \in SUBSET Nat /\ back # {}
  <2>1. \A i \in S : n - i \in Nat
    OBVIOUS
  <2>2. PICK i \in S : TRUE
    OBVIOUS
  <2>3. n - i \in back
    BY <2>2
  <2> QED BY <2>1, <2>3
<1>2. PICK r \in back : \A q \in back : r <= q
  BY <1>1, FirstExists
<1>3. PICK i \in S : r = n - i
  OBVIOUS
<1>4. ASSUME NEW k \in S PROVE k <= i
  <2>1. n - i <= n - k
    BY <1>2, <1>3
  <2> QED BY <2>1
<1> QED BY <1>4

\* Popping the first n jobs of the queue creates at most n tasks.
LEMMA TakenBounded ==
  ASSUME NEW s \in Seq(Obj), NEW n \in Nat, n <= Len(s)
  PROVE  LET taken == {s[i] : i \in 1..n}
         IN  /\ taken \subseteq Obj
             /\ IsFiniteSet(taken)
             /\ Cardinality(taken) <= n
<1> DEFINE taken == {s[i] : i \in 1..n}
           f == [i \in 1..n |-> s[i]]
<1>1. taken \subseteq Obj
  BY ElementOfSeq, LenProperties
<1>2. f \in Surjection(1..n, taken)
  BY DEF Surjection
<1>3. IsFiniteSet(1..n) /\ Cardinality(1..n) = n
  BY FS_Interval
<1>4. IsFiniteSet(taken) /\ Cardinality(taken) <= Cardinality(1..n)
  BY <1>2, <1>3, FS_Surjection
<1> QED BY <1>1, <1>3, <1>4

(***************************************************************************)
(* The inductive invariant.                                                 *)
(***************************************************************************)

\* Every queued object and every object with a task belongs to an id that is
\* registered: _jobs and _events never lose an entry while it may be used.
Registered ==
  /\ \A i \in DOMAIN pending : jobs[pending[i][1]] # NoObj
  /\ \A o \in Obj : task[o] # "none" => jobs[o[1]] # NoObj

Slots == IsFiniteSet(InFlight) /\ Cardinality(InFlight) <= MaxConcurrent

IInv == TypeOK /\ Registered /\ Slots

LEMMA ObjFacts ==
  /\ \A o \in Obj : o[1] \in Jobs
  /\ \A j \in Jobs, k \in 0..MaxCopies : <<j, k>> \in Obj /\ <<j, k>>[1] = j
BY DEF Obj

\* What a write leaves on the disk, whether or not it fails.
LEMMA DiskTypes ==
  ASSUME TypeOK, NEW j \in Jobs
  PROVE  /\ PersistJob(j) \/ UnpersistJob(j) =>
              file' \in Seq(Jobs) /\ torn' \in Torn /\ faults' \in 0..MaxFaults
         /\ Recorded(j, "submitted") \in [Jobs -> AuditOfJob]
         /\ Recorded(j, "started") \in [Jobs -> AuditOfJob]
         /\ EndRecorded(j) \in [Jobs -> AuditOfJob]
<1>1. /\ file \in Seq(Jobs) /\ torn \in Torn /\ audit \in [Jobs -> AuditOfJob]
      /\ faults \in 0..MaxFaults /\ MaxFaults \in Nat
  BY JobQueueAssumption DEF TypeOK
<1>2. Fault => faults' \in 0..MaxFaults
  BY <1>1 DEF Fault
<1>3. Appended(j) \in Seq(Jobs)
  BY <1>1, AppendProperties DEF Appended
<1>4. ASSUME PersistJob(j)
      PROVE  file' \in Seq(Jobs) /\ torn' \in Torn /\ faults' \in 0..MaxFaults
  BY <1>1, <1>2, <1>3, <1>4 DEF PersistJob, Torn
<1>5. ASSUME UnpersistJob(j)
      PROVE  file' \in Seq(Jobs) /\ torn' \in Torn /\ faults' \in 0..MaxFaults
  BY <1>1, <1>2, <1>5, UnpersistedType DEF UnpersistJob
<1>6. ASSUME NEW st \in {"submitted", "started"}
      PROVE  Recorded(j, st) \in [Jobs -> AuditOfJob]
  BY <1>1 DEF Recorded, AuditOfJob
<1>7. EndRecorded(j) \in [Jobs -> AuditOfJob]
  <2>1. audit[j] \in AuditOfJob /\ audit[j].ends + 1 \in Nat
    BY <1>1 DEF AuditOfJob
  <2>2. [audit[j] EXCEPT !.ends = @ + 1] \in AuditOfJob
    BY <2>1 DEF AuditOfJob
  <2> QED BY <1>1, <2>2 DEF EndRecorded
<1> QED BY <1>4, <1>5, <1>6, <1>7

LEMMA InitIInv == Init => IInv
<1> SUFFICES ASSUME Init PROVE IInv
  OBVIOUS
<1>1. TypeOK
  <2>1. <<>> \in Seq(Obj) /\ <<>> \in Seq(Jobs)
    BY EmptySeq
  <2>2. jobs \in [Jobs -> Obj \cup {NoObj}] /\ taskMap \in [Jobs -> Obj \cup {NoObj}]
    BY DEF Init
  <2>3. status \in [Obj -> Status] /\ task \in [Obj -> TaskState]
    BY DEF Init, Status, TaskState
  <2>4. faults \in 0..MaxFaults /\ outcome \in [Jobs -> Terminal \cup {"none"}]
    BY JobQueueAssumption DEF Init
  <2>5. torn \in Torn /\ audit \in [Jobs -> AuditOfJob]
    BY DEF Init, Torn, AuditOfJob
  <2> QED BY <2>1, <2>2, <2>3, <2>4, <2>5 DEF Init, TypeOK
<1>2. Registered
  BY DEF Init, Registered
<1>3. InFlight = {}
  BY DEF Init, InFlight
<1>4. Slots
  BY <1>3, FS_EmptySet, JobQueueAssumption DEF Slots
<1> QED BY <1>1, <1>2, <1>4 DEF IInv

\* Steps that create no task keep Slots.
LEMMA FewerSlots ==
  ASSUME IInv, \A o \in Obj : task'[o] # "none" => task[o] # "none"
  PROVE  Slots'
<1>1. InFlight' \subseteq InFlight
  BY DEF InFlight
<1>2. IsFiniteSet(InFlight) /\ Cardinality(InFlight) <= MaxConcurrent
  BY DEF IInv, Slots
<1>3. IsFiniteSet(InFlight') /\ Cardinality(InFlight') <= Cardinality(InFlight)
  BY <1>1, <1>2, FS_Subset
<1>4. Cardinality(InFlight) \in Nat /\ Cardinality(InFlight') \in Nat
  BY <1>2, <1>3, FS_CardinalityType
<1> QED BY <1>2, <1>3, <1>4, JobQueueAssumption DEF Slots

\* Steps that neither queue nor start an object keep Registered.
LEMMA KeepRegistered ==
  ASSUME IInv, pending' = pending, jobs' = jobs,
         \A o \in Obj : task'[o] # "none" => task[o] # "none"
  PROVE  Registered'
BY DEF IInv, Registered

LEMMA SubmitStep ==
  ASSUME IInv, NEW j \in Jobs, Submit(j)
  PROVE  IInv'
<1> DEFINE o == <<j, 0>>
<1>1. o \in Obj /\ o[1] = j
  BY ObjFacts, JobQueueAssumption
<1>2. /\ InsertByPriority(pending, o) \in Seq(Obj)
      /\ \A i \in DOMAIN InsertByPriority(pending, o) :
           \/ InsertByPriority(pending, o)[i] = o
           \/ \E k \in DOMAIN pending : InsertByPriority(pending, o)[i] = pending[k]
  BY <1>1, InsertProperties DEF IInv, TypeOK
<1>3. /\ file' \in Seq(Jobs) /\ torn' \in Torn /\ faults' \in 0..MaxFaults
      /\ audit' \in [Jobs -> AuditOfJob]
  BY DiskTypes DEF Submit, fileVars, IInv, TypeOK
<1>4. /\ pending' = InsertByPriority(pending, o)
      /\ jobs' = [jobs EXCEPT ![j] = o]
      /\ status' = [status EXCEPT ![o] = "pending"]
      /\ task' = task
  BY DEF Submit
<1>5. dispatcher' \in {"absent", "ready", "asleep", "slot", "exited"}
  BY DEF Submit, IInv, TypeOK, Woken
<1>6. TypeOK'
  <2>1. jobs' \in [Jobs -> Obj \cup {NoObj}] /\ status' \in [Obj -> Status]
    BY <1>1, <1>4 DEF IInv, TypeOK, Status
  <2> QED BY <1>2, <1>3, <1>4, <1>5, <2>1 DEF Submit, IInv, TypeOK
<1>7. Registered'
  <2>1. \A q \in Jobs : jobs[q] # NoObj => jobs'[q] # NoObj
    BY <1>1, <1>4, JobQueueAssumption DEF IInv, TypeOK
  <2>2. jobs'[j] # NoObj
    BY <1>1, <1>4, JobQueueAssumption DEF IInv, TypeOK
  <2>3. \A k \in DOMAIN pending : pending[k] \in Obj
    BY ElementOfSeq, LenProperties DEF IInv, TypeOK
  <2>4. ASSUME NEW i \in DOMAIN pending' PROVE jobs'[pending'[i][1]] # NoObj
    <3>1. pending'[i] = o \/ \E k \in DOMAIN pending : pending'[i] = pending[k]
      BY <1>2, <1>4
    <3>2. CASE pending'[i] = o
      BY <3>2, <2>2, <1>1
    <3>3. CASE \E k \in DOMAIN pending : pending'[i] = pending[k]
      BY <3>3, <2>1, <2>3, ObjFacts DEF IInv, Registered
    <3> QED BY <3>1, <3>2, <3>3
  <2>5. \A p \in Obj : task'[p] # "none" => jobs'[p[1]] # NoObj
    BY <2>1, <1>4, ObjFacts DEF IInv, Registered
  <2> QED BY <2>4, <2>5 DEF Registered
<1>8. Slots'
  BY <1>4, FewerSlots
<1> QED BY <1>6, <1>7, <1>8 DEF IInv

LEMMA StartStep ==
  ASSUME IInv, Start
  PROVE  IInv'
<1>1. TypeOK'
  <2>1. toRecover' \in Seq(Jobs) /\ faults' \in 0..MaxFaults
    <3>1. faults' = faults \/ Fault
      BY DEF Start
    <3>2. faults' \in 0..MaxFaults
      BY <3>1, JobQueueAssumption DEF Fault, IInv, TypeOK
    <3> QED BY <3>2, EmptySeq DEF Start, IInv, TypeOK
  <2> QED BY <2>1 DEF Start, IInv, TypeOK, queueVars, fileVars
<1>2. Registered' /\ Slots'
  BY KeepRegistered, FewerSlots DEF Start, queueVars
<1> QED BY <1>1, <1>2 DEF IInv

LEMMA RecoverStep ==
  ASSUME IInv, RecoverOne
  PROVE  IInv'
<1>1. toRecover \in Seq(Jobs) /\ toRecover # <<>>
  BY DEF RecoverOne, IInv, TypeOK
<1>2. toRecover[1] \in Jobs /\ Tail(toRecover) \in Seq(Jobs)
  BY <1>1, HeadTailProperties
<1>3. PICK k \in 1..MaxCopies :
        LET o == <<toRecover[1], k>> IN
        /\ status[o] = "absent"
        /\ jobs' = [jobs EXCEPT ![o[1]] = o]
        /\ status' = [status EXCEPT ![o] = "pending"]
        /\ pending' = InsertByPriority(pending, o)
  BY DEF RecoverOne
<1> DEFINE j == toRecover[1]
           o == <<j, k>>
<1>4. k \in 0..MaxCopies
  BY JobQueueAssumption
<1>5. o \in Obj /\ o[1] = j /\ j \in Jobs
  BY <1>2, <1>4, ObjFacts
<1>6. /\ jobs' = [jobs EXCEPT ![j] = o]
      /\ status' = [status EXCEPT ![o] = "pending"]
      /\ pending' = InsertByPriority(pending, o)
      /\ toRecover' = Tail(toRecover)
      /\ task' = task
  BY <1>3, <1>5 DEF RecoverOne
<1> HIDE DEF j, o
<1>7. /\ InsertByPriority(pending, o) \in Seq(Obj)
      /\ \A i \in DOMAIN InsertByPriority(pending, o) :
           \/ InsertByPriority(pending, o)[i] = o
           \/ \E m \in DOMAIN pending : InsertByPriority(pending, o)[i] = pending[m]
  BY <1>5, InsertProperties DEF IInv, TypeOK
<1>8. TypeOK'
  <2>1. jobs' \in [Jobs -> Obj \cup {NoObj}] /\ status' \in [Obj -> Status]
    BY <1>5, <1>6 DEF IInv, TypeOK, Status
  <2> QED BY <1>2, <1>6, <1>7, <2>1 DEF RecoverOne, IInv, TypeOK, fileVars
<1>9. Registered'
  <2>1. \A q \in Jobs : jobs[q] # NoObj => jobs'[q] # NoObj
    BY <1>5, <1>6, JobQueueAssumption DEF IInv, TypeOK
  <2>2. jobs'[j] # NoObj
    BY <1>5, <1>6, JobQueueAssumption DEF IInv, TypeOK
  <2>3. \A m \in DOMAIN pending : pending[m] \in Obj
    BY ElementOfSeq, LenProperties DEF IInv, TypeOK
  <2>4. ASSUME NEW i \in DOMAIN pending' PROVE jobs'[pending'[i][1]] # NoObj
    <3>1. pending'[i] = o \/ \E m \in DOMAIN pending : pending'[i] = pending[m]
      BY <1>6, <1>7
    <3>2. CASE pending'[i] = o
      BY <3>2, <2>2, <1>5
    <3>3. CASE \E m \in DOMAIN pending : pending'[i] = pending[m]
      BY <3>3, <2>1, <2>3, ObjFacts DEF IInv, Registered
    <3> QED BY <3>1, <3>2, <3>3
  <2>5. \A p \in Obj : task'[p] # "none" => jobs'[p[1]] # NoObj
    BY <2>1, <1>6, ObjFacts DEF IInv, Registered
  <2> QED BY <2>4, <2>5 DEF Registered
<1>10. Slots'
  BY <1>6, FewerSlots
<1> QED BY <1>8, <1>9, <1>10 DEF IInv

LEMMA StopStep ==
  ASSUME IInv, Stop \/ StopReturns
  PROVE  IInv'
<1>1. TypeOK'
  BY DEF Stop, StopReturns, Woken, IInv, TypeOK, queueVars, fileVars
<1>2. Registered' /\ Slots'
  BY KeepRegistered, FewerSlots DEF Stop, StopReturns, queueVars
<1> QED BY <1>1, <1>2 DEF IInv

LEMMA CancelPendingStep ==
  ASSUME IInv, NEW j \in Jobs, CancelPending(j)
  PROVE  IInv'
<1> DEFINE o == jobs[j]
           Same == {i \in DOMAIN pending : FieldsEqual(pending[i], o)}
           first == CHOOSE i \in Same : \A k \in Same : i <= k
<1>1. pending \in Seq(Obj) /\ file \in Seq(Jobs)
  BY DEF IInv, TypeOK
<1>2. o \in Obj
  BY DEF CancelPending, IInv, TypeOK
<1>3. pending' = IF Same = {} THEN pending ELSE DropAt(pending, first)
  BY DEF CancelPending
<1>4. Same # {} => first \in DOMAIN pending
  <2>1. Same \in SUBSET Nat
    BY <1>1, LenProperties
  <2> QED BY <2>1, FirstExists
<1> HIDE DEF Same, first
<1>5. /\ pending' \in Seq(Obj)
      /\ \A m \in DOMAIN pending' : \E k \in DOMAIN pending : pending'[m] = pending[k]
  <2>1. CASE Same = {}
    BY <2>1, <1>1, <1>3
  <2>2. CASE Same # {}
    BY <2>2, <1>1, <1>3, <1>4, DropAtProperties
  <2> QED BY <2>1, <2>2
<1>6. /\ file' \in Seq(Jobs) /\ torn' \in Torn /\ faults' \in 0..MaxFaults
      /\ audit' \in [Jobs -> AuditOfJob]
  BY DiskTypes DEF CancelPending, fileVars, IInv, TypeOK
<1>7. /\ status' \in [Obj -> Status]
      /\ eventSet' \subseteq Obj
      /\ outcome' \in [Jobs -> Terminal \cup {"none"}]
  BY <1>2 DEF CancelPending, IInv, TypeOK, Status, Terminal
<1>8. TypeOK'
  BY <1>5, <1>6, <1>7 DEF CancelPending, IInv, TypeOK, loopVars
<1>9. Registered'
  <2>1. jobs' = jobs /\ task' = task
    BY DEF CancelPending
  <2> QED BY <1>5, <2>1 DEF IInv, Registered
<1>10. Slots'
  BY FewerSlots DEF CancelPending
<1> QED BY <1>8, <1>9, <1>10 DEF IInv

LEMMA OtherCallStep ==
  ASSUME IInv, NEW j \in Jobs, CancelRunning(j) \/ WaitFor(j)
  PROVE  IInv'
<1>1. TypeOK'
  BY DEF CancelRunning, WaitFor, IInv, TypeOK, loopVars, queueVars, fileVars
<1>2. Registered' /\ Slots'
  BY KeepRegistered, FewerSlots DEF CancelRunning, WaitFor, queueVars
<1> QED BY <1>1, <1>2 DEF IInv

LEMMA WaitReturnsStep ==
  ASSUME IInv, NEW o \in Obj, WaitReturns(o)
  PROVE  IInv'
<1>1. TypeOK'
  BY DEF WaitReturns, IInv, TypeOK, loopVars, queueVars, fileVars
<1>2. Registered' /\ Slots'
  BY KeepRegistered, FewerSlots DEF WaitReturns, queueVars
<1> QED BY <1>1, <1>2 DEF IInv

LEMMA FinishStep ==
  ASSUME IInv, NEW o \in Obj, task[o] # "none",
         NEW st \in Terminal, NEW next \in {"callback", "finished"},
         Finish(o, st, next)
  PROVE  IInv'
<1>1. o[1] \in Jobs /\ jobs[o[1]] # NoObj
  BY ObjFacts DEF IInv, Registered
<1>2. jobs[o[1]] \in Obj
  BY <1>1 DEF IInv, TypeOK
<1>3. /\ file' \in Seq(Jobs) /\ torn' \in Torn /\ faults' \in 0..MaxFaults
      /\ audit' \in [Jobs -> AuditOfJob]
  BY <1>1, DiskTypes DEF Finish, IInv
<1>4. /\ status' \in [Obj -> Status]
      /\ task' \in [Obj -> TaskState]
      /\ eventSet' \subseteq Obj
      /\ outcome' \in [Jobs -> Terminal \cup {"none"}]
  BY <1>1, <1>2 DEF Finish, IInv, TypeOK, Status, TaskState
<1>5. TypeOK'
  BY <1>3, <1>4 DEF Finish, IInv, TypeOK, loopVars, queueVars
<1>6. \A p \in Obj : task'[p] # "none" => task[p] # "none"
  BY DEF Finish, IInv, TypeOK
<1>7. Registered' /\ Slots'
  BY <1>6, KeepRegistered, FewerSlots DEF Finish, queueVars
<1> QED BY <1>5, <1>7 DEF IInv

LEMMA RunStepStep ==
  ASSUME IInv, NEW o \in Obj, RunStep(o)
  PROVE  IInv'
<1>1. CASE RunSkipped(o)
  <2>1. TypeOK'
    BY <1>1 DEF RunSkipped, IInv, TypeOK, TaskState, loopVars, queueVars, fileVars
  <2>2. \A p \in Obj : task'[p] # "none" => task[p] # "none"
    BY <1>1 DEF RunSkipped, IInv, TypeOK
  <2>3. Registered' /\ Slots'
    BY <1>1, <2>2, KeepRegistered, FewerSlots DEF RunSkipped, queueVars
  <2> QED BY <2>1, <2>3 DEF IInv
<1>2. CASE RunBegins(o)
  <2>1. TypeOK'
    <3>1. audit' \in [Jobs -> AuditOfJob]
      BY <1>2, ObjFacts, DiskTypes DEF RunBegins, IInv
    <3> QED BY <1>2, <3>1 DEF RunBegins, IInv, TypeOK, TaskState, Status, loopVars,
                              queueVars
  <2>2. \A p \in Obj : task'[p] # "none" => task[p] # "none"
    BY <1>2 DEF RunBegins, IInv, TypeOK
  <2>3. Registered' /\ Slots'
    BY <1>2, <2>2, KeepRegistered, FewerSlots DEF RunBegins, queueVars
  <2> QED BY <2>1, <2>3 DEF IInv
<1>3. CASE RunCompletes(o)
  <2>1. task[o] # "none" /\ "completed" \in Terminal
    BY <1>3 DEF RunCompletes, Terminal
  <2>2. \/ Finish(o, "completed", "callback")
        \/ Finish(o, "completed", "finished")
    BY <1>3 DEF RunCompletes
  <2> QED BY <2>1, <2>2, FinishStep
<1>4. CASE RunFails(o)
  BY <1>4, FinishStep DEF RunFails, Terminal
<1>5. CASE RunCancelled(o)
  BY <1>5, FinishStep DEF RunCancelled, Terminal
<1>6. CASE CallbackEnds(o)
  <2>1. o[1] \in Jobs /\ jobs[o[1]] # NoObj
    BY <1>6, ObjFacts DEF CallbackEnds, IInv, Registered
  <2>2. jobs[o[1]] \in Obj
    BY <2>1 DEF IInv, TypeOK
  <2>3. TypeOK'
    BY <1>6, <2>2 DEF CallbackEnds, IInv, TypeOK, TaskState, loopVars, queueVars,
                      fileVars
  <2>4. \A p \in Obj : task'[p] # "none" => task[p] # "none"
    BY <1>6 DEF CallbackEnds, IInv, TypeOK
  <2>5. Registered' /\ Slots'
    BY <1>6, <2>4, KeepRegistered, FewerSlots DEF CallbackEnds, queueVars
  <2> QED BY <2>3, <2>5 DEF IInv
<1>7. CASE Cleanup(o)
  <2>1. o[1] \in Jobs
    BY ObjFacts
  <2>2. TypeOK'
    BY <1>7, <2>1 DEF Cleanup, IInv, TypeOK, TaskState, loopVars, fileVars
  <2>3. \A p \in Obj : task'[p] # "none" => task[p] # "none"
    BY <1>7 DEF Cleanup, IInv, TypeOK
  <2>4. Registered' /\ Slots'
    BY <1>7, <2>3, KeepRegistered, FewerSlots DEF Cleanup
  <2> QED BY <2>2, <2>4 DEF IInv
<1> QED
  BY <1>1, <1>2, <1>3, <1>4, <1>5, <1>6, <1>7 DEF RunStep

LEMMA DispatchStep ==
  ASSUME IInv, Dispatch
  PROVE  IInv'
<1> DEFINE free == MaxConcurrent - Cardinality(InFlight)
           n == IF Len(pending) <= free THEN Len(pending) ELSE free
           taken == {pending[i] : i \in 1..n}
<1>1. /\ pending \in Seq(Obj)
      /\ Len(pending) \in Nat
      /\ DOMAIN pending = 1..Len(pending)
  BY LenProperties DEF IInv, TypeOK
<1>2. /\ IsFiniteSet(InFlight)
      /\ Cardinality(InFlight) \in Nat
      /\ Cardinality(InFlight) <= MaxConcurrent
  BY FS_CardinalityType DEF IInv, Slots
<1>3. free \in Nat /\ n \in Nat /\ n <= free /\ n <= Len(pending)
  BY <1>1, <1>2, JobQueueAssumption
<1>4. /\ pending' = SubSeq(pending, n + 1, Len(pending))
      /\ task' = [o \in Obj |-> IF o \in taken THEN "scheduled" ELSE task[o]]
      /\ taskMap' = [j \in Jobs |->
           IF \E i \in 1..n : pending[i][1] = j
           THEN pending[CHOOSE i \in 1..n :
                          /\ pending[i][1] = j
                          /\ \A k \in (i+1)..n : pending[k][1] # j]
           ELSE taskMap[j]]
      /\ dispatcher' \in {"slot", "asleep", "exited"}
      /\ jobs' = jobs
  BY DEF Dispatch
<1> HIDE DEF n
<1>5. /\ taken \subseteq Obj
      /\ IsFiniteSet(taken)
      /\ Cardinality(taken) <= n
  BY <1>1, <1>3, TakenBounded
<1> HIDE DEF taken
<1>6. /\ pending' \in Seq(Obj)
      /\ \A i \in DOMAIN pending' : \E k \in DOMAIN pending : pending'[i] = pending[k]
  <2>1. \A i \in (n + 1)..Len(pending) : pending[i] \in Obj
    BY <1>1, <1>3, ElementOfSeq
  <2>2. /\ pending' \in Seq(Obj)
        /\ Len(pending') = IF n + 1 <= Len(pending) THEN Len(pending) - (n + 1) + 1 ELSE 0
        /\ \A i \in 1..(Len(pending) - (n + 1) + 1) :
             pending'[i] = pending[(n + 1) + i - 1]
    BY <2>1, <1>1, <1>3, <1>4, SubSeqProperties
  <2>3. DOMAIN pending' = 1..Len(pending')
    BY <2>2, LenProperties
  <2>4. ASSUME NEW i \in DOMAIN pending'
        PROVE  \E k \in DOMAIN pending : pending'[i] = pending[k]
    <3>1. i \in 1..Len(pending')
      BY <2>3
    <3>2. n + 1 <= Len(pending) /\ Len(pending') = Len(pending) - (n + 1) + 1
      <4>1. CASE n + 1 <= Len(pending)
        BY <4>1, <2>2
      <4>2. CASE ~ (n + 1 <= Len(pending))
        <5>1. Len(pending') = 0
          BY <4>2, <2>2
        <5> QED BY <5>1, <3>1
      <4> QED BY <4>1, <4>2
    <3>3. /\ i \in 1..(Len(pending) - (n + 1) + 1)
          /\ (n + 1) + i - 1 \in 1..Len(pending)
      BY <3>1, <3>2, <1>1, <1>3
    <3>4. pending'[i] = pending[(n + 1) + i - 1]
      BY <2>2, <3>3
    <3> QED BY <1>1, <3>3, <3>4
  <2> QED BY <2>2, <2>4
<1>7. taskMap' \in [Jobs -> Obj \cup {NoObj}]
  <2> SUFFICES ASSUME NEW j \in Jobs, \E i \in 1..n : pending[i][1] = j
               PROVE  pending[CHOOSE i \in 1..n :
                                /\ pending[i][1] = j
                                /\ \A k \in (i+1)..n : pending[k][1] # j] \in Obj
    BY <1>4 DEF IInv, TypeOK
  <2> DEFINE mine == {i \in 1..n : pending[i][1] = j}
  <2>1. PICK last \in mine : \A k \in mine : k <= last
    BY <1>3, LastExists, ZenonT(60)
  <2>2. /\ pending[last][1] = j
        /\ \A k \in (last+1)..n : pending[k][1] # j
    <3>1. ASSUME NEW k \in (last+1)..n PROVE pending[k][1] # j
      <4>1. k \in 1..n /\ ~ (k <= last)
        BY <1>3
      <4> QED BY <4>1, <2>1
    <3> QED BY <3>1
  <2>3. (CHOOSE i \in 1..n : /\ pending[i][1] = j
                             /\ \A k \in (i+1)..n : pending[k][1] # j) \in 1..n
    BY <2>2
  <2>4. \A i \in 1..n : pending[i] \in Obj
    BY <1>1, <1>3, ElementOfSeq
  <2> QED BY <2>3, <2>4
<1>8. TypeOK'
  <2>1. task' \in [Obj -> TaskState]
    BY <1>4 DEF IInv, TypeOK, TaskState
  <2> QED BY <1>4, <1>6, <1>7, <2>1 DEF Dispatch, IInv, TypeOK, fileVars
<1>9. Registered'
  <2>1. \A i \in DOMAIN pending' : jobs'[pending'[i][1]] # NoObj
    BY <1>4, <1>6 DEF IInv, Registered
  <2>2. ASSUME NEW o \in Obj, task'[o] # "none" PROVE jobs'[o[1]] # NoObj
    <3>1. CASE o \in taken
      <4>1. \E i \in DOMAIN pending : o = pending[i]
        BY <3>1, <1>1, <1>3 DEF taken
      <4> QED BY <4>1, <1>4 DEF IInv, Registered
    <3>2. CASE o \notin taken
      BY <3>2, <2>2, <1>4 DEF IInv, Registered
    <3> QED BY <3>1, <3>2
  <2> QED BY <2>1, <2>2 DEF Registered
<1>10. Slots'
  <2>1. InFlight' \subseteq InFlight \cup taken
    BY <1>4 DEF InFlight
  <2>2. /\ IsFiniteSet(InFlight \cup taken)
        /\ Cardinality(InFlight \cup taken) =
             Cardinality(InFlight) + Cardinality(taken)
               - Cardinality(InFlight \cap taken)
    BY <1>2, <1>5, FS_Union
  <2>3. IsFiniteSet(InFlight \cap taken)
    BY <1>2, FS_Intersection
  <2>4. Cardinality(InFlight \cap taken) \in Nat /\ Cardinality(taken) \in Nat
    BY <1>5, <2>3, FS_CardinalityType
  <2>5. Cardinality(InFlight \cup taken) <= MaxConcurrent
    BY <1>2, <1>3, <1>5, <2>2, <2>4, JobQueueAssumption
  <2>6. /\ IsFiniteSet(InFlight')
        /\ Cardinality(InFlight') <= Cardinality(InFlight \cup taken)
    BY <2>1, <2>2, FS_Subset
  <2>7. Cardinality(InFlight') \in Nat /\ Cardinality(InFlight \cup taken) \in Nat
    BY <2>2, <2>6, FS_CardinalityType
  <2> QED BY <2>5, <2>6, <2>7, JobQueueAssumption DEF Slots
<1> QED BY <1>8, <1>9, <1>10 DEF IInv

LEMMA CrashStep ==
  ASSUME IInv, Crash
  PROVE  IInv'
<1>1. TypeOK'
  <2>1. pending' \in Seq(Obj) /\ toRecover' \in Seq(Jobs)
    BY EmptySeq DEF Crash
  <2>2. /\ jobs' \in [Jobs -> Obj \cup {NoObj}]
        /\ taskMap' \in [Jobs -> Obj \cup {NoObj}]
    BY DEF Crash
  <2>3. status' \in [Obj -> Status] /\ task' \in [Obj -> TaskState]
    BY DEF Crash, Status, TaskState
  <2>4. faults' \in 0..MaxFaults
    BY JobQueueAssumption DEF Crash, Fault, IInv, TypeOK
  <2>5. file' = file /\ outcome' = outcome
    BY DEF Crash, DiesInSubmit, DiesInEnd, fileVars
  <2>6. torn' \in Torn /\ audit' \in [Jobs -> AuditOfJob]
    <3>1. CASE UNCHANGED fileVars
      BY <3>1 DEF fileVars, IInv, TypeOK
    <3>2. ASSUME NEW j \in Jobs, DiesInSubmit(j) \/ DiesInEnd(j)
          PROVE  torn' \in Torn /\ audit' \in [Jobs -> AuditOfJob]
      BY <3>2, DiskTypes DEF DiesInSubmit, DiesInEnd, Torn, IInv, TypeOK
    <3> QED BY <3>1, <3>2 DEF Crash
  <2> QED BY <2>1, <2>2, <2>3, <2>4, <2>5, <2>6 DEF Crash, IInv, TypeOK
<1>2. pending' = <<>> /\ \A o \in Obj : task'[o] = "none"
  BY DEF Crash
<1>3. Registered'
  BY <1>2 DEF Registered
<1>4. Slots'
  BY <1>2, FewerSlots
<1> QED BY <1>1, <1>3, <1>4 DEF IInv

LEMMA NextIInv == IInv /\ [Next]_vars => IInv'
<1> SUFFICES ASSUME IInv, [Next]_vars PROVE IInv'
  OBVIOUS
<1>1. CASE UNCHANGED vars
  <2>1. TypeOK'
    BY <1>1 DEF vars, IInv, TypeOK
  <2>2. Registered' /\ Slots'
    BY <1>1, KeepRegistered, FewerSlots DEF vars
  <2> QED BY <2>1, <2>2 DEF IInv
<1>2. CASE ClientCall
  BY <1>2, SubmitStep, CancelPendingStep, OtherCallStep, StartStep, StopStep
  DEF ClientCall
<1>3. CASE \E o \in Obj : RunStep(o) \/ WaitReturns(o)
  BY <1>3, RunStepStep, WaitReturnsStep
<1> QED
  BY <1>1, <1>2, <1>3, RecoverStep, StopStep, DispatchStep, CrashStep DEF Next

(***************************************************************************)
(* Results.                                                                 *)
(***************************************************************************)

\* Every variable keeps its type in every state of every queue; in particular
\* _run_job always finds the event of its job in _events.
THEOREM TypeCorrect == Spec => []TypeOK
<1>1. Init => IInv
  BY InitIInv
<1>2. IInv /\ [Next]_vars => IInv'
  BY NextIInv
<1>3. IInv => TypeOK
  BY DEF IInv
<1> QED BY <1>1, <1>2, <1>3, PTL DEF Spec

\* The dispatcher never has more than max_concurrent tasks, for any number of
\* jobs, priorities, cancellations, restarts and crashes.
THEOREM SlotsNeverExceeded == Spec => []SlotsBounded
<1>1. Init => IInv
  BY InitIInv
<1>2. IInv /\ [Next]_vars => IInv'
  BY NextIInv
<1>3. IInv => SlotsBounded
  BY DEF IInv, Slots, SlotsBounded, InFlight
<1> QED BY <1>1, <1>2, <1>3, PTL DEF Spec

\* A task that has not begun always finds a free permit: the semaphore of
\* _run_job is redundant, no task ever queues on it.
SemaphoreIsFree ==
  \A o \in Obj : task[o] = "scheduled" => Cardinality(Held) < MaxConcurrent

THEOREM SemaphoreNeverBlocks == Spec => []SemaphoreIsFree
<1>1. Init => IInv
  BY InitIInv
<1>2. IInv /\ [Next]_vars => IInv'
  BY NextIInv
<1>3. IInv => SemaphoreIsFree
  <2> SUFFICES ASSUME IInv, NEW o \in Obj, task[o] = "scheduled"
               PROVE  Cardinality(Held) < MaxConcurrent
    BY DEF SemaphoreIsFree
  <2>1. IsFiniteSet(InFlight) /\ Cardinality(InFlight) <= MaxConcurrent
    BY DEF IInv, Slots
  <2>2. o \in InFlight /\ Held \subseteq InFlight \ {o}
    BY DEF InFlight, Held
  <2>3. /\ IsFiniteSet(InFlight \ {o})
        /\ Cardinality(InFlight \ {o}) = Cardinality(InFlight) - 1
    BY <2>1, <2>2, FS_RemoveElement
  <2>4. /\ IsFiniteSet(Held)
        /\ Cardinality(Held) <= Cardinality(InFlight \ {o})
    BY <2>2, <2>3, FS_Subset
  <2>5. /\ Cardinality(InFlight) \in Nat
        /\ Cardinality(InFlight \ {o}) \in Nat
        /\ Cardinality(Held) \in Nat
    BY <2>1, <2>3, <2>4, FS_CardinalityType
  <2> QED BY <2>1, <2>3, <2>4, <2>5, JobQueueAssumption
<1> QED BY <1>1, <1>2, <1>3, PTL DEF Spec

(***************************************************************************)
(* Objects, tasks and the queue: what holds whatever clients do.            *)
(***************************************************************************)

\* Dictionaries hold an object of the id they are asked for.
Named ==
  /\ \A j \in Jobs : jobs[j] # NoObj => jobs[j][1] = j
  /\ \A j \in Jobs : taskMap[j] # NoObj => taskMap[j][1] = j

\* Only objects that have been created are queued, run or cancelled, and an id
\* without an entry has no objects.
Created ==
  /\ \A o \in Obj : status[o] = "absent" => task[o] = "none" /\ o \notin cancelReq
  /\ \A i \in DOMAIN pending : status[pending[i]] # "absent"
  /\ \A j \in Jobs : taskMap[j] # NoObj => status[taskMap[j]] # "absent"
  /\ \A o \in Obj : jobs[o[1]] = NoObj => status[o] = "absent"

\* Where the task of an object is agrees with the status of the object.  A task
\* that awaits a callback is not cancelled, and runs the object submit() made.
Stages ==
  /\ \A i \in DOMAIN pending :
       task[pending[i]] = "none" /\ status[pending[i]] \in {"pending", "cancelled"}
  /\ \A o \in Obj :
       /\ task[o] = "scheduled" => status[o] \in {"pending", "cancelled"}
       /\ task[o] = "running" => status[o] = "running"
       /\ task[o] = "callback" => status[o] = "completed" /\ o \notin cancelReq /\ o[2] = 0

QueuedOnce == \A i, k \in DOMAIN pending : pending[i] = pending[k] => i = k

\* No task is cancelled whose job get() still reports as PENDING.
CancelledNotPending ==
  \A j \in Jobs : jobs[j] # NoObj /\ jobs[j] \in cancelReq => status[jobs[j]] # "pending"

Begun(o) == task[o] # "none" \/ status[o] = "running"

\* The object submit() made comes before the copies start() makes of it: in the
\* queue, and in the map from ids to tasks.
FirstInQueue ==
  \A i, k \in DOMAIN pending :
    pending[i][1] = pending[k][1] /\ pending[i][2] = 0 /\ pending[k][2] > 0 => i < k

FirstInMap ==
  \A o \in Obj :
    /\ o[2] > 0
    /\ taskMap[o[1]] = <<o[1], 0>> \/ \E i \in DOMAIN pending : pending[i] = <<o[1], 0>>
    => ~Begun(o)

QueueInv ==
  /\ Named /\ Created /\ Stages /\ QueuedOnce /\ CancelledNotPending
  /\ PendingIsQueued /\ PendingByPriority /\ FirstInQueue /\ FirstInMap

LEMMA QueueFacts ==
  ASSUME IInv
  PROVE  /\ pending \in Seq(Obj) /\ Len(pending) \in Nat /\ DOMAIN pending = 1..Len(pending)
         /\ \A i \in DOMAIN pending : pending[i] \in Obj /\ pending[i][1] \in Jobs
BY ElementOfSeq, LenProperties, ObjFacts DEF IInv, TypeOK

\* An object is its id and its number.
LEMMA ObjPairs ==
  ASSUME NEW o \in Obj, NEW p \in Obj
  PROVE  /\ o[1] \in Jobs /\ o[2] \in 0..MaxCopies /\ o = <<o[1], o[2]>>
         /\ o[1] = p[1] /\ o[2] = p[2] => o = p
         /\ <<o[1], 0>> \in Obj /\ <<o[1], 0>>[1] = o[1] /\ <<o[1], 0>>[2] = 0
BY JobQueueAssumption DEF Obj

LEMMA QueueFrame ==
  ASSUME QueueInv, UNCHANGED <<pending, jobs, status, task, cancelReq, taskMap>>
  PROVE  QueueInv'
BY DEF QueueInv, Named, Created, Stages, QueuedOnce, CancelledNotPending, PendingIsQueued,
       PendingByPriority, FirstInQueue, FirstInMap, Begun, Elements

\* submit() and start() queue an object that is new.
LEMMA NewObject ==
  ASSUME IInv, QueueInv, NEW o \in Obj, status[o] = "absent",
         o[2] = 0 => \A p \in Obj : p[1] = o[1] => status[p] = "absent",
         jobs' = [jobs EXCEPT ![o[1]] = o],
         status' = [status EXCEPT ![o] = "pending"],
         pending' = InsertByPriority(pending, o),
         UNCHANGED <<task, cancelReq, taskMap>>
  PROVE  QueueInv'
<1> USE DEF QueueInv
<1>1. /\ pending \in Seq(Obj) /\ Len(pending) \in Nat /\ DOMAIN pending = 1..Len(pending)
      /\ \A i \in DOMAIN pending : pending[i] \in Obj /\ pending[i][1] \in Jobs
  BY QueueFacts
<1>2. PICK at \in 1..(Len(pending) + 1) :
        /\ Len(pending') = Len(pending) + 1
        /\ pending' \in Seq(Obj)
        /\ \A i \in 1..(Len(pending) + 1) :
             pending'[i] = IF i < at THEN pending[i] ELSE IF i = at THEN o ELSE pending[i - 1]
        /\ \A i \in 1..(at - 1) : ~(Priority[o[1]] > Priority[pending[i][1]])
        /\ at <= Len(pending) => Priority[o[1]] > Priority[pending[at][1]]
  BY <1>1, InsertPositions, ZenonT(60)
<1>3. DOMAIN pending' = 1..(Len(pending) + 1)
  BY <1>2, LenProperties
<1> DEFINE old(i) == IF i < at THEN i ELSE i - 1
<1>4. ASSUME NEW i \in DOMAIN pending', i # at
      PROVE  old(i) \in DOMAIN pending /\ pending'[i] = pending[old(i)]
  BY <1>1, <1>2, <1>3, <1>4
<1>5. ASSUME NEW i \in DOMAIN pending', i # at, NEW k \in DOMAIN pending', k # at
      PROVE  (i < k <=> old(i) < old(k)) /\ (old(i) = old(k) => i = k)
  BY <1>1, <1>2, <1>3, <1>5
<1>6. at \in DOMAIN pending' /\ pending'[at] = o
  BY <1>2, <1>3
<1> HIDE DEF old
<1>7. \A i \in DOMAIN pending : pending[i] # o
  BY DEF Created
<1>8. /\ o[1] \in Jobs /\ NoObj \notin Obj
      /\ jobs'[o[1]] = o /\ \A j \in Jobs : j # o[1] => jobs'[j] = jobs[j]
      /\ status'[o] = "pending" /\ \A p \in Obj : p # o => status'[p] = status[p]
      /\ status \in [Obj -> Status]
  BY ObjFacts, JobQueueAssumption DEF IInv, TypeOK
<1>9. task[o] = "none" /\ o \notin cancelReq
  BY DEF Created
<1>10. Named'
  BY <1>8 DEF Named
<1>11. Created'
  <2>1. \A p \in Obj : status'[p] = "absent" => task'[p] = "none" /\ p \notin cancelReq'
    BY <1>8 DEF Created
  <2>2. \A i \in DOMAIN pending' : status'[pending'[i]] # "absent"
    BY <1>1, <1>4, <1>6, <1>7, <1>8 DEF Created
  <2>3. \A j \in Jobs : taskMap'[j] # NoObj => status'[taskMap'[j]] # "absent"
    <3> SUFFICES ASSUME NEW j \in Jobs, taskMap[j] # NoObj PROVE status'[taskMap[j]] # "absent"
      OBVIOUS
    <3>1. taskMap[j] \in Obj /\ status[taskMap[j]] # "absent"
      BY DEF Created, IInv, TypeOK
    <3> QED BY <1>8, <3>1
  <2>4. \A p \in Obj : jobs'[p[1]] = NoObj => status'[p] = "absent"
    BY <1>8, ObjFacts DEF Created
  <2> QED BY <2>1, <2>2, <2>3, <2>4 DEF Created
<1>12. Stages'
  <2>1. \A i \in DOMAIN pending' :
          task'[pending'[i]] = "none" /\ status'[pending'[i]] \in {"pending", "cancelled"}
    BY <1>1, <1>4, <1>6, <1>7, <1>8, <1>9 DEF Stages
  <2>2. \A p \in Obj :
       /\ task'[p] = "scheduled" => status'[p] \in {"pending", "cancelled"}
       /\ task'[p] = "running" => status'[p] = "running"
       /\ task'[p] = "callback" => status'[p] = "completed" /\ p \notin cancelReq' /\ p[2] = 0
    BY <1>8, <1>9 DEF Stages
  <2> QED BY <2>1, <2>2 DEF Stages
<1>13. QueuedOnce'
  BY <1>4, <1>5, <1>6, <1>7 DEF QueuedOnce
<1>14. CancelledNotPending'
  <2> SUFFICES ASSUME NEW j \in Jobs, jobs'[j] # NoObj, jobs'[j] \in cancelReq
               PROVE  status'[jobs'[j]] # "pending"
    BY DEF CancelledNotPending
  <2>1. j # o[1]
    BY <1>8, <1>9
  <2>2. jobs[j] # NoObj /\ jobs'[j] = jobs[j] /\ jobs[j] \in Obj /\ jobs[j] # o
    BY <1>8, <1>9, <2>1 DEF IInv, TypeOK
  <2> QED BY <1>8, <2>2 DEF CancelledNotPending
<1>15. PendingIsQueued'
  <2> SUFFICES ASSUME NEW j \in Jobs, jobs'[j] # NoObj, status'[jobs'[j]] = "pending"
               PROVE  \/ \E i \in DOMAIN pending' : pending'[i] = jobs'[j]
                      \/ task'[jobs'[j]] = "scheduled" /\ jobs'[j] \notin cancelReq'
    BY DEF PendingIsQueued, Elements
  <2>1. CASE j = o[1]
    BY <1>6, <1>8, <2>1
  <2>2. CASE j # o[1]
    <3>1. jobs'[j] = jobs[j] /\ jobs[j] \in Obj /\ jobs[j] # o
      BY <1>8, <2>2 DEF IInv, TypeOK, Named
    <3>2. \/ \E i \in DOMAIN pending : pending[i] = jobs[j]
          \/ task[jobs[j]] = "scheduled" /\ jobs[j] \notin cancelReq
      BY <1>8, <3>1 DEF PendingIsQueued, Elements
    <3>3. ASSUME NEW i \in DOMAIN pending PROVE \E k \in DOMAIN pending' : pending'[k] = pending[i]
      <4>1. CASE i < at
        BY <1>1, <1>2, <1>3, <4>1
      <4>2. CASE ~(i < at)
        <5>1. i + 1 \in DOMAIN pending' /\ ~(i + 1 < at) /\ i + 1 # at /\ (i + 1) - 1 = i
          BY <1>1, <1>2, <1>3, <4>2
        <5> QED BY <1>2, <1>3, <5>1
      <4> QED BY <4>1, <4>2
    <3> QED BY <3>1, <3>2, <3>3
  <2> QED BY <2>1, <2>2
<1>16. PendingByPriority'
  <2> SUFFICES ASSUME NEW i \in DOMAIN pending', NEW k \in DOMAIN pending', i < k
               PROVE  Priority[pending'[i][1]] >= Priority[pending'[k][1]]
    BY DEF PendingByPriority
  <2>1. \A p \in Obj : Priority[p[1]] \in Nat
    BY ObjFacts, JobQueueAssumption
  <2>2. CASE i # at /\ k # at
    BY <1>4, <1>5, <2>2 DEF PendingByPriority
  <2>3. CASE k = at
    <3>1. i \in 1..(at - 1) /\ pending'[i] = pending[i] /\ pending[i] \in Obj
      BY <1>1, <1>2, <1>3, <2>3
    <3>2. ~(Priority[o[1]] > Priority[pending[i][1]])
      BY <1>2, <3>1
    <3> QED BY <1>6, <2>1, <2>3, <3>1, <3>2
  <2>4. CASE i = at
    <3>1. /\ k - 1 \in DOMAIN pending /\ pending'[k] = pending[k - 1]
          /\ at \in DOMAIN pending /\ (at < k - 1 \/ at = k - 1)
      BY <1>1, <1>2, <1>3, <2>4
    <3>2. Priority[o[1]] > Priority[pending[at][1]]
      BY <1>1, <1>2, <3>1
    <3>3. Priority[pending[at][1]] >= Priority[pending[k - 1][1]]
      BY <1>1, <2>1, <3>1 DEF PendingByPriority
    <3>4. /\ Priority[o[1]] \in Nat /\ Priority[pending[at][1]] \in Nat
          /\ Priority[pending[k - 1][1]] \in Nat
      BY <1>1, <2>1, <3>1
    <3>5. Priority[o[1]] >= Priority[pending[k - 1][1]]
      BY <3>2, <3>3, <3>4
    <3> QED BY <1>6, <2>4, <3>1, <3>5
  <2> QED BY <2>2, <2>3, <2>4
<1>17. FirstInQueue'
  <2> SUFFICES ASSUME NEW i \in DOMAIN pending', NEW k \in DOMAIN pending',
                      pending'[i][1] = pending'[k][1], pending'[i][2] = 0, pending'[k][2] > 0
               PROVE  i < k
    BY DEF FirstInQueue
  <2>1. CASE i # at /\ k # at
    BY <1>4, <1>5, <2>1 DEF FirstInQueue
  <2>2. CASE i = at
    <3>1. k # at
      BY <1>6, <2>2
    <3>2. status[pending[old(k)]] = "absent"
      BY <1>1, <1>4, <1>6, <2>2, <3>1
    <3> QED BY <1>4, <3>1, <3>2 DEF Created
  <2>3. CASE k = at /\ i # at
    <3>1. old(i) \in DOMAIN pending /\ pending[old(i)][1] = o[1] /\ pending'[i] = pending[old(i)]
      BY <1>4, <1>6, <2>3
    <3>2. ASSUME ~(i < at) PROVE FALSE
      <4>1. at \in DOMAIN pending /\ (at < old(i) \/ at = old(i))
        BY <1>1, <1>2, <1>3, <2>3, <3>2 DEF old
      <4>2. Priority[o[1]] > Priority[pending[at][1]]
        BY <1>1, <1>2, <4>1
      <4>3. Priority[pending[at][1]] \in Nat /\ Priority[o[1]] \in Nat
        BY <1>1, <1>8, <4>1, JobQueueAssumption
      <4>4. Priority[pending[at][1]] >= Priority[pending[old(i)][1]]
        BY <3>1, <4>1, <4>3 DEF PendingByPriority
      <4> QED BY <3>1, <4>2, <4>3, <4>4
    <3> QED BY <2>3, <3>2
  <2> QED BY <2>1, <2>2, <2>3
<1>18. FirstInMap'
  <2> SUFFICES ASSUME NEW p \in Obj, p[2] > 0,
                      \/ taskMap'[p[1]] = <<p[1], 0>>
                      \/ \E i \in DOMAIN pending' : pending'[i] = <<p[1], 0>>
               PROVE  task'[p] = "none" /\ status'[p] # "running"
    BY DEF FirstInMap, Begun
  <2>1. CASE p = o
    BY <1>8, <1>9, <2>1
  <2>2. CASE p # o
    <3>1. CASE \/ taskMap[p[1]] = <<p[1], 0>>
               \/ \E i \in DOMAIN pending : pending[i] = <<p[1], 0>>
      BY <1>8, <2>2, <3>1 DEF FirstInMap, Begun
    <3>2. CASE o = <<p[1], 0>>
      <4>1. status[p] = "absent"
        BY <3>2
      <4> QED BY <1>8, <2>2, <4>1 DEF Created
    <3>3. \/ taskMap[p[1]] = <<p[1], 0>>
          \/ \E i \in DOMAIN pending : pending[i] = <<p[1], 0>>
          \/ o = <<p[1], 0>>
      BY <1>4, <1>6
    <3> QED BY <3>1, <3>2, <3>3
  <2> QED BY <2>1, <2>2
<1> QED BY <1>10, <1>11, <1>12, <1>13, <1>14, <1>15, <1>16, <1>17, <1>18


LEMMA SubmitQueue ==
  ASSUME IInv, QueueInv, NEW j \in Jobs, Submit(j)
  PROVE  QueueInv'
<1> DEFINE o == <<j, 0>>
<1>1. o \in Obj /\ o[1] = j
  BY ObjFacts, JobQueueAssumption
<1>2. \A p \in Obj : p[1] = j => status[p] = "absent"
  BY DEF QueueInv, Created, Submit, Fresh
<1>3. /\ jobs' = [jobs EXCEPT ![o[1]] = o]
      /\ status' = [status EXCEPT ![o] = "pending"]
      /\ pending' = InsertByPriority(pending, o)
      /\ UNCHANGED <<task, cancelReq, taskMap>>
  BY <1>1 DEF Submit
<1> HIDE DEF o
<1> QED BY <1>1, <1>2, <1>3, NewObject

LEMMA RecoverQueue ==
  ASSUME IInv, QueueInv, RecoverOne
  PROVE  QueueInv'
<1>1. PICK k \in 1..MaxCopies :
        LET o == <<toRecover[1], k>> IN
        /\ status[o] = "absent"
        /\ jobs' = [jobs EXCEPT ![o[1]] = o]
        /\ status' = [status EXCEPT ![o] = "pending"]
        /\ pending' = InsertByPriority(pending, o)
  BY DEF RecoverOne
<1> DEFINE o == <<toRecover[1], k>>
<1>2. toRecover[1] \in Jobs
  BY DEF RecoverOne, IInv, TypeOK
<1>3. o \in Obj /\ o[2] # 0
  BY <1>2, JobQueueAssumption DEF Obj
<1>4. UNCHANGED <<task, cancelReq, taskMap>>
  BY DEF RecoverOne
<1>5. /\ status[o] = "absent"
      /\ jobs' = [jobs EXCEPT ![o[1]] = o]
      /\ status' = [status EXCEPT ![o] = "pending"]
      /\ pending' = InsertByPriority(pending, o)
  BY <1>1
<1> HIDE DEF o
<1> QED BY <1>3, <1>4, <1>5, NewObject

\* What is left of the queue after a cancellation keeps its order, and only
\* objects of the cancelled id may be missing.
LEMMA CancelFacts ==
  ASSUME IInv, Named, NEW j \in Jobs, CancelPending(j)
  PROVE  /\ pending' \in Seq(Obj) /\ DOMAIN pending' = 1..Len(pending')
         /\ \E old \in [DOMAIN pending' -> DOMAIN pending] :
              /\ \A i \in DOMAIN pending' : pending'[i] = pending[old[i]]
              /\ \A i, k \in DOMAIN pending' :
                   (i < k <=> old[i] < old[k]) /\ (old[i] = old[k] => i = k)
         /\ \A i \in DOMAIN pending :
              pending[i][1] # j => \E k \in DOMAIN pending' : pending'[k] = pending[i]
<1> DEFINE o == jobs[j]
           Same == {i \in DOMAIN pending : FieldsEqual(pending[i], o)}
           first == CHOOSE i \in Same : \A k \in Same : i <= k
<1>1. /\ pending \in Seq(Obj) /\ Len(pending) \in Nat /\ DOMAIN pending = 1..Len(pending)
      /\ \A i \in DOMAIN pending : pending[i] \in Obj /\ pending[i][1] \in Jobs
  BY QueueFacts
<1>2. CASE Same = {}
  <2>1. pending' = pending
    BY <1>2 DEF CancelPending
  <2> DEFINE same == [i \in DOMAIN pending |-> i]
  <2>2. same \in [DOMAIN pending' -> DOMAIN pending]
    BY <2>1
  <2>3. \A i \in DOMAIN pending : same[i] = i
    OBVIOUS
  <2> HIDE DEF same
  <2> QED BY <1>1, <2>1, <2>2, <2>3, SMTT(60)
<1>3. CASE Same # {}
  <2>1. pending' = DropAt(pending, first)
    BY <1>3 DEF CancelPending
  <2>2. first \in Same
    <3>1. Same \in SUBSET Nat
      BY <1>1
    <3> QED BY <1>3, <3>1, FirstExists
  <2>3. first \in DOMAIN pending /\ FieldsEqual(pending[first], o)
    BY <2>2
  <2> HIDE DEF Same, first
  <2>4. /\ pending' \in Seq(Obj) /\ Len(pending') = Len(pending) - 1
        /\ \A m \in 1..(Len(pending) - 1) :
             pending'[m] = IF m < first THEN pending[m] ELSE pending[m + 1]
    BY <1>1, <2>1, <2>3, DropPositions
  <2>5. DOMAIN pending' = 1..(Len(pending) - 1)
    BY <2>4, LenProperties
  <2>6. PICK at \in 1..Len(pending) : at = first
    BY <1>1, <2>3
  <2> DEFINE old == [i \in DOMAIN pending' |-> IF i < at THEN i ELSE i + 1]
  <2>7. \A i \in DOMAIN pending' :
          /\ i \in Nat
          /\ old[i] = IF i < at THEN i ELSE i + 1
    BY <1>1, <2>5
  <2>8. old \in [DOMAIN pending' -> DOMAIN pending]
    BY <1>1, <2>5
  <2> HIDE DEF old
  <2>9. \A i \in DOMAIN pending' : pending'[i] = pending[old[i]]
    BY <2>4, <2>5, <2>6, <2>7
  <2>10. \A i, k \in DOMAIN pending' :
           (i < k <=> old[i] < old[k]) /\ (old[i] = old[k] => i = k)
    BY <2>6, <2>7
  <2>11. o[1] = j => pending[first][1] = j
    BY <2>3 DEF FieldsEqual
  <2>12. ASSUME NEW i \in DOMAIN pending, i # at
         PROVE  \E k \in DOMAIN pending' : pending'[k] = pending[i]
    <3>1. CASE i < at
      <4>1. i \in DOMAIN pending' /\ i < first
        BY <1>1, <2>5, <2>6, <3>1
      <4> QED BY <2>4, <2>5, <4>1
    <3>2. CASE i > at
      <4>1. i - 1 \in DOMAIN pending' /\ ~(i - 1 < first) /\ (i - 1) + 1 = i
        BY <1>1, <2>5, <2>6, <3>2
      <4> QED BY <2>4, <2>5, <4>1
    <3> QED BY <1>1, <2>12, <3>1, <3>2
  <2>13. pending[first][1] = j
    <3>1. o[1] = j
      BY DEF CancelPending, Named
    <3> QED BY <2>11, <3>1
  <2>14. \A i \in DOMAIN pending : pending[i][1] # j => i # at
    BY <2>6, <2>13
  <2>15. DOMAIN pending' = 1..Len(pending')
    BY <2>4, <2>5
  <2>16. \A i \in DOMAIN pending :
           pending[i][1] # j => \E k \in DOMAIN pending' : pending'[k] = pending[i]
    BY <2>12, <2>14
  <2> QED BY <2>4, <2>8, <2>9, <2>10, <2>15, <2>16
<1> QED BY <1>2, <1>3

LEMMA CancelPendingQueue ==
  ASSUME IInv, QueueInv, NEW j \in Jobs, CancelPending(j)
  PROVE  QueueInv'
<1> USE DEF QueueInv
<1> DEFINE o == jobs[j]
<1>1. /\ o \in Obj /\ o[1] = j /\ status[o] = "pending"
      /\ status' = [status EXCEPT ![o] = "cancelled"]
      /\ UNCHANGED <<jobs, task, cancelReq, taskMap>>
      /\ status \in [Obj -> Status]
  BY DEF CancelPending, Named, IInv, TypeOK
<1>2. /\ status'[o] = "cancelled" /\ \A p \in Obj : p # o => status'[p] = status[p]
      /\ jobs' = jobs /\ task' = task /\ cancelReq' = cancelReq /\ taskMap' = taskMap
  BY <1>1
<1>3. \A i \in DOMAIN pending : pending[i] \in Obj /\ pending[i][1] \in Jobs
  BY QueueFacts
<1>4. PICK old \in [DOMAIN pending' -> DOMAIN pending] :
         /\ \A i \in DOMAIN pending' : pending'[i] = pending[old[i]]
         /\ \A i, k \in DOMAIN pending' :
              (i < k <=> old[i] < old[k]) /\ (old[i] = old[k] => i = k)
  BY CancelFacts
<1>5. \A i \in DOMAIN pending' :
        old[i] \in DOMAIN pending /\ pending'[i] = pending[old[i]] /\ pending'[i] \in Obj
  BY <1>3, <1>4
<1>6. \A p \in Obj : /\ status'[p] = "absent" <=> status[p] = "absent"
                     /\ status[p] \in {"pending", "cancelled"} =>
                          status'[p] \in {"pending", "cancelled"}
                     /\ status'[p] \in {"pending", "running"} => status'[p] = status[p]
                     /\ p = o \/ status'[p] = status[p]
  BY <1>1, <1>2
<1> HIDE DEF o
<1>7. Named'
  BY <1>2 DEF Named
<1>8. Created'
  <2>1. \A i \in DOMAIN pending' : status'[pending'[i]] # "absent"
    BY <1>5, <1>6 DEF Created
  <2>2. \A k \in Jobs : taskMap[k] # NoObj => taskMap[k] \in Obj
    BY DEF IInv, TypeOK
  <2> QED BY <1>2, <1>6, <2>1, <2>2 DEF Created
<1>9. Stages'
  <2>1. \A i \in DOMAIN pending' :
          task'[pending'[i]] = "none" /\ status'[pending'[i]] \in {"pending", "cancelled"}
    BY <1>2, <1>5, <1>6 DEF Stages
  <2>2. task[o] # "running" /\ task[o] # "callback"
    BY <1>1 DEF Stages
  <2>3. ASSUME NEW p \in Obj
        PROVE  /\ task[p] = "scheduled" => status'[p] \in {"pending", "cancelled"}
               /\ task[p] = "running" => status'[p] = "running"
               /\ task[p] = "callback" => status'[p] = "completed" /\ p \notin cancelReq /\ p[2] = 0
    BY <1>6, <2>2, <2>3 DEF Stages
  <2> QED BY <1>2, <2>1, <2>3 DEF Stages
<1>10. QueuedOnce'
  BY <1>4, <1>5 DEF QueuedOnce
<1>11. CancelledNotPending'
  <2>1. \A k \in Jobs : jobs[k] # NoObj => jobs[k] \in Obj
    BY DEF IInv, TypeOK
  <2> QED BY <1>2, <1>6, <2>1 DEF CancelledNotPending
<1>12. PendingIsQueued'
  <2> SUFFICES ASSUME NEW k \in Jobs, jobs[k] # NoObj, status'[jobs[k]] = "pending"
               PROVE  \/ \E i \in DOMAIN pending' : pending'[i] = jobs[k]
                      \/ task[jobs[k]] = "scheduled" /\ jobs[k] \notin cancelReq
    BY <1>2 DEF PendingIsQueued, Elements
  <2>1. jobs[k] \in Obj /\ jobs[k][1] = k /\ k # j /\ status[jobs[k]] = "pending"
    BY <1>1, <1>2, <1>6 DEF o, Named, IInv, TypeOK
  <2>2. \/ \E i \in DOMAIN pending : pending[i] = jobs[k]
        \/ task[jobs[k]] = "scheduled" /\ jobs[k] \notin cancelReq
    BY <2>1 DEF PendingIsQueued, Elements
  <2>3. \A i \in DOMAIN pending :
          pending[i][1] # j => \E m \in DOMAIN pending' : pending'[m] = pending[i]
    BY CancelFacts
  <2> QED BY <2>1, <2>2, <2>3
<1>13. PendingByPriority'
  BY <1>4, <1>5 DEF PendingByPriority
<1>14. FirstInQueue'
  BY <1>4, <1>5 DEF FirstInQueue
<1>15. FirstInMap'
  <2> SUFFICES ASSUME NEW p \in Obj, p[2] > 0,
                      \/ taskMap[p[1]] = <<p[1], 0>>
                      \/ \E i \in DOMAIN pending' : pending'[i] = <<p[1], 0>>
               PROVE  task[p] = "none" /\ status'[p] # "running"
    BY <1>2 DEF FirstInMap, Begun
  <2>1. \/ taskMap[p[1]] = <<p[1], 0>>
        \/ \E i \in DOMAIN pending : pending[i] = <<p[1], 0>>
    BY <1>5
  <2> QED BY <1>6, <2>1 DEF FirstInMap, Begun
<1> QED BY <1>7, <1>8, <1>9, <1>10, <1>11, <1>12, <1>13, <1>14, <1>15

\* The task that cancel() finds runs the object that get() shows, or one that
\* is not waiting for its callback.
LEMMA CancelRunningQueue ==
  ASSUME IInv, QueueInv, NEW j \in Jobs, CancelRunning(j)
  PROVE  QueueInv'
<1> USE DEF QueueInv
<1> DEFINE o == jobs[j]
           t == taskMap[j]
<1>1. /\ o \in Obj /\ o[1] = j /\ status[o] = "running"
      /\ t \in Obj /\ t[1] = j
      /\ cancelReq' = cancelReq \cup {t}
      /\ UNCHANGED <<pending, jobs, status, task, taskMap>>
  BY DEF CancelRunning, queueVars, Named, IInv, TypeOK
<1>2. /\ pending' = pending /\ jobs' = jobs /\ status' = status
      /\ task' = task /\ taskMap' = taskMap
  BY <1>1
<1>3. task[t] # "callback"
  <2> SUFFICES ASSUME task[t] = "callback" PROVE FALSE
    OBVIOUS
  <2>1. status[t] = "completed" /\ t[2] = 0
    BY <1>1 DEF Stages
  <2>2. t = <<j, 0>> /\ o # t
    BY <1>1, <2>1, ObjPairs
  <2>3. o[2] > 0
    BY <1>1, <2>1, <2>2, ObjPairs, JobQueueAssumption
  <2>4. ~Begun(o)
    BY <1>1, <2>2, <2>3 DEF FirstInMap
  <2> QED BY <1>1, <2>4 DEF Begun
<1>4. status[t] # "absent"
  BY <1>1, JobQueueAssumption DEF Created
<1>5. \A k \in Jobs : jobs[k] = t => k = j /\ status[t] = "running"
  BY <1>1, JobQueueAssumption DEF Named
<1> HIDE DEF o, t
<1>6. Named' /\ QueuedOnce' /\ PendingByPriority' /\ FirstInQueue'
  BY <1>2 DEF Named, QueuedOnce, PendingByPriority, FirstInQueue
<1>7. Created'
  BY <1>1, <1>2, <1>4 DEF Created
<1>8. Stages'
  BY <1>1, <1>2, <1>3 DEF Stages
<1>9. CancelledNotPending'
  BY <1>1, <1>2, <1>5 DEF CancelledNotPending
<1>10. PendingIsQueued'
  BY <1>1, <1>2, <1>5 DEF PendingIsQueued, Elements
<1>11. FirstInMap'
  BY <1>2 DEF FirstInMap, Begun
<1> QED BY <1>6, <1>7, <1>8, <1>9, <1>10, <1>11

\* A task goes from one state to the next, and its object with it.
LEMMA TaskMoves ==
  ASSUME IInv, QueueInv, NEW o \in Obj, NEW t, NEW s,
         task[o] # "none", t # "scheduled", s \in Status, s # "absent",
         task' = [task EXCEPT ![o] = t],
         status' = [status EXCEPT ![o] = s],
         t = "running" => s = "running",
         t = "callback" => s = "completed" /\ o \notin cancelReq /\ o[2] = 0,
         s = "pending" => status[o] = "pending" /\ (task[o] # "scheduled" \/ o \in cancelReq),
         \A j \in Jobs : taskMap'[j] = taskMap[j] \/ taskMap'[j] = NoObj,
         UNCHANGED <<pending, jobs, cancelReq>>
  PROVE  QueueInv'
<1> USE DEF QueueInv
<1>1. pending' = pending /\ jobs' = jobs /\ cancelReq' = cancelReq
  OBVIOUS
<1>2. /\ status'[o] = s /\ \A p \in Obj : p # o => status'[p] = status[p]
      /\ task'[o] = t /\ \A p \in Obj : p # o => task'[p] = task[p]
  BY DEF IInv, TypeOK
<1>3. \A i \in DOMAIN pending : pending[i] \in Obj /\ pending[i] # o
  BY QueueFacts DEF Stages
<1>4. status[o] # "absent"
  BY DEF Created
<1>5. \A j \in Jobs : /\ jobs[j] # NoObj => jobs[j] \in Obj
                      /\ taskMap'[j] # NoObj => taskMap[j] # NoObj /\ taskMap'[j] = taskMap[j]
                      /\ taskMap[j] # NoObj => taskMap[j] \in Obj
  BY DEF IInv, TypeOK
<1>6. Named'
  BY <1>1, <1>5 DEF Named
<1>7. Created'
  <2>1. \A p \in Obj : status'[p] = "absent" => task'[p] = "none" /\ p \notin cancelReq
    BY <1>2 DEF Created
  <2>2. \A i \in DOMAIN pending : status'[pending[i]] # "absent"
    BY <1>2, <1>3 DEF Created
  <2>3. \A j \in Jobs : taskMap'[j] # NoObj => status'[taskMap'[j]] # "absent"
    BY <1>2, <1>5 DEF Created
  <2>4. \A p \in Obj : jobs[p[1]] = NoObj => status'[p] = "absent"
    BY <1>2, <1>4 DEF Created
  <2> QED BY <1>1, <2>1, <2>2, <2>3, <2>4 DEF Created
<1>8. Stages'
  <2>1. \A i \in DOMAIN pending :
          task'[pending[i]] = "none" /\ status'[pending[i]] \in {"pending", "cancelled"}
    BY <1>2, <1>3 DEF Stages
  <2>2. \A p \in Obj :
       /\ task'[p] = "scheduled" => status'[p] \in {"pending", "cancelled"}
       /\ task'[p] = "running" => status'[p] = "running"
       /\ task'[p] = "callback" => status'[p] = "completed" /\ p \notin cancelReq /\ p[2] = 0
    BY <1>2 DEF Stages
  <2> QED BY <1>1, <2>1, <2>2 DEF Stages
<1>9. QueuedOnce' /\ PendingByPriority' /\ FirstInQueue'
  BY <1>1 DEF QueuedOnce, PendingByPriority, FirstInQueue
<1>10. CancelledNotPending'
  BY <1>1, <1>2, <1>5 DEF CancelledNotPending
<1>11. PendingIsQueued'
  <2> SUFFICES ASSUME NEW j \in Jobs, jobs[j] # NoObj, status'[jobs[j]] = "pending"
               PROVE  \/ \E i \in DOMAIN pending : pending[i] = jobs[j]
                      \/ task'[jobs[j]] = "scheduled" /\ jobs[j] \notin cancelReq
    BY <1>1 DEF PendingIsQueued, Elements
  <2>1. status[jobs[j]] = "pending" /\ jobs[j] \in Obj
    BY <1>2, <1>5
  <2>2. \/ \E i \in DOMAIN pending : pending[i] = jobs[j]
        \/ task[jobs[j]] = "scheduled" /\ jobs[j] \notin cancelReq
    BY <2>1 DEF PendingIsQueued, Elements
  <2>3. jobs[j] = o => FALSE
    BY <1>2, <1>3, <2>2
  <2> QED BY <1>2, <2>1, <2>2, <2>3
<1>12. FirstInMap'
  <2> SUFFICES ASSUME NEW p \in Obj, p[2] > 0,
                      \/ taskMap'[p[1]] = <<p[1], 0>>
                      \/ \E i \in DOMAIN pending : pending[i] = <<p[1], 0>>
               PROVE  task'[p] = "none" /\ status'[p] # "running"
    BY <1>1 DEF FirstInMap, Begun
  <2>1. p[1] \in Jobs /\ <<p[1], 0>> # NoObj
    BY ObjPairs, JobQueueAssumption
  <2>2. \/ taskMap[p[1]] = <<p[1], 0>>
        \/ \E i \in DOMAIN pending : pending[i] = <<p[1], 0>>
    BY <1>5, <2>1
  <2>3. task[p] = "none" /\ status[p] # "running"
    BY <2>2 DEF FirstInMap, Begun
  <2> QED BY <1>2, <2>3
<1> QED BY <1>6, <1>7, <1>8, <1>9, <1>10, <1>11, <1>12

LEMMA RunStepQueue ==
  ASSUME IInv, QueueInv, NEW o \in Obj, RunStep(o)
  PROVE  QueueInv'
<1>1. status[o] \in Status /\ status \in [Obj -> Status]
  BY DEF IInv, TypeOK
<1>2. status' = status => status' = [status EXCEPT ![o] = status[o]]
  BY <1>1
<1>3. task[o] # "none" => status[o] # "absent"
  BY DEF QueueInv, Created
<1>4. CASE RunSkipped(o)
  <2>1. /\ task[o] = "scheduled" /\ task' = [task EXCEPT ![o] = "finished"]
        /\ status' = status /\ taskMap' = taskMap
        /\ UNCHANGED <<pending, jobs, cancelReq>>
        /\ o \in cancelReq \/ status[o] = "cancelled"
    BY <1>4 DEF RunSkipped, queueVars
  <2> QED BY <1>1, <1>2, <1>3, <2>1, TaskMoves
<1>5. CASE RunBegins(o)
  <2> DEFINE t == IF AuditRaises THEN "finished" ELSE "running"
  <2>1. /\ task[o] = "scheduled" /\ task' = [task EXCEPT ![o] = t]
        /\ status' = [status EXCEPT ![o] = "running"] /\ taskMap' = taskMap
        /\ UNCHANGED <<pending, jobs, cancelReq>>
    BY <1>5 DEF RunBegins, queueVars
  <2>2. t \in {"finished", "running"} /\ "running" \in Status
    BY DEF Status
  <2> HIDE DEF t
  <2> QED BY <2>1, <2>2, TaskMoves
<1>6. ASSUME NEW st \in Terminal, NEW next \in {"finished", "callback"},
             task[o] \in {"running", "callback"}, Finish(o, st, next),
             next = "callback" => st = "completed" /\ o \notin cancelReq /\ o[2] = 0
      PROVE  QueueInv'
  <2>1. /\ task' = [task EXCEPT ![o] = next]
        /\ status' = [status EXCEPT ![o] = st] /\ taskMap' = taskMap
        /\ UNCHANGED <<pending, jobs, cancelReq>>
    BY <1>6 DEF Finish, queueVars
  <2>2. st \in Status /\ st # "absent" /\ st # "pending"
    BY DEF Status, Terminal
  <2> QED BY <1>6, <2>1, <2>2, TaskMoves
<1>7. CASE RunCompletes(o)
  <2>1. HasCallback(o) => o[2] = 0
    BY DEF HasCallback
  <2> QED BY <1>6, <1>7, <2>1 DEF RunCompletes, Terminal
<1>8. CASE RunFails(o)
  BY <1>6, <1>8 DEF RunFails, Terminal
<1>9. CASE RunCancelled(o)
  BY <1>6, <1>9 DEF RunCancelled, Terminal
<1>10. CASE CallbackEnds(o)
  <2>1. /\ task[o] = "callback" /\ task' = [task EXCEPT ![o] = "finished"]
        /\ status' = status /\ taskMap' = taskMap
        /\ UNCHANGED <<pending, jobs, cancelReq>>
    BY <1>10 DEF CallbackEnds, queueVars
  <2> QED BY <1>1, <1>2, <1>3, <2>1, TaskMoves
<1>11. CASE Cleanup(o)
  <2>1. /\ task[o] = "finished" /\ task' = [task EXCEPT ![o] = "none"]
        /\ status' = status /\ taskMap' = [taskMap EXCEPT ![o[1]] = NoObj]
        /\ UNCHANGED <<pending, jobs, cancelReq>>
    BY <1>11 DEF Cleanup
  <2>2. \A j \in Jobs : taskMap'[j] = taskMap[j] \/ taskMap'[j] = NoObj
    BY <2>1 DEF IInv, TypeOK
  <2> QED BY <1>1, <1>2, <1>3, <2>1, <2>2, TaskMoves
<1> QED BY <1>4, <1>5, <1>7, <1>8, <1>9, <1>10, <1>11 DEF RunStep

\* The dispatcher pops the first n jobs, schedules each of them and leaves, for
\* each id among them, the last in the map.
LEMMA DispatchFacts ==
  ASSUME IInv, Dispatch
  PROVE  \E n \in 0..Len(pending) :
           /\ DOMAIN pending' = 1..(Len(pending) - n)
           /\ \A i \in DOMAIN pending' :
                n + i \in DOMAIN pending /\ pending'[i] = pending[n + i]
           /\ \A o \in Obj : /\ (\E i \in 1..n : pending[i] = o) => task'[o] = "scheduled"
                             /\ (\A i \in 1..n : pending[i] # o) => task'[o] = task[o]
           /\ \A j \in Jobs :
                \/ /\ \A i \in 1..n : pending[i][1] # j
                   /\ taskMap'[j] = taskMap[j]
                \/ \E last \in 1..n : /\ taskMap'[j] = pending[last]
                                      /\ pending[last][1] = j
                                      /\ \A i \in 1..n : pending[i][1] = j => i <= last
<1> DEFINE free == MaxConcurrent - Cardinality(InFlight)
           n == IF Len(pending) <= free THEN Len(pending) ELSE free
           taken == {pending[i] : i \in 1..n}
<1>1. /\ pending \in Seq(Obj)
      /\ Len(pending) \in Nat
      /\ DOMAIN pending = 1..Len(pending)
  BY QueueFacts
<1>2. n \in 0..Len(pending)
  <2>1. Cardinality(InFlight) \in Nat /\ Cardinality(InFlight) <= MaxConcurrent
    BY FS_CardinalityType DEF IInv, Slots
  <2> QED BY <1>1, <2>1, JobQueueAssumption
<1>3. /\ pending' = SubSeq(pending, n + 1, Len(pending))
      /\ task' = [o \in Obj |-> IF o \in taken THEN "scheduled" ELSE task[o]]
      /\ taskMap' = [j \in Jobs |->
           IF \E i \in 1..n : pending[i][1] = j
           THEN pending[CHOOSE i \in 1..n :
                          /\ pending[i][1] = j
                          /\ \A k \in (i+1)..n : pending[k][1] # j]
           ELSE taskMap[j]]
  BY DEF Dispatch
<1> HIDE DEF n
<1>4. /\ DOMAIN pending' = 1..(Len(pending) - n)
      /\ \A i \in DOMAIN pending' : n + i \in DOMAIN pending /\ pending'[i] = pending[n + i]
  <2>1. \A i \in (n + 1)..Len(pending) : pending[i] \in Obj
    BY <1>1, <1>2, ElementOfSeq
  <2>2. /\ pending' \in Seq(Obj)
        /\ Len(pending') = IF n + 1 <= Len(pending) THEN Len(pending) - (n + 1) + 1 ELSE 0
        /\ \A i \in 1..(Len(pending) - (n + 1) + 1) :
             pending'[i] = pending[(n + 1) + i - 1]
    BY <2>1, <1>1, <1>2, <1>3, SubSeqProperties, SMTT(60)
  <2>3. Len(pending') = Len(pending) - n
    <3>1. CASE n + 1 <= Len(pending)
      BY <1>1, <1>2, <2>2, <3>1
    <3>2. CASE ~(n + 1 <= Len(pending))
      <4>1. Len(pending') = 0
        BY <2>2, <3>2
      <4>2. n \in Nat /\ Len(pending) \in Nat /\ n <= Len(pending)
        BY <1>1, <1>2
      <4>3. n = Len(pending)
        BY <3>2, <4>2
      <4>4. Len(pending) - n = 0
        BY <4>2, <4>3
      <4> QED BY <4>1, <4>4
    <3> QED BY <3>1, <3>2
  <2>4. DOMAIN pending' = 1..(Len(pending) - n)
    BY <2>2, <2>3, LenProperties
  <2>5. ASSUME NEW i \in DOMAIN pending'
        PROVE  n + i \in DOMAIN pending /\ pending'[i] = pending[n + i]
    <3>1. /\ i \in 1..(Len(pending) - (n + 1) + 1)
          /\ (n + 1) + i - 1 = n + i /\ n + i \in 1..Len(pending)
      BY <1>1, <1>2, <2>4
    <3> QED BY <1>1, <2>2, <3>1
  <2> QED BY <2>4, <2>5
<1>5. \A o \in Obj : /\ (\E i \in 1..n : pending[i] = o) => task'[o] = "scheduled"
                     /\ (\A i \in 1..n : pending[i] # o) => task'[o] = task[o]
  BY <1>3
<1>6. ASSUME NEW j \in Jobs
      PROVE  \/ /\ \A i \in 1..n : pending[i][1] # j
                /\ taskMap'[j] = taskMap[j]
             \/ \E last \in 1..n : /\ taskMap'[j] = pending[last]
                                   /\ pending[last][1] = j
                                   /\ \A i \in 1..n : pending[i][1] = j => i <= last
  <2> DEFINE IsLast(i) == /\ pending[i][1] = j
                          /\ \A k \in (i+1)..n : pending[k][1] # j
             mine == {i \in 1..n : pending[i][1] = j}
             last == CHOOSE i \in 1..n : IsLast(i)
  <2>1. CASE ~\E i \in 1..n : pending[i][1] = j
    BY <1>3, <2>1
  <2>2. CASE \E i \in 1..n : pending[i][1] = j
    <3>1. PICK i \in mine : \A k \in mine : k <= i
      <4>1. n \in Nat /\ mine \in SUBSET (1..n) /\ mine # {}
        BY <1>1, <1>2, <2>2
      <4> QED BY <4>1, LastExists
    <3>2. IsLast(i)
      <4>1. ASSUME NEW k \in (i+1)..n PROVE pending[k][1] # j
        <5>1. k \in 1..n /\ ~(k <= i)
          BY <1>2
        <5> QED BY <3>1, <5>1
      <4> QED BY <4>1
    <3>3. last \in 1..n /\ IsLast(last)
      BY <3>2
    <3>4. taskMap'[j] = pending[last]
      BY <1>3, <2>2
    <3> HIDE DEF last
    <3>5. ASSUME NEW k \in 1..n, pending[k][1] = j PROVE k <= last
      <4>1. ~(k \in (last+1)..n)
        BY <3>3, <3>5
      <4> QED BY <1>2, <3>3, <4>1
    <3> QED BY <3>3, <3>4, <3>5
  <2> QED BY <2>1, <2>2
<1> QED BY <1>2, <1>4, <1>5, <1>6

LEMMA DispatchQueue ==
  ASSUME IInv, QueueInv, Dispatch
  PROVE  QueueInv'
<1> USE DEF QueueInv
<1>1. /\ pending \in Seq(Obj) /\ Len(pending) \in Nat /\ DOMAIN pending = 1..Len(pending)
      /\ \A i \in DOMAIN pending : pending[i] \in Obj /\ pending[i][1] \in Jobs
  BY QueueFacts
<1>2. PICK n \in 0..Len(pending) :
        /\ DOMAIN pending' = 1..(Len(pending) - n)
        /\ \A i \in DOMAIN pending' : n + i \in DOMAIN pending /\ pending'[i] = pending[n + i]
        /\ \A o \in Obj : /\ (\E i \in 1..n : pending[i] = o) => task'[o] = "scheduled"
                          /\ (\A i \in 1..n : pending[i] # o) => task'[o] = task[o]
        /\ \A j \in Jobs :
             \/ /\ \A i \in 1..n : pending[i][1] # j
                /\ taskMap'[j] = taskMap[j]
             \/ \E last \in 1..n : /\ taskMap'[j] = pending[last]
                                   /\ pending[last][1] = j
                                   /\ \A i \in 1..n : pending[i][1] = j => i <= last
  BY DispatchFacts
<1>3. status' = status /\ jobs' = jobs /\ cancelReq' = cancelReq
  BY DEF Dispatch
<1>4. \A i \in 1..n : i \in DOMAIN pending
  BY <1>1, <1>2
<1>5. \A i \in DOMAIN pending' : /\ n + i \in DOMAIN pending /\ pending'[i] = pending[n + i]
                                 /\ pending'[i] \in Obj /\ i \in Nat
  BY <1>1, <1>2
<1>6. \A i \in DOMAIN pending', k \in 1..n : pending'[i] # pending[k]
  <2> SUFFICES ASSUME NEW i \in DOMAIN pending', NEW k \in 1..n, pending[n + i] = pending[k]
               PROVE  FALSE
    BY <1>5
  <2>1. n + i = k
    BY <1>4, <1>5 DEF QueuedOnce
  <2>2. i \in 1..(Len(pending) - n)
    BY <1>2
  <2> QED BY <2>1, <2>2, <1>1, <1>2
<1>7. \A o \in Obj : task'[o] = task[o] \/ \E i \in 1..n : pending[i] = o /\ task'[o] = "scheduled"
  BY <1>2
<1>8. \A j \in Jobs : taskMap'[j] = taskMap[j] \/ \E i \in 1..n : taskMap'[j] = pending[i] /\ pending[i][1] = j
  BY <1>2
<1>9. Named'
  BY <1>3, <1>8 DEF Named
<1>10. Created'
  <2>1. \A o \in Obj : status[o] = "absent" => task'[o] = "none" /\ o \notin cancelReq
    BY <1>4, <1>7 DEF Created
  <2>2. \A i \in DOMAIN pending' : status[pending'[i]] # "absent"
    BY <1>5 DEF Created
  <2>3. \A j \in Jobs : taskMap'[j] # NoObj => status[taskMap'[j]] # "absent"
    BY <1>4, <1>8 DEF Created
  <2> QED BY <1>3, <2>1, <2>2, <2>3 DEF Created
<1>11. Stages'
  <2>1. \A i \in DOMAIN pending' :
          task'[pending'[i]] = "none" /\ status[pending'[i]] \in {"pending", "cancelled"}
    <3> SUFFICES ASSUME NEW i \in DOMAIN pending'
                 PROVE  task'[pending'[i]] = "none" /\ status[pending'[i]] \in {"pending", "cancelled"}
      OBVIOUS
    <3>1. task'[pending'[i]] = task[pending'[i]]
      BY <1>2, <1>5, <1>6
    <3> QED BY <1>5, <3>1 DEF Stages
  <2>2. ASSUME NEW o \in Obj
        PROVE  /\ task'[o] = "scheduled" => status[o] \in {"pending", "cancelled"}
               /\ task'[o] = "running" => status[o] = "running"
               /\ task'[o] = "callback" => status[o] = "completed" /\ o \notin cancelReq /\ o[2] = 0
    <3>1. CASE task'[o] = task[o]
      BY <3>1 DEF Stages
    <3>2. CASE \E i \in 1..n : pending[i] = o /\ task'[o] = "scheduled"
      BY <1>4, <3>2 DEF Stages
    <3> QED BY <1>7, <3>1, <3>2
  <2> QED BY <1>3, <2>1, <2>2 DEF Stages
<1>12. QueuedOnce'
  <2> SUFFICES ASSUME NEW i \in DOMAIN pending', NEW k \in DOMAIN pending',
                      pending[n + i] = pending[n + k]
               PROVE  i = k
    BY <1>5 DEF QueuedOnce
  <2>1. n + i = n + k
    BY <1>5 DEF QueuedOnce
  <2> QED BY <1>2, <1>5, <2>1
<1>13. CancelledNotPending'
  BY <1>3 DEF CancelledNotPending
<1>14. PendingIsQueued'
  <2> SUFFICES ASSUME NEW j \in Jobs, jobs[j] # NoObj, status[jobs[j]] = "pending"
               PROVE  \/ \E i \in DOMAIN pending' : pending'[i] = jobs[j]
                      \/ task'[jobs[j]] = "scheduled" /\ jobs[j] \notin cancelReq
    BY <1>3 DEF PendingIsQueued, Elements
  <2>1. jobs[j] \in Obj /\ jobs[j] \notin cancelReq
    BY DEF CancelledNotPending, IInv, TypeOK
  <2>2. CASE \E i \in 1..n : pending[i] = jobs[j]
    BY <1>2, <2>1, <2>2
  <2>3. CASE \A i \in 1..n : pending[i] # jobs[j]
    <3>1. CASE task[jobs[j]] = "scheduled"
      BY <1>2, <2>1, <2>3, <3>1
    <3>2. CASE \E i \in DOMAIN pending : pending[i] = jobs[j]
      <4>1. PICK i \in DOMAIN pending : pending[i] = jobs[j]
        BY <3>2
      <4>2. ~(i \in 1..n)
        BY <2>3, <4>1
      <4>3. i - n \in DOMAIN pending' /\ n + (i - n) = i
        BY <1>1, <1>2, <4>2
      <4> QED BY <1>2, <4>1, <4>3
    <3> QED BY <3>1, <3>2 DEF PendingIsQueued, Elements
  <2> QED BY <2>2, <2>3
<1>15. ASSUME NEW i \in DOMAIN pending', NEW k \in DOMAIN pending'
       PROVE  i < k <=> n + i < n + k
  BY <1>2, <1>5
<1>16. PendingByPriority'
  BY <1>5, <1>15 DEF PendingByPriority
<1>17. FirstInQueue'
  BY <1>5, <1>15 DEF FirstInQueue
<1>18. FirstInMap'
  <2> SUFFICES ASSUME NEW p \in Obj, p[2] > 0,
                      \/ taskMap'[p[1]] = <<p[1], 0>>
                      \/ \E i \in DOMAIN pending' : pending'[i] = <<p[1], 0>>
               PROVE  task'[p] = "none" /\ status[p] # "running"
    BY <1>3 DEF FirstInMap, Begun
  <2>1. /\ p[1] \in Jobs /\ <<p[1], 0>>[1] = p[1] /\ <<p[1], 0>>[2] = 0
        /\ p[2] \in Nat
    BY ObjPairs, JobQueueAssumption DEF Obj
  <2>2. \/ taskMap[p[1]] = <<p[1], 0>>
        \/ \E i \in DOMAIN pending : pending[i] = <<p[1], 0>>
    <3>1. CASE taskMap'[p[1]] = <<p[1], 0>>
      BY <1>4, <1>8, <2>1, <3>1, ZenonT(60)
    <3>2. CASE \E i \in DOMAIN pending' : pending'[i] = <<p[1], 0>>
      BY <1>5, <3>2
    <3> QED BY <3>1, <3>2
  <2>3. task[p] = "none" /\ status[p] # "running"
    BY <2>2 DEF FirstInMap, Begun
  <2>4. ASSUME NEW m \in 1..n, pending[m] = p PROVE FALSE
    <3>1. CASE \E i \in DOMAIN pending' : pending'[i] = <<p[1], 0>>
      <4>1. PICK i \in DOMAIN pending' : pending'[i] = <<p[1], 0>>
        BY <3>1
      <4>2. n + i < m
        <5>1. /\ n + i \in DOMAIN pending /\ m \in DOMAIN pending
              /\ pending[n + i][1] = pending[m][1] /\ pending[n + i][2] = 0 /\ pending[m][2] > 0
          BY <1>4, <1>5, <2>1, <2>4, <4>1
        <5> QED BY <5>1 DEF FirstInQueue
      <4>3. i >= 1
        BY <1>2, <1>1
      <4> QED BY <1>2, <1>5, <4>2, <4>3
    <3>2. CASE taskMap'[p[1]] = <<p[1], 0>>
      <4>1. PICK last \in 1..n : /\ taskMap'[p[1]] = pending[last]
                                 /\ pending[last][1] = p[1]
                                 /\ \A i \in 1..n : pending[i][1] = p[1] => i <= last
        BY <1>2, <2>1, <2>4
      <4>2. m <= last
        BY <2>4, <4>1
      <4>3. last < m
        <5>1. /\ last \in DOMAIN pending /\ m \in DOMAIN pending
              /\ pending[last][1] = pending[m][1] /\ pending[last][2] = 0 /\ pending[m][2] > 0
          BY <1>4, <2>1, <2>4, <3>2, <4>1
        <5> QED BY <5>1 DEF FirstInQueue
      <4> QED BY <1>2, <4>2, <4>3
    <3> QED BY <3>1, <3>2
  <2>5. task'[p] = task[p]
    BY <1>2, <2>4
  <2> QED BY <2>3, <2>5
<1> QED BY <1>9, <1>10, <1>11, <1>12, <1>13, <1>14, <1>16, <1>17, <1>18

\* A queue without objects.
LEMMA InitQueue == Init => QueueInv
<1> SUFFICES ASSUME Init PROVE QueueInv
  OBVIOUS
<1>1. /\ pending = <<>> /\ DOMAIN pending = {} /\ cancelReq = {}
      /\ \A j \in Jobs : jobs[j] = NoObj /\ taskMap[j] = NoObj
      /\ \A o \in Obj : status[o] = "absent" /\ task[o] = "none"
  BY DEF Init
<1>2. \A o \in Obj : <<o[1], 0>> # NoObj /\ o[1] \in Jobs
  BY ObjPairs, JobQueueAssumption
<1>3. Named /\ Created /\ Stages /\ QueuedOnce
  BY <1>1, ObjFacts DEF Named, Created, Stages, QueuedOnce
<1>4. CancelledNotPending /\ PendingIsQueued /\ PendingByPriority /\ FirstInQueue
  BY <1>1 DEF CancelledNotPending, PendingIsQueued, PendingByPriority, FirstInQueue
<1>5. FirstInMap
  BY <1>1, <1>2 DEF FirstInMap, Begun
<1> QED BY <1>3, <1>4, <1>5 DEF QueueInv

LEMMA CrashQueue ==
  ASSUME Crash
  PROVE  QueueInv'
<1>1. /\ pending' = <<>> /\ DOMAIN pending' = {} /\ cancelReq' = {}
      /\ \A j \in Jobs : jobs'[j] = NoObj /\ taskMap'[j] = NoObj
      /\ \A o \in Obj : status'[o] = "absent" /\ task'[o] = "none"
  BY DEF Crash
<1>2. \A o \in Obj : <<o[1], 0>> # NoObj /\ o[1] \in Jobs
  BY ObjPairs, JobQueueAssumption
<1>3. Named' /\ Created' /\ Stages' /\ QueuedOnce'
  BY <1>1, ObjFacts DEF Named, Created, Stages, QueuedOnce
<1>4. CancelledNotPending' /\ PendingIsQueued' /\ PendingByPriority' /\ FirstInQueue'
  BY <1>1 DEF CancelledNotPending, PendingIsQueued, PendingByPriority, FirstInQueue
<1>5. FirstInMap'
  BY <1>1, <1>2 DEF FirstInMap, Begun
<1> QED BY <1>3, <1>4, <1>5 DEF QueueInv

LEMMA NextQueue == IInv /\ QueueInv /\ [Next]_vars => QueueInv'
<1> SUFFICES ASSUME IInv, QueueInv, [Next]_vars PROVE QueueInv'
  OBVIOUS
<1>1. CASE UNCHANGED vars
  BY <1>1, QueueFrame DEF vars
<1>2. CASE RecoverOne
  BY <1>2, RecoverQueue
<1>3. ASSUME NEW j \in Jobs, Submit(j) \/ WaitFor(j) \/ CancelPending(j) \/ CancelRunning(j)
      PROVE  QueueInv'
  <2>1. CASE WaitFor(j)
    BY <2>1, QueueFrame DEF WaitFor, queueVars
  <2> QED BY <1>3, <2>1, SubmitQueue, CancelPendingQueue, CancelRunningQueue
<1>4. CASE Start \/ Stop \/ StopReturns
  BY <1>4, QueueFrame DEF Start, Stop, StopReturns, queueVars
<1>5. CASE Dispatch
  BY <1>5, DispatchQueue
<1>6. CASE Crash
  BY <1>6, CrashQueue
<1>7. ASSUME NEW o \in Obj, RunStep(o) \/ WaitReturns(o)
      PROVE  QueueInv'
  <2>1. CASE WaitReturns(o)
    BY <2>1, QueueFrame DEF WaitReturns, queueVars
  <2> QED BY <1>7, <2>1, RunStepQueue
<1> QED BY <1>1, <1>2, <1>3, <1>4, <1>5, <1>6, <1>7 DEF Next, ClientCall

\* A job that get() reports as PENDING is in the queue, or has a task that will
\* run it, in the order of priorities: for any number of jobs, copies, restarts,
\* cancellations and crashes, whether or not lines and records can be written.
THEOREM PendingServed == Spec => []PendingIsServed
<1>1. Init => IInv /\ QueueInv
  BY InitIInv, InitQueue
<1>2. (IInv /\ QueueInv) /\ [Next]_vars => (IInv /\ QueueInv)'
  BY NextIInv, NextQueue
<1>3. IInv /\ QueueInv => PendingIsServed
  BY DEF QueueInv, PendingIsServed
<1> QED BY <1>1, <1>2, <1>3, PTL DEF Spec

LEMMA FinalStep ==
  ASSUME IInv, QueueInv, [Next]_vars, NEW o \in Obj, status[o] \in Terminal
  PROVE  status'[o] \in {status[o], "absent"}
<1> USE DEF Terminal
<1>1. /\ status \in [Obj -> Status] /\ Created /\ Stages
  BY DEF IInv, TypeOK, QueueInv
<1>2. ASSUME NEW p \in Obj, NEW s, status' = [status EXCEPT ![p] = s], status[p] \notin Terminal
      PROVE  status'[o] = status[o]
  BY <1>1, <1>2
<1>3. ASSUME NEW j \in Jobs, Submit(j) PROVE status'[o] = status[o]
  <2>1. <<j, 0>> \in Obj /\ <<j, 0>>[1] = j
    BY ObjFacts, JobQueueAssumption
  <2>2. status[<<j, 0>>] = "absent" /\ status' = [status EXCEPT ![<<j, 0>>] = "pending"]
    BY <1>1, <1>3, <2>1 DEF Submit, Fresh, Created
  <2> QED BY <1>2, <2>1, <2>2
<1>4. ASSUME RecoverOne PROVE status'[o] = status[o]
  <2>1. toRecover[1] \in Jobs
    BY <1>4 DEF RecoverOne, IInv, TypeOK
  <2>2. PICK k \in 1..MaxCopies :
          /\ status[<<toRecover[1], k>>] = "absent"
          /\ status' = [status EXCEPT ![<<toRecover[1], k>>] = "pending"]
    BY <1>4 DEF RecoverOne
  <2>3. <<toRecover[1], k>> \in Obj
    BY <2>1, JobQueueAssumption DEF Obj
  <2> QED BY <1>2, <2>2, <2>3
<1>5. ASSUME NEW j \in Jobs, CancelPending(j) PROVE status'[o] = status[o]
  <2>1. /\ jobs[j] \in Obj /\ status[jobs[j]] = "pending"
        /\ status' = [status EXCEPT ![jobs[j]] = "cancelled"]
    BY <1>5 DEF CancelPending, IInv, TypeOK
  <2> QED BY <1>2, <2>1
<1>6. ASSUME NEW p \in Obj, RunBegins(p) PROVE status'[o] = status[o]
  <2>1. status[p] = "pending" /\ status' = [status EXCEPT ![p] = "running"]
    BY <1>1, <1>6 DEF RunBegins, Stages
  <2> QED BY <1>2, <2>1
<1>7. ASSUME NEW p \in Obj, RunCompletes(p) \/ RunFails(p) \/ RunCancelled(p)
      PROVE  status'[o] = status[o]
  <2>1. task[p] = "running"
    BY <1>1, <1>7 DEF RunCompletes, RunFails, RunCancelled, Stages
  <2>2. status[p] = "running"
    BY <1>1, <2>1 DEF Stages
  <2>3. \E st \in Terminal : status' = [status EXCEPT ![p] = st]
    BY <1>7 DEF RunCompletes, RunFails, RunCancelled, Finish
  <2> QED BY <1>2, <2>2, <2>3
<1>8. CASE Crash
  BY <1>8 DEF Crash
<1>9. ASSUME NEW p \in Obj, RunSkipped(p) \/ CallbackEnds(p) \/ Cleanup(p) \/ WaitReturns(p)
      PROVE  status'[o] = status[o]
  BY <1>9 DEF RunSkipped, CallbackEnds, Cleanup, WaitReturns
<1>10. CASE UNCHANGED vars
  BY <1>10 DEF vars
<1>11. CASE Start \/ Stop \/ StopReturns \/ Dispatch
  BY <1>11 DEF Start, Stop, StopReturns, Dispatch
<1>12. ASSUME NEW j \in Jobs, WaitFor(j) \/ CancelRunning(j)
       PROVE  status'[o] = status[o]
  BY <1>12 DEF WaitFor, CancelRunning
<1> QED
  BY <1>3, <1>4, <1>5, <1>6, <1>7, <1>8, <1>9, <1>10, <1>11, <1>12
  DEF Next, ClientCall, RunStep

\* A finished Job object never changes its status again, for all clients,
\* cancellations, callbacks and copies of jobs.
THEOREM TerminalFinal == Spec => TerminalIsFinal
<1>1. Init => IInv /\ QueueInv
  BY InitIInv, InitQueue
<1>2. (IInv /\ QueueInv) /\ [Next]_vars => (IInv /\ QueueInv)'
  BY NextIInv, NextQueue
<1>3. IInv /\ QueueInv /\ [Next]_vars =>
        [\A o \in Obj : status[o] \in Terminal => status'[o] \in {status[o], "absent"}]_vars
  BY FinalStep
<1> QED BY <1>1, <1>2, <1>3, PTL DEF Spec, TerminalIsFinal

(***************************************************************************)
(* The persistent queue, used as documented: clients submit while it runs,  *)
(* lines and records can be written.                                        *)
(***************************************************************************)

Durable == Persist /\ ~SubmitWhenStopped /\ ~FileFails /\ ~AuditRaises

\* A process has one object of every id it knows.
OneObject ==
  /\ \A o \in Obj : status[o] # "absent" => jobs[o[1]] = o
  /\ \A j \in Jobs : jobs[j] # NoObj => status[jobs[j]] # "absent"

\* What runs has a task, and only objects that exist are announced.
NoneStranded ==
  \A o \in Obj :
    /\ status[o] = "running" => task[o] = "running"
    /\ o \in eventSet => status[o] # "absent"

\* Every line is one job that is not finished.
Lines ==
  /\ torn = "no"
  /\ \A i, k \in DOMAIN file : file[i] = file[k] => i = k
  /\ \A j \in Elements(file) : outcome[j] = "none"
  /\ \A j \in Jobs :
       jobs[j] # NoObj /\ status[jobs[j]] \in Terminal => outcome[j] = status[jobs[j]]

\* start() finds nothing in memory of what the rest of the file names.
Recovers ==
  /\ toRecover # <<>> => running
  /\ \A i \in DOMAIN toRecover : jobs[toRecover[i]] = NoObj
  /\ Len(toRecover) <= Len(file)
  /\ \A i \in DOMAIN toRecover : toRecover[i] = file[Len(file) - Len(toRecover) + i]

\* The dispatcher exits only when the queue is empty, and stop() returns only
\* when all is done.
Stopped ==
  /\ running => ~stopping
  /\ dispatcher = "exited" => stopping /\ pending = <<>>
  /\ ~running /\ ~stopping =>
       /\ pending = <<>> /\ dispatcher = "absent"
       /\ \A o \in Obj : status[o] \in {"absent"} \cup Terminal

DurableInv ==
  /\ OneObject /\ NoneStranded /\ Lines /\ Recovers /\ Stopped
  /\ EventIffFinished /\ FileMatchesMemory /\ PendingFifo

(***************************************************************************)
(* The lines of the file.                                                   *)
(***************************************************************************)

\* The line of a job is where the job is.
LEMMA LineFacts ==
  ASSUME IInv, Lines
  PROVE  /\ Len(file) \in Nat /\ DOMAIN file = 1..Len(file)
         /\ \A i \in DOMAIN file : file[i] \in Jobs /\ LineOf(file[i]) = i
         /\ \A j \in Elements(file) : LineOf(j) \in DOMAIN file /\ file[LineOf(j)] = j
<1>1. file \in Seq(Jobs) /\ Len(file) \in Nat /\ DOMAIN file = 1..Len(file)
  BY LenProperties DEF IInv, TypeOK
<1>2. \A i \in DOMAIN file : file[i] \in Jobs
  BY <1>1, ElementOfSeq
<1>3. \A j \in Elements(file) : LineOf(j) \in DOMAIN file /\ file[LineOf(j)] = j
  BY DEF Elements, LineOf
<1>4. \A i \in DOMAIN file : file[i] \in Elements(file)
  BY DEF Elements
<1>5. \A i \in DOMAIN file : LineOf(file[i]) = i
  BY <1>3, <1>4 DEF Lines
<1> QED BY <1>1, <1>2, <1>3, <1>5

\* A new line is the last and changes no other.
LEMMA AppendLine ==
  ASSUME IInv, Lines, NEW j \in Jobs, j \notin Elements(file), file' = Append(file, j)
  PROVE  /\ \A i, k \in DOMAIN file' : file'[i] = file'[k] => i = k
         /\ Elements(file)' = Elements(file) \cup {j}
         /\ \A a \in Elements(file) : LineOf(a)' = LineOf(a) /\ LineOf(a)' < LineOf(j)'
<1>1. /\ file \in Seq(Jobs) /\ Len(file) \in Nat /\ DOMAIN file = 1..Len(file)
      /\ \A a \in Elements(file) : LineOf(a) \in DOMAIN file /\ file[LineOf(a)] = a
  BY LineFacts DEF IInv, TypeOK
<1>2. /\ DOMAIN file' = 1..(Len(file) + 1)
      /\ \A i \in 1..Len(file) : file'[i] = file[i]
      /\ file'[Len(file) + 1] = j
  <2>1. /\ file' \in Seq(Jobs) /\ Len(file') = Len(file) + 1
        /\ \A i \in 1..Len(file) : file'[i] = file[i]
        /\ file'[Len(file) + 1] = j
    BY <1>1, AppendProperties
  <2> QED BY <2>1, LenProperties
<1>3. \A i \in 1..Len(file) : file[i] # j
  BY <1>1 DEF Elements
<1>4. ASSUME NEW i \in DOMAIN file', NEW k \in DOMAIN file', file'[i] = file'[k] PROVE i = k
  <2>1. \A m \in DOMAIN file' : m \in 1..Len(file) \/ m = Len(file) + 1
    BY <1>1, <1>2
  <2>2. CASE i \in 1..Len(file) /\ k \in 1..Len(file)
    BY <1>1, <1>2, <1>4, <2>2 DEF Lines
  <2>3. CASE i = Len(file) + 1 /\ k \in 1..Len(file)
    BY <1>2, <1>3, <1>4, <2>3
  <2>4. CASE k = Len(file) + 1 /\ i \in 1..Len(file)
    BY <1>2, <1>3, <1>4, <2>4
  <2> QED BY <2>1, <2>2, <2>3, <2>4
<1>5. Elements(file)' = Elements(file) \cup {j}
  <2>1. ASSUME NEW a \in Elements(file)' PROVE a \in Elements(file) \cup {j}
    <3>1. PICK i \in 1..(Len(file) + 1) : a = file'[i]
      BY <1>2 DEF Elements
    <3>2. i \in 1..Len(file) \/ i = Len(file) + 1
      BY <1>1
    <3> QED BY <1>1, <1>2, <3>1, <3>2 DEF Elements
  <2>2. ASSUME NEW a \in Elements(file) PROVE a \in Elements(file)'
    <3>1. PICK i \in 1..Len(file) : a = file[i]
      BY <1>1 DEF Elements
    <3>2. i \in DOMAIN file' /\ file'[i] = a
      BY <1>1, <1>2, <3>1
    <3> QED BY <3>2 DEF Elements
  <2>3. j \in Elements(file)'
    <3>1. Len(file) + 1 \in DOMAIN file'
      BY <1>1, <1>2
    <3> QED BY <1>2, <3>1 DEF Elements
  <2> QED BY <2>1, <2>2, <2>3
<1>6. \A a \in Elements(file)' : LineOf(a)' \in DOMAIN file' /\ file'[LineOf(a)'] = a
  BY DEF Elements, LineOf
<1>7. LineOf(j)' = Len(file) + 1
  <2>1. j \in Elements(file)' /\ Len(file) + 1 \in DOMAIN file'
    BY <1>1, <1>2, <1>5
  <2> QED BY <1>2, <1>4, <1>6, <2>1
<1>8. ASSUME NEW a \in Elements(file)
      PROVE  LineOf(a)' = LineOf(a) /\ LineOf(a)' < LineOf(j)'
  <2>1. LineOf(a) \in 1..Len(file) /\ LineOf(a) \in DOMAIN file' /\ file'[LineOf(a)] = a
    BY <1>1, <1>2
  <2>2. LineOf(a)' = LineOf(a)
    BY <1>4, <1>5, <1>6, <2>1
  <2> QED BY <1>1, <1>7, <2>1, <2>2
<1> QED BY <1>4, <1>5, <1>8

\* Removing the line of a job removes that line and keeps the order of the others.
LEMMA DropLine ==
  ASSUME IInv, Lines, NEW j \in Jobs, file' = Unpersisted(j)
  PROVE  /\ \A i, k \in DOMAIN file' : file'[i] = file'[k] => i = k
         /\ Elements(file)' = Elements(file) \ {j}
         /\ \A a, b \in Elements(file)' : LineOf(a) < LineOf(b) => LineOf(a)' < LineOf(b)'
<1>1. /\ file \in Seq(Jobs) /\ Len(file) \in Nat /\ DOMAIN file = 1..Len(file)
      /\ \A i \in DOMAIN file : file[i] \in Jobs /\ LineOf(file[i]) = i
      /\ \A a \in Elements(file) : LineOf(a) \in DOMAIN file /\ file[LineOf(a)] = a
  BY LineFacts DEF IInv, TypeOK
<1>2. CASE j \notin Elements(file)
  <2>1. file' = file
    BY <1>2 DEF Unpersisted
  <2>2. \A a : LineOf(a)' = LineOf(a)
    BY <2>1 DEF LineOf
  <2>3. Elements(file)' = Elements(file)
    BY <2>1 DEF Elements
  <2> QED BY <1>2, <2>1, <2>2, <2>3 DEF Lines
<1>3. CASE j \in Elements(file)
  <2>1. file' = DropAt(file, LineOf(j))
    BY <1>3 DEF Unpersisted, LineOf, Lines
  <2>2. PICK at \in 1..Len(file) : at = LineOf(j) /\ file[at] = j
    BY <1>1, <1>3, SMTT(60)
  <2>3. /\ file' \in Seq(Jobs) /\ Len(file') = Len(file) - 1
        /\ \A m \in 1..(Len(file) - 1) : file'[m] = IF m < at THEN file[m] ELSE file[m + 1]
    <3>1. file' = DropAt(file, at) /\ at \in DOMAIN file
      BY <1>1, <2>1, <2>2
    <3> QED BY <1>1, <3>1, DropPositions, ZenonT(60)
  <2>4. DOMAIN file' = 1..(Len(file) - 1)
    BY <2>3, LenProperties
  <2> DEFINE old(m) == IF m < at THEN m ELSE m + 1
  <2>5. ASSUME NEW m \in DOMAIN file'
        PROVE  /\ old(m) \in DOMAIN file /\ old(m) # at
               /\ file'[m] = file[old(m)]
    BY <1>1, <2>2, <2>3, <2>4
  <2>6. ASSUME NEW m \in DOMAIN file', NEW k \in DOMAIN file'
        PROVE  (old(m) = old(k) => m = k) /\ (old(m) < old(k) => m < k)
    BY <1>1, <2>2, <2>4
  <2>7. ASSUME NEW i \in DOMAIN file, i # at
        PROVE  \E m \in DOMAIN file' : old(m) = i
    <3>1. CASE i < at
      <4>1. i \in DOMAIN file' /\ old(i) = i
        BY <1>1, <2>2, <2>4, <3>1
      <4> QED BY <4>1
    <3>2. CASE i > at
      <4>1. i - 1 \in DOMAIN file' /\ old(i - 1) = i
        BY <1>1, <2>2, <2>4, <3>2
      <4> QED BY <4>1
    <3> QED BY <1>1, <2>2, <2>7, <3>1, <3>2
  <2> HIDE DEF old
  <2>8. \A i, k \in DOMAIN file' : file'[i] = file'[k] => i = k
    BY <2>5, <2>6 DEF Lines
  <2>9. Elements(file)' = Elements(file) \ {j}
    <3>1. ASSUME NEW a \in Elements(file)' PROVE a \in Elements(file) /\ a # j
      <4>1. PICK m \in DOMAIN file' : a = file'[m]
        BY DEF Elements
      <4>2. a = file[old(m)] /\ old(m) \in DOMAIN file /\ old(m) # at
        BY <2>5, <4>1
      <4>3. a # j
        BY <1>1, <2>2, <4>2
      <4> QED BY <4>2, <4>3 DEF Elements
    <3>2. ASSUME NEW a \in Elements(file), a # j PROVE a \in Elements(file)'
      <4>1. LineOf(a) \in DOMAIN file /\ file[LineOf(a)] = a /\ LineOf(a) # at
        BY <1>1, <2>2, <3>2
      <4>2. PICK m \in DOMAIN file' : old(m) = LineOf(a)
        BY <2>7, <4>1
      <4>3. file'[m] = a
        BY <2>5, <4>1, <4>2
      <4> QED BY <4>3 DEF Elements
    <3> QED BY <3>1, <3>2
  <2>10. ASSUME NEW a \in Elements(file)'
         PROVE  LineOf(a)' \in DOMAIN file' /\ old(LineOf(a)') = LineOf(a)
    <3>1. LineOf(a)' \in DOMAIN file' /\ file'[LineOf(a)'] = a
      BY DEF Elements, LineOf
    <3>2. old(LineOf(a)') \in DOMAIN file /\ file[old(LineOf(a)')] = a
      BY <2>5, <3>1
    <3> QED BY <1>1, <3>1, <3>2
  <2>11. ASSUME NEW a \in Elements(file)', NEW b \in Elements(file)', LineOf(a) < LineOf(b)
         PROVE  LineOf(a)' < LineOf(b)'
    BY <2>6, <2>10, <2>11
  <2> QED BY <2>8, <2>9, <2>11
<1> QED BY <1>2, <1>3

(***************************************************************************)
(* The steps.                                                               *)
(***************************************************************************)

\* The parts of DurableInv that speak of objects.
ObjectInv == OneObject /\ NoneStranded /\ EventIffFinished
Ended ==
  \A j \in Jobs :
    jobs[j] # NoObj /\ status[jobs[j]] \in Terminal => outcome[j] = status[jobs[j]]

LEMMA DurableFacts ==
  ASSUME IInv, QueueInv, DurableInv
  PROVE  /\ ObjectInv /\ Ended /\ Lines /\ Recovers /\ Stopped
         /\ EventIffFinished /\ FileMatchesMemory /\ PendingFifo
         /\ \A j \in Jobs : jobs[j] # NoObj => jobs[j] \in Obj /\ jobs[j][1] = j
         /\ status \in [Obj -> Status] /\ task \in [Obj -> TaskState]
         /\ jobs \in [Jobs -> Obj \cup {NoObj}] /\ NoObj \notin Obj
         /\ file \in Seq(Jobs) /\ toRecover \in Seq(Jobs) /\ eventSet \subseteq Obj
         /\ \A i \in DOMAIN pending : pending[i] \in Obj
BY QueueFacts, JobQueueAssumption
DEF DurableInv, ObjectInv, Ended, Lines, IInv, TypeOK, QueueInv, Named

\* Writes of a queue whose file does not fail.
LEMMA DurableDisk ==
  ASSUME Durable, DurableInv, NEW j
  PROVE  /\ PersistJob(j) => file' = Append(file, j) /\ torn' = torn /\ faults' = faults
         /\ UnpersistJob(j) => file' = Unpersisted(j) /\ torn' = torn /\ faults' = faults
BY DEF Durable, DurableInv, Lines, PersistJob, UnpersistJob, Appended

\* submit() and start() register and queue an object of an id without one.
LEMMA NewDurable ==
  ASSUME IInv, QueueInv, DurableInv, NEW o \in Obj,
         jobs[o[1]] = NoObj,
         jobs' = [jobs EXCEPT ![o[1]] = o],
         status' = [status EXCEPT ![o] = "pending"],
         UNCHANGED <<task, eventSet, outcome>>
  PROVE  /\ ObjectInv' /\ Ended'
         /\ \A j \in Jobs : \/ /\ j = o[1]
                               /\ jobs'[j] = o /\ status'[o] = "pending"
                            \/ /\ j # o[1]
                               /\ jobs'[j] = jobs[j]
                               /\ jobs[j] # NoObj => status'[jobs[j]] = status[jobs[j]]
<1>1. /\ ObjectInv /\ Ended
      /\ \A j \in Jobs : jobs[j] # NoObj => jobs[j] \in Obj /\ jobs[j][1] = j
      /\ status \in [Obj -> Status] /\ jobs \in [Jobs -> Obj \cup {NoObj}] /\ NoObj \notin Obj
  BY DurableFacts
<1>2. \A p \in Obj : p[1] = o[1] => status[p] = "absent" /\ task[p] = "none"
  BY DEF QueueInv, Created
<1>3. /\ o[1] \in Jobs /\ task' = task /\ eventSet' = eventSet /\ outcome' = outcome
      /\ jobs'[o[1]] = o /\ \A j \in Jobs : j # o[1] => jobs'[j] = jobs[j]
      /\ status'[o] = "pending" /\ \A p \in Obj : p # o => status'[p] = status[p]
  BY <1>1, ObjFacts
<1>4. ASSUME NEW j \in Jobs
      PROVE  \/ /\ j = o[1]
                /\ jobs'[j] = o /\ status'[o] = "pending"
             \/ /\ j # o[1]
                /\ jobs'[j] = jobs[j]
                /\ jobs[j] # NoObj => status'[jobs[j]] = status[jobs[j]]
  BY <1>1, <1>3
<1>5. OneObject'
  <2>1. ASSUME NEW p \in Obj, status'[p] # "absent" PROVE jobs'[p[1]] = p
    <3>1. p[1] \in Jobs
      BY ObjFacts
    <3>2. CASE p = o
      BY <1>3, <3>2
    <3>3. CASE p # o
      <4>1. status[p] # "absent" /\ p[1] # o[1]
        BY <1>2, <1>3, <2>1, <3>3
      <4> QED BY <1>1, <1>3, <3>1, <4>1 DEF ObjectInv, OneObject
    <3> QED BY <3>2, <3>3
  <2>2. \A j \in Jobs : jobs'[j] # NoObj => status'[jobs'[j]] # "absent"
    BY <1>1, <1>4 DEF ObjectInv, OneObject
  <2> QED BY <2>1, <2>2 DEF OneObject
<1>6. NoneStranded'
  BY <1>1, <1>2, <1>3 DEF ObjectInv, NoneStranded
<1>7. o \notin eventSet
  BY <1>1, <1>2 DEF ObjectInv, NoneStranded
<1>8. EventIffFinished'
  <2> SUFFICES ASSUME NEW j \in Jobs, jobs'[j] # NoObj
               PROVE  jobs'[j] \in eventSet <=>
                        status'[jobs'[j]] \in Terminal /\ task[jobs'[j]] # "callback"
    BY <1>3 DEF EventIffFinished
  <2>1. CASE j = o[1]
    BY <1>3, <1>7, <2>1 DEF Terminal
  <2>2. CASE j # o[1]
    BY <1>1, <1>4, <2>2 DEF ObjectInv, EventIffFinished
  <2> QED BY <2>1, <2>2
<1>9. Ended'
  BY <1>1, <1>3, <1>4 DEF Ended, Terminal
<1>10. ObjectInv'
  BY <1>5, <1>6, <1>8 DEF ObjectInv
<1> QED BY <1>4, <1>9, <1>10

\* It goes behind all that were submitted before it and are as urgent.
LEMMA NewFifo ==
  ASSUME IInv, PendingByPriority, PendingFifo, NEW o \in Obj,
         pending' = InsertByPriority(pending, o),
         \A a \in Jobs : (\E i \in DOMAIN pending : pending[i][1] = a) =>
           /\ a # o[1]
           /\ a \in Elements(file)' =>
                /\ a \in Elements(file)
                /\ LineOf(a)' = LineOf(a)
                /\ LineOf(a)' < LineOf(o[1])'
  PROVE  PendingFifo'
<1>1. /\ pending \in Seq(Obj) /\ Len(pending) \in Nat /\ DOMAIN pending = 1..Len(pending)
      /\ \A i \in DOMAIN pending : pending[i] \in Obj /\ pending[i][1] \in Jobs
  BY QueueFacts
<1>2. PICK at \in 1..(Len(pending) + 1) :
        /\ Len(pending') = Len(pending) + 1
        /\ pending' \in Seq(Obj)
        /\ \A i \in 1..(Len(pending) + 1) :
             pending'[i] = IF i < at THEN pending[i] ELSE IF i = at THEN o ELSE pending[i - 1]
        /\ at <= Len(pending) => Priority[o[1]] > Priority[pending[at][1]]
  BY <1>1, InsertPositions, ZenonT(60)
<1>3. DOMAIN pending' = 1..(Len(pending) + 1)
  BY <1>2, LenProperties
<1> DEFINE old(i) == IF i < at THEN i ELSE i - 1
<1>4. ASSUME NEW i \in DOMAIN pending', i # at
      PROVE  old(i) \in DOMAIN pending /\ pending'[i] = pending[old(i)]
  BY <1>1, <1>2, <1>3, <1>4
<1>5. ASSUME NEW i \in DOMAIN pending', i # at, NEW k \in DOMAIN pending', k # at, i < k
      PROVE  old(i) < old(k)
  BY <1>1, <1>2, <1>3, <1>5
<1>6. at \in DOMAIN pending' /\ pending'[at] = o
  BY <1>2, <1>3
<1>7. \A p \in Obj : Priority[p[1]] \in Nat
  BY ObjFacts, JobQueueAssumption
<1> SUFFICES ASSUME NEW i \in DOMAIN pending', NEW k \in DOMAIN pending', i < k,
                    NEW a \in Jobs, NEW b \in Jobs, a = pending'[i][1], b = pending'[k][1],
                    Priority[a] = Priority[b], a \in Elements(file)', b \in Elements(file)'
             PROVE  LineOf(a)' < LineOf(b)'
  <2>1. \A i \in DOMAIN pending' : pending'[i][1] \in Jobs
    BY <1>2, <1>3, ElementOfSeq, ObjFacts
  <2> QED BY <2>1 DEF PendingFifo
<1>8. CASE i # at /\ k # at
  <2>1. /\ old(i) \in DOMAIN pending /\ old(k) \in DOMAIN pending /\ old(i) < old(k)
        /\ a = pending[old(i)][1] /\ b = pending[old(k)][1]
    BY <1>4, <1>5, <1>8
  <2> HIDE DEF old
  <2>2. /\ a \in Elements(file) /\ b \in Elements(file)
        /\ LineOf(a)' = LineOf(a) /\ LineOf(b)' = LineOf(b)
    BY <2>1
  <2>3. LineOf(a) < LineOf(b)
    BY <2>1, <2>2 DEF PendingFifo
  <2> QED BY <2>2, <2>3
<1>9. CASE k = at
  <2>1. i # at /\ old(i) \in DOMAIN pending /\ a = pending[old(i)][1] /\ b = o[1]
    BY <1>2, <1>3, <1>4, <1>6, <1>9
  <2> HIDE DEF old
  <2> QED BY <2>1
<1>10. CASE i = at
  <2>1. /\ k - 1 \in DOMAIN pending /\ b = pending[k - 1][1] /\ a = o[1]
        /\ at \in DOMAIN pending /\ (at < k - 1 \/ at = k - 1)
    BY <1>1, <1>2, <1>3, <1>6, <1>10
  <2>2. Priority[o[1]] > Priority[pending[at][1]]
    BY <1>1, <1>2, <2>1
  <2>3. /\ Priority[o[1]] \in Nat /\ Priority[pending[at][1]] \in Nat
        /\ Priority[pending[k - 1][1]] \in Nat
    BY <1>1, <1>7, <2>1
  <2>4. Priority[pending[at][1]] >= Priority[pending[k - 1][1]]
    BY <2>1, <2>3 DEF PendingByPriority
  <2>5. Priority[o[1]] > Priority[pending[k - 1][1]]
    BY <2>2, <2>3, <2>4
  <2> QED BY <2>1, <2>3, <2>5
<1> QED BY <1>8, <1>9, <1>10

LEMMA SubmitDurable ==
  ASSUME Durable, IInv, QueueInv, DurableInv, toRecover = <<>>, NEW j \in Jobs, Submit(j)
  PROVE  DurableInv'
<1> DEFINE o == <<j, 0>>
<1>1. /\ Ended /\ Lines /\ Stopped /\ FileMatchesMemory /\ PendingFifo /\ file \in Seq(Jobs)
      /\ \A i \in DOMAIN pending : pending[i] \in Obj
  BY DurableFacts
<1>2. o \in Obj /\ o[1] = j
  BY ObjFacts, JobQueueAssumption
<1>3. /\ jobs[j] = NoObj /\ outcome[j] = "none" /\ j \notin Elements(file) /\ running
      /\ jobs' = [jobs EXCEPT ![j] = o]
      /\ status' = [status EXCEPT ![o] = "pending"]
      /\ pending' = InsertByPriority(pending, o)
      /\ UNCHANGED <<running, stopping, toRecover, task, eventSet, outcome>>
  BY DEF Submit, Fresh, Durable
<1>4. file' = Append(file, j) /\ torn' = torn /\ dispatcher' = Woken
  BY DurableDisk DEF Submit, Durable
<1> HIDE DEF o
<1>5. /\ ObjectInv' /\ Ended'
      /\ \A k \in Jobs : \/ /\ k = j
                            /\ jobs'[k] = o /\ status'[o] = "pending"
                         \/ /\ k # j
                            /\ jobs'[k] = jobs[k]
                            /\ jobs[k] # NoObj => status'[jobs[k]] = status[jobs[k]]
  BY <1>2, <1>3, NewDurable, ZenonT(60)
<1>6. /\ \A i, k \in DOMAIN file' : file'[i] = file'[k] => i = k
      /\ Elements(file)' = Elements(file) \cup {j}
      /\ \A a \in Elements(file) : LineOf(a)' = LineOf(a) /\ LineOf(a)' < LineOf(j)'
  BY <1>1, <1>3, <1>4, AppendLine
<1>7. Lines'
  <2>1. torn' = "no"
    BY <1>1, <1>4 DEF Lines
  <2>2. \A k \in Elements(file)' : outcome'[k] = "none"
    BY <1>1, <1>3, <1>6 DEF Lines
  <2> QED BY <1>5, <1>6, <2>1, <2>2 DEF Lines, Ended
<1>8. Recovers'
  <2>1. toRecover' = <<>> /\ file' \in Seq(Jobs)
    BY <1>1, <1>3, <1>4
  <2>2. Len(file') \in Nat
    BY <2>1, LenProperties
  <2>3. DOMAIN toRecover' = {} /\ Len(toRecover') = 0
    BY <2>1
  <2> QED BY <2>1, <2>2, <2>3 DEF Recovers
<1>9. Stopped'
  <2>1. running' /\ ~stopping' /\ dispatcher' # "exited"
    BY <1>1, <1>3, <1>4 DEF Stopped, Woken
  <2> QED BY <2>1 DEF Stopped
<1>10. FileMatchesMemory'
  <2> SUFFICES ASSUME NEW k \in Jobs
               PROVE  IF jobs'[k] # NoObj
                      THEN k \in Elements(file)' <=> status'[jobs'[k]] \notin Terminal
                      ELSE k \in Elements(file)' => outcome'[k] = "none"
    BY DEF FileMatchesMemory
  <2>1. CASE k = j
    <3>1. jobs'[k] = o /\ o # NoObj /\ status'[o] = "pending" /\ k \in Elements(file)'
      BY <1>2, <1>5, <1>6, <2>1, JobQueueAssumption
    <3> QED BY <3>1 DEF Terminal
  <2>2. CASE k # j
    BY <1>1, <1>3, <1>5, <1>6, <2>2 DEF FileMatchesMemory
  <2> QED BY <2>1, <2>2
<1>11. PendingFifo'
  <2>1. \A i \in DOMAIN pending : pending[i][1] # j
    BY <1>3 DEF IInv, Registered
  <2>2. \A a \in Jobs : (\E i \in DOMAIN pending : pending[i][1] = a) =>
           /\ a # o[1]
           /\ a \in Elements(file)' =>
                /\ a \in Elements(file)
                /\ LineOf(a)' = LineOf(a)
                /\ LineOf(a)' < LineOf(o[1])'
    BY <1>2, <1>6, <2>1
  <2>3. PendingByPriority
    BY DEF QueueInv
  <2> QED BY <1>1, <1>2, <1>3, <2>2, <2>3, NewFifo
<1> QED BY <1>5, <1>7, <1>8, <1>9, <1>10, <1>11 DEF DurableInv, ObjectInv

\* start() loads the file of a queue in which everything is finished.
LEMMA StartDurable ==
  ASSUME Durable, IInv, QueueInv, DurableInv, Start
  PROVE  DurableInv'
<1>1. /\ ObjectInv /\ Ended /\ Lines /\ Stopped /\ FileMatchesMemory /\ PendingFifo
      /\ file \in Seq(Jobs)
      /\ \A k \in Jobs : jobs[k] # NoObj => jobs[k] \in Obj
  BY DurableFacts
<1>2. /\ ~running /\ ~stopping /\ ~stopping' /\ running' /\ dispatcher' = "ready" /\ toRecover' = file
      /\ UNCHANGED <<pending, jobs, status, task, eventSet, file, torn, outcome>>
  BY DEF Start, Durable, queueVars, fileVars, IInv, TypeOK
<1>3. ObjectInv' /\ Lines' /\ FileMatchesMemory' /\ PendingFifo'
  BY <1>1, <1>2 DEF ObjectInv, OneObject, NoneStranded, EventIffFinished, Lines,
     FileMatchesMemory, PendingFifo, LineOf, Elements
<1>4. Stopped'
  BY <1>2 DEF Stopped
<1>5. Recovers'
  <2>1. Len(file) \in Nat /\ DOMAIN file = 1..Len(file)
    BY <1>1, LenProperties
  <2>2. \A i \in DOMAIN file : file[i] = file[Len(file) - Len(file) + i]
    BY <2>1
  <2>3. ASSUME NEW i \in DOMAIN file, jobs[file[i]] # NoObj PROVE FALSE
    <3>1. file[i] \in Jobs /\ file[i] \in Elements(file)
      BY <1>1, <2>1, ElementOfSeq DEF Elements
    <3>2. status[jobs[file[i]]] \notin Terminal
      BY <1>1, <2>3, <3>1 DEF FileMatchesMemory
    <3>3. jobs[file[i]] \in Obj /\ status[jobs[file[i]]] # "absent"
      BY <1>1, <2>3, <3>1 DEF ObjectInv, OneObject
    <3> QED BY <1>1, <1>2, <3>2, <3>3 DEF Stopped
  <2> QED BY <1>2, <2>1, <2>2, <2>3 DEF Recovers
<1> QED BY <1>3, <1>4, <1>5 DEF DurableInv, ObjectInv

\* The objects that start() makes are queued in the order of their lines.
LEMMA RecoverDurable ==
  ASSUME Durable, IInv, QueueInv, DurableInv, RecoverOne
  PROVE  DurableInv'
<1>1. /\ ObjectInv /\ Ended /\ Lines /\ Stopped /\ FileMatchesMemory /\ PendingFifo /\ Recovers
      /\ file \in Seq(Jobs) /\ toRecover \in Seq(Jobs)
      /\ \A i \in DOMAIN pending : pending[i] \in Obj
  BY DurableFacts
<1>2. /\ toRecover # <<>> /\ toRecover' = Tail(toRecover)
      /\ UNCHANGED <<running, dispatcher, stopping, task, eventSet, file, torn, outcome>>
  BY DEF RecoverOne, fileVars
<1>3. /\ Len(toRecover) \in Nat \ {0} /\ DOMAIN toRecover = 1..Len(toRecover)
      /\ toRecover[1] \in Jobs
      /\ Len(toRecover') = Len(toRecover) - 1 /\ DOMAIN toRecover' = 1..(Len(toRecover) - 1)
      /\ \A i \in 1..(Len(toRecover) - 1) : toRecover'[i] = toRecover[i + 1]
  <2>1. Len(toRecover) \in Nat \ {0} /\ DOMAIN toRecover = 1..Len(toRecover)
    BY <1>1, <1>2, EmptySeq, LenProperties
  <2>2. /\ Tail(toRecover) \in Seq(Jobs) /\ Len(Tail(toRecover)) = Len(toRecover) - 1
        /\ \A i \in 1..(Len(toRecover) - 1) : Tail(toRecover)[i] = toRecover[i + 1]
    BY <1>1, <1>2, HeadTailProperties
  <2>3. DOMAIN Tail(toRecover) = 1..(Len(toRecover) - 1)
    BY <2>2, LenProperties
  <2> QED BY <1>1, <1>2, <2>1, <2>2, <2>3, ElementOfSeq
<1>j. PICK j \in Jobs : j = toRecover[1]
  BY <1>3
<1>4. /\ Len(file) \in Nat /\ DOMAIN file = 1..Len(file)
      /\ \A i \in DOMAIN file : file[i] \in Jobs /\ LineOf(file[i]) = i
      /\ \A a \in Elements(file) : LineOf(a) \in DOMAIN file /\ file[LineOf(a)] = a
  BY <1>1, LineFacts
<1> DEFINE at == Len(file) - Len(toRecover) + 1
<1>5. /\ at \in DOMAIN file /\ file[at] = j /\ jobs[j] = NoObj
      /\ LineOf(j) = at /\ j \in Elements(file)
  <2>1. /\ toRecover[1] = file[Len(file) - Len(toRecover) + 1] /\ jobs[toRecover[1]] = NoObj
        /\ Len(toRecover) <= Len(file)
    BY <1>1, <1>3, SMTT(60) DEF Recovers
  <2>2. at \in DOMAIN file
    BY <1>3, <1>4, <2>1
  <2> QED BY <1>4, <1>j, <2>1, <2>2 DEF Elements
<1>6. PICK k \in 1..MaxCopies :
        LET p == <<j, k>> IN
        /\ jobs' = [jobs EXCEPT ![p[1]] = p]
        /\ status' = [status EXCEPT ![p] = "pending"]
        /\ pending' = InsertByPriority(pending, p)
  BY <1>j DEF RecoverOne
<1>o. PICK o \in Obj : o = <<j, k>>
  <2>1. <<j, k>> \in Obj
    BY JobQueueAssumption DEF Obj
  <2> QED BY <2>1
<1>7. o[1] = j
  BY <1>o
<1>8. /\ jobs' = [jobs EXCEPT ![j] = o]
      /\ status' = [status EXCEPT ![o] = "pending"]
      /\ pending' = InsertByPriority(pending, o)
  BY <1>6, <1>o
<1>9. /\ ObjectInv' /\ Ended'
      /\ \A m \in Jobs : \/ /\ m = j
                            /\ jobs'[m] = o /\ status'[o] = "pending"
                         \/ /\ m # j
                            /\ jobs'[m] = jobs[m]
                            /\ jobs[m] # NoObj => status'[jobs[m]] = status[jobs[m]]
  BY <1>2, <1>5, <1>7, <1>8, NewDurable, ZenonT(60)
<1>10. /\ file' = file /\ torn' = torn /\ outcome' = outcome
       /\ Elements(file)' = Elements(file) /\ \A a : LineOf(a)' = LineOf(a)
  BY <1>2 DEF Elements, LineOf
<1>11. Lines'
  BY <1>1, <1>9, <1>10 DEF Lines, Ended
<1>12. Recovers'
  <2>1. running'
    BY <1>1, <1>2 DEF Recovers
  <2>2. ASSUME NEW i \in DOMAIN toRecover'
        PROVE  /\ toRecover'[i] = file[Len(file) - Len(toRecover') + i]
               /\ jobs'[toRecover'[i]] = NoObj
    <3>1. /\ i + 1 \in DOMAIN toRecover /\ toRecover'[i] = toRecover[i + 1]
          /\ Len(file) - Len(toRecover') + i = Len(file) - Len(toRecover) + (i + 1)
      BY <1>3, <1>4, <2>2
    <3>2. /\ toRecover'[i] = file[Len(file) - Len(toRecover) + (i + 1)]
          /\ jobs[toRecover'[i]] = NoObj
      BY <1>1, <3>1 DEF Recovers
    <3>3. Len(file) - Len(toRecover) + (i + 1) \in DOMAIN file /\ Len(file) - Len(toRecover) + (i + 1) # at
      BY <1>1, <1>3, <1>4, <2>2 DEF Recovers
    <3>4. toRecover'[i] \in Jobs /\ toRecover'[i] # j
      BY <1>1, <1>4, <1>5, <3>2, <3>3 DEF Lines
    <3> QED BY <1>9, <3>1, <3>2, <3>4
  <2>3. Len(toRecover') <= Len(file')
    BY <1>1, <1>3, <1>4, <1>10 DEF Recovers
  <2> QED BY <1>10, <2>1, <2>2, <2>3 DEF Recovers
<1>13. Stopped'
  <2>1. running /\ running' = running /\ stopping' = stopping /\ dispatcher' = dispatcher
    BY <1>1, <1>2 DEF Recovers
  <2> QED BY <1>1, <2>1 DEF Stopped
<1>14. FileMatchesMemory'
  <2> SUFFICES ASSUME NEW m \in Jobs
               PROVE  IF jobs'[m] # NoObj
                      THEN m \in Elements(file) <=> status'[jobs'[m]] \notin Terminal
                      ELSE m \in Elements(file) => outcome[m] = "none"
    BY <1>10 DEF FileMatchesMemory
  <2>1. CASE m = j
    <3>1. jobs'[m] = o /\ o # NoObj /\ status'[o] = "pending" /\ m \in Elements(file)
      BY <1>5, <1>7, <1>9, <2>1, JobQueueAssumption
    <3> QED BY <3>1 DEF Terminal
  <2>2. CASE m # j
    BY <1>1, <1>9, <2>2 DEF FileMatchesMemory
  <2> QED BY <2>1, <2>2
<1>15. PendingFifo'
  <2>1. ASSUME NEW a \in Jobs, \E i \in DOMAIN pending : pending[i][1] = a
        PROVE  /\ a # j
               /\ a \in Elements(file) => LineOf(a) < at
    <3>1. jobs[a] # NoObj
      BY <2>1 DEF IInv, Registered
    <3>2. ASSUME a \in Elements(file), ~(LineOf(a) < at) PROVE FALSE
      <4> DEFINE i == LineOf(a) - (Len(file) - Len(toRecover))
      <4>1. LineOf(a) \in DOMAIN file /\ file[LineOf(a)] = a
        BY <1>4, <3>2
      <4>2. i \in DOMAIN toRecover /\ Len(file) - Len(toRecover) + i = LineOf(a)
        BY <1>3, <1>4, <3>2, <4>1
      <4> HIDE DEF i
      <4>3. toRecover[i] = a /\ jobs[toRecover[i]] = NoObj
        BY <1>1, <4>1, <4>2 DEF Recovers
      <4> QED BY <3>1, <4>3
    <3> QED BY <1>5, <3>1, <3>2
  <2>2. \A a \in Jobs : (\E i \in DOMAIN pending : pending[i][1] = a) =>
           /\ a # o[1]
           /\ a \in Elements(file)' =>
                /\ a \in Elements(file)
                /\ LineOf(a)' = LineOf(a)
                /\ LineOf(a)' < LineOf(o[1])'
    <3>1. LineOf(o[1])' = at
      BY <1>5, <1>7, <1>10
    <3> HIDE DEF at
    <3> QED BY <1>7, <1>10, <2>1, <3>1
  <2>3. PendingByPriority
    BY DEF QueueInv
  <2> QED BY <1>1, <1>7, <1>8, <2>2, <2>3, NewFifo
<1> QED BY <1>9, <1>11, <1>12, <1>13, <1>14, <1>15 DEF DurableInv, ObjectInv

\* An object goes from one status to another; the event is set when, and only
\* when, that is an end and no callback is awaited.
LEMMA ObjectMoves ==
  ASSUME IInv, QueueInv, DurableInv, NEW o \in Obj, NEW s \in Status,
         status[o] # "absent", s # "absent",
         status' = [status EXCEPT ![o] = s], jobs' = jobs,
         \A p \in Obj : p # o => task'[p] = task[p] /\ (p \in eventSet' <=> p \in eventSet),
         s = "running" => task'[o] = "running",
         o \in eventSet' <=> s \in Terminal /\ task'[o] # "callback",
         \A j \in Jobs : j # o[1] => outcome'[j] = outcome[j],
         s \in Terminal => outcome'[o[1]] = s
  PROVE  /\ ObjectInv' /\ Ended'
         /\ jobs[o[1]] = o /\ status'[o] = s
         /\ \A j \in Jobs : j # o[1] /\ jobs[j] # NoObj => status'[jobs[j]] = status[jobs[j]]
<1>1. /\ ObjectInv /\ Ended
      /\ \A j \in Jobs : jobs[j] # NoObj => jobs[j] \in Obj /\ jobs[j][1] = j
      /\ status \in [Obj -> Status] /\ NoObj \notin Obj
  BY DurableFacts
<1>2. /\ o[1] \in Jobs /\ jobs' = jobs
      /\ status'[o] = s /\ \A p \in Obj : p # o => status'[p] = status[p]
  BY <1>1, ObjFacts
<1>3. jobs[o[1]] = o
  BY <1>1 DEF ObjectInv, OneObject
<1>4. ASSUME NEW j \in Jobs, j # o[1], jobs[j] # NoObj
      PROVE  jobs[j] \in Obj /\ jobs[j] # o /\ status'[jobs[j]] = status[jobs[j]]
  BY <1>1, <1>2, <1>4
<1>5. OneObject'
  BY <1>1, <1>2 DEF ObjectInv, OneObject
<1>6. NoneStranded'
  <2> SUFFICES ASSUME NEW p \in Obj
               PROVE  /\ status'[p] = "running" => task'[p] = "running"
                      /\ p \in eventSet' => status'[p] # "absent"
    BY DEF NoneStranded
  <2>1. CASE p = o
    BY <1>2, <2>1
  <2>2. CASE p # o
    BY <1>1, <1>2, <2>2 DEF ObjectInv, NoneStranded
  <2> QED BY <2>1, <2>2
<1>7. EventIffFinished'
  <2> SUFFICES ASSUME NEW j \in Jobs, jobs[j] # NoObj
               PROVE  jobs[j] \in eventSet' <=>
                        status'[jobs[j]] \in Terminal /\ task'[jobs[j]] # "callback"
    BY <1>2 DEF EventIffFinished
  <2>1. CASE j = o[1]
    BY <1>2, <1>3, <2>1
  <2>2. CASE j # o[1]
    <3>1. jobs[j] \in eventSet <=> status[jobs[j]] \in Terminal /\ task[jobs[j]] # "callback"
      BY <1>1 DEF ObjectInv, EventIffFinished
    <3>2. task'[jobs[j]] = task[jobs[j]] /\ (jobs[j] \in eventSet' <=> jobs[j] \in eventSet)
      BY <1>4, <2>2
    <3> QED BY <1>4, <2>2, <3>1, <3>2
  <2> QED BY <2>1, <2>2
<1>8. Ended'
  <2> SUFFICES ASSUME NEW j \in Jobs, jobs[j] # NoObj, status'[jobs[j]] \in Terminal
               PROVE  outcome'[j] = status'[jobs[j]]
    BY <1>2 DEF Ended
  <2>1. CASE j = o[1]
    BY <1>2, <1>3, <2>1
  <2>2. CASE j # o[1]
    BY <1>1, <1>4, <2>2 DEF Ended
  <2> QED BY <2>1, <2>2
<1>9. ObjectInv'
  BY <1>5, <1>6, <1>7 DEF ObjectInv
<1> QED BY <1>2, <1>3, <1>4, <1>8, <1>9

\* Where only objects are dropped and the order of lines is kept, FIFO is kept.
LEMMA FifoKept ==
  ASSUME IInv, PendingFifo, DOMAIN pending' \subseteq Nat,
         \A a, b \in Elements(file)' :
           /\ a \in Elements(file) /\ b \in Elements(file)
           /\ LineOf(a) < LineOf(b) => LineOf(a)' < LineOf(b)',
         NEW old \in [DOMAIN pending' -> DOMAIN pending],
         \A i \in DOMAIN pending' : pending'[i] = pending[old[i]],
         \A i, k \in DOMAIN pending' : i < k => old[i] < old[k]
  PROVE  PendingFifo'
<1> SUFFICES ASSUME NEW i \in DOMAIN pending', NEW k \in DOMAIN pending', i < k,
                    NEW a \in Jobs, NEW b \in Jobs, a = pending'[i][1], b = pending'[k][1],
                    Priority[a] = Priority[b], a \in Elements(file)', b \in Elements(file)'
             PROVE  LineOf(a)' < LineOf(b)'
  <2>1. \A i \in DOMAIN pending' : pending'[i][1] \in Jobs
    BY QueueFacts
  <2> QED BY <2>1 DEF PendingFifo
<1>1. /\ old[i] \in DOMAIN pending /\ old[k] \in DOMAIN pending /\ old[i] < old[k]
      /\ a = pending[old[i]][1] /\ b = pending[old[k]][1]
  OBVIOUS
<1>2. a \in Elements(file) /\ b \in Elements(file)
  OBVIOUS
<1>3. LineOf(a) < LineOf(b)
  BY <1>1, <1>2 DEF PendingFifo
<1> QED BY <1>3

\* An unfinished job ends: its line goes, and with it maybe an object of its id
\* from the queue.
LEMMA JobEnds ==
  ASSUME Durable, IInv, QueueInv, DurableInv, toRecover = <<>>, toRecover' = <<>>,
         NEW o \in Obj, NEW s \in Terminal,
         status[o] \in {"pending", "running"},
         status' = [status EXCEPT ![o] = s], jobs' = jobs, torn' = torn,
         outcome' = [outcome EXCEPT ![o[1]] = s],
         \A p \in Obj : p # o => task'[p] = task[p] /\ (p \in eventSet' <=> p \in eventSet),
         o \in eventSet' <=> task'[o] # "callback",
         file' = Unpersisted(o[1]),
         UNCHANGED <<running, dispatcher, stopping>>,
         pending' \in Seq(Obj),
         NEW old \in [DOMAIN pending' -> DOMAIN pending],
         \A i \in DOMAIN pending' : pending'[i] = pending[old[i]],
         \A i, k \in DOMAIN pending' : i < k => old[i] < old[k]
  PROVE  DurableInv'
<1>1. /\ Ended /\ Lines /\ Stopped /\ FileMatchesMemory /\ PendingFifo /\ file \in Seq(Jobs)
      /\ o[1] \in Jobs
  BY DurableFacts, ObjFacts
<1>2. s \in Status /\ s # "absent" /\ s # "running" /\ outcome \in [Jobs -> Terminal \cup {"none"}]
  BY DEF Status, Terminal, IInv, TypeOK
<1>3. \A j \in Jobs : outcome'[j] = IF j = o[1] THEN s ELSE outcome[j]
  BY <1>1, <1>2
<1>4. /\ ObjectInv' /\ Ended'
      /\ jobs[o[1]] = o /\ status'[o] = s
      /\ \A j \in Jobs : j # o[1] /\ jobs[j] # NoObj => status'[jobs[j]] = status[jobs[j]]
  BY <1>1, <1>2, <1>3, ObjectMoves, ZenonT(60)
<1>5. /\ \A i, k \in DOMAIN file' : file'[i] = file'[k] => i = k
      /\ Elements(file)' = Elements(file) \ {o[1]}
      /\ \A a, b \in Elements(file)' : LineOf(a) < LineOf(b) => LineOf(a)' < LineOf(b)'
  BY <1>1, DropLine
<1>6. file' \in Seq(Jobs)
  BY <1>1, UnpersistedType
<1>7. Lines'
  <2>1. \A k \in Elements(file)' : outcome'[k] = "none"
    <3>1. \A k \in Elements(file) : k \in Jobs
      BY <1>1, LineFacts
    <3> QED BY <1>1, <1>3, <1>5, <3>1 DEF Lines
  <2>2. torn' = "no"
    BY <1>1 DEF Lines
  <2> QED BY <1>4, <1>5, <2>1, <2>2 DEF Lines, Ended
<1>8. Recovers'
  <2>1. Len(file') \in Nat
    BY <1>6, LenProperties
  <2>2. DOMAIN toRecover' = {} /\ Len(toRecover') = 0
    OBVIOUS
  <2> QED BY <2>1, <2>2 DEF Recovers
<1>9. Stopped'
  <2>1. running' = running /\ stopping' = stopping /\ dispatcher' = dispatcher
    OBVIOUS
  <2>2. ASSUME pending = <<>> PROVE pending' = <<>>
    <3>1. DOMAIN pending = {}
      BY <2>2
    <3>2. DOMAIN pending' = {}
      BY <3>1
    <3>3. Len(pending') \in Nat /\ DOMAIN pending' = 1..Len(pending')
      BY LenProperties
    <3>4. Len(pending') = 0
      BY <3>2, <3>3
    <3> QED BY <3>4, EmptySeq
  <2>3. running \/ stopping
    BY <1>1 DEF Stopped, Terminal
  <2> QED BY <1>1, <2>1, <2>2, <2>3 DEF Stopped
<1>10. FileMatchesMemory'
  <2> SUFFICES ASSUME NEW j \in Jobs
               PROVE  IF jobs[j] # NoObj
                      THEN j \in Elements(file)' <=> status'[jobs[j]] \notin Terminal
                      ELSE j \in Elements(file)' => outcome'[j] = "none"
    BY DEF FileMatchesMemory
  <2>1. CASE j = o[1]
    BY <1>4, <1>5, <2>1, JobQueueAssumption
  <2>2. CASE j # o[1]
    BY <1>1, <1>3, <1>4, <1>5, <2>2 DEF FileMatchesMemory
  <2> QED BY <2>1, <2>2
<1>11. PendingFifo'
  <2>1. DOMAIN pending' \subseteq Nat
    <3>1. Len(pending') \in Nat /\ DOMAIN pending' = 1..Len(pending')
      BY LenProperties
    <3> QED BY <3>1
  <2>2. \A a, b \in Elements(file)' :
           /\ a \in Elements(file) /\ b \in Elements(file)
           /\ LineOf(a) < LineOf(b) => LineOf(a)' < LineOf(b)'
    BY <1>5
  <2> QED BY <1>1, <2>1, <2>2, FifoKept
<1> QED BY <1>4, <1>7, <1>8, <1>9, <1>10, <1>11 DEF DurableInv, ObjectInv

LEMMA CancelDurable ==
  ASSUME Durable, IInv, QueueInv, DurableInv, toRecover = <<>>,
         NEW j \in Jobs, CancelPending(j)
  PROVE  DurableInv'
<1>1. PICK o \in Obj : o = jobs[j] /\ o[1] = j
  BY DurableFacts DEF CancelPending
<1>2. /\ status[o] = "pending" /\ status' = [status EXCEPT ![o] = "cancelled"]
      /\ eventSet' = eventSet \cup {o}
      /\ outcome' = [outcome EXCEPT ![o[1]] = "cancelled"]
      /\ file' = Unpersisted(o[1])
      /\ UNCHANGED <<running, dispatcher, stopping, toRecover, jobs, task, torn>>
  BY <1>1, DurableDisk DEF CancelPending, loopVars, Durable
<1>3. PICK old \in [DOMAIN pending' -> DOMAIN pending] :
         /\ \A i \in DOMAIN pending' : pending'[i] = pending[old[i]]
         /\ \A i, k \in DOMAIN pending' :
              (i < k <=> old[i] < old[k]) /\ (old[i] = old[k] => i = k)
  BY CancelFacts DEF QueueInv
<1>4. pending' \in Seq(Obj)
  BY CancelFacts DEF QueueInv
<1>5. task'[o] # "callback"
  BY <1>2 DEF QueueInv, Stages
<1>6. "cancelled" \in Terminal
  BY DEF Terminal
<1> QED BY <1>2, <1>3, <1>4, <1>5, <1>6, JobEnds

LEMMA FinishDurable ==
  ASSUME Durable, IInv, QueueInv, DurableInv, toRecover = <<>>,
         NEW o \in Obj, NEW st \in Terminal, NEW next \in {"finished", "callback"},
         task[o] = "running", Finish(o, st, next)
  PROVE  DurableInv'
<1>1. status[o] = "running" /\ jobs[o[1]] = o
  BY DurableFacts DEF QueueInv, Stages, ObjectInv, OneObject
<1>2. /\ status' = [status EXCEPT ![o] = st]
      /\ task' = [task EXCEPT ![o] = next]
      /\ eventSet' = IF next = "finished" THEN eventSet \cup {o} ELSE eventSet
      /\ outcome' = [outcome EXCEPT ![o[1]] = st]
      /\ file' = Unpersisted(o[1])
      /\ UNCHANGED <<running, dispatcher, stopping, toRecover, jobs, pending, torn>>
  BY <1>1, DurableDisk DEF Finish, loopVars, queueVars
<1>3. o \notin eventSet
  BY <1>1, DurableFacts, ObjFacts, JobQueueAssumption, ZenonT(60) DEF EventIffFinished, Terminal
<1>4. task'[o] = next /\ \A p \in Obj : p # o => task'[p] = task[p]
  BY <1>2, DurableFacts
<1>5. o \in eventSet' <=> task'[o] # "callback"
  BY <1>2, <1>3, <1>4
<1>6. \A p \in Obj : p # o => task'[p] = task[p] /\ (p \in eventSet' <=> p \in eventSet)
  BY <1>2, <1>4
<1> DEFINE same == [i \in DOMAIN pending |-> i]
<1>7. same \in [DOMAIN pending' -> DOMAIN pending] /\ \A i \in DOMAIN pending' : same[i] = i
  BY <1>2
<1> HIDE DEF same
<1>8. \E old \in [DOMAIN pending' -> DOMAIN pending] : \A i \in DOMAIN pending' : old[i] = i
  BY <1>7
<1>9. PICK old \in [DOMAIN pending' -> DOMAIN pending] : \A i \in DOMAIN pending' : old[i] = i
  BY <1>8
<1>10. pending' \in Seq(Obj)
  BY <1>2, QueueFacts
<1>11. \A i \in DOMAIN pending' : pending'[i] = pending[old[i]]
  BY <1>2, <1>9
<1>12. \A i, k \in DOMAIN pending' : i < k => old[i] < old[k]
  BY <1>9
<1> QED BY <1>1, <1>2, <1>5, <1>6, <1>10, <1>11, <1>12, JobEnds

\* A step of a task that ends nothing.
LEMMA TaskDurable ==
  ASSUME IInv, QueueInv, DurableInv, NEW o \in Obj, NEW s \in Status,
         status[o] # "absent", s # "absent",
         s \in Terminal <=> status[o] \in Terminal,
         s \in Terminal => s = status[o],
         status' = [status EXCEPT ![o] = s],
         s = "running" => task'[o] = "running",
         s \in Terminal => task'[o] # "callback" /\ o \in eventSet',
         s \notin Terminal => o \notin eventSet',
         \A p \in Obj : p # o => task'[p] = task[p] /\ (p \in eventSet' <=> p \in eventSet),
         UNCHANGED <<running, dispatcher, stopping, toRecover, pending, jobs, file, torn, outcome>>
  PROVE  DurableInv'
<1>1. /\ Ended /\ Lines /\ Stopped /\ FileMatchesMemory /\ PendingFifo /\ Recovers
      /\ \A j \in Jobs : jobs[j] # NoObj => jobs[j] \in Obj /\ jobs[j][1] = j
      /\ ObjectInv /\ o[1] \in Jobs /\ status \in [Obj -> Status]
  BY DurableFacts, ObjFacts
<1>2. jobs[o[1]] = o /\ o # NoObj
  BY <1>1, JobQueueAssumption DEF ObjectInv, OneObject
<1>3. s \in Terminal => outcome'[o[1]] = s
  BY <1>1, <1>2 DEF Ended
<1>4. /\ ObjectInv' /\ Ended'
      /\ status'[o] = s
      /\ \A j \in Jobs : j # o[1] /\ jobs[j] # NoObj => status'[jobs[j]] = status[jobs[j]]
  BY <1>3, ObjectMoves, ZenonT(60)
<1>5. /\ file' = file /\ torn' = torn /\ outcome' = outcome /\ jobs' = jobs /\ pending' = pending
      /\ running' = running /\ stopping' = stopping /\ dispatcher' = dispatcher /\ toRecover' = toRecover
  OBVIOUS
<1>6. Lines' /\ Recovers' /\ PendingFifo'
  BY <1>1, <1>4, <1>5 DEF Lines, Ended, Recovers, PendingFifo, LineOf, Elements
<1>7. Stopped'
  <2>1. \A p \in Obj : status[p] \in {"absent"} \cup Terminal => status'[p] \in {"absent"} \cup Terminal
    BY <1>1
  <2> QED BY <1>1, <1>5, <2>1 DEF Stopped
<1>8. FileMatchesMemory'
  <2> SUFFICES ASSUME NEW j \in Jobs
               PROVE  IF jobs[j] # NoObj
                      THEN j \in Elements(file) <=> status'[jobs[j]] \notin Terminal
                      ELSE j \in Elements(file) => outcome[j] = "none"
    BY <1>5 DEF FileMatchesMemory, Elements
  <2>1. CASE j = o[1]
    BY <1>1, <1>2, <1>4, <2>1 DEF FileMatchesMemory
  <2>2. CASE j # o[1]
    BY <1>1, <1>4, <2>2 DEF FileMatchesMemory
  <2> QED BY <2>1, <2>2
<1> QED BY <1>4, <1>6, <1>7, <1>8 DEF DurableInv, ObjectInv

LEMMA RunDurable ==
  ASSUME Durable, IInv, QueueInv, DurableInv, toRecover = <<>>, NEW o \in Obj, RunStep(o)
  PROVE  DurableInv'
<1>1. /\ ObjectInv /\ EventIffFinished /\ NoneStranded
      /\ status \in [Obj -> Status] /\ task \in [Obj -> TaskState]
      /\ o[1] \in Jobs /\ o # NoObj
  BY DurableFacts, ObjFacts, JobQueueAssumption DEF ObjectInv
<1>2. PICK s \in Status : s = status[o] /\ status = [status EXCEPT ![o] = s]
  BY <1>1
<1>3. /\ task[o] = "scheduled" => s \in {"pending", "cancelled"}
      /\ task[o] = "running" => s = "running"
      /\ task[o] = "callback" => s = "completed" /\ o \notin cancelReq /\ o[2] = 0
      /\ s = "running" => task[o] = "running"
  BY <1>1, <1>2 DEF QueueInv, Stages, NoneStranded
<1>4. ASSUME task[o] # "none"
      PROVE  /\ s # "absent" /\ jobs[o[1]] = o
             /\ o \in eventSet <=> s \in Terminal /\ task[o] # "callback"
  <2>1. s # "absent"
    BY <1>2, <1>4 DEF QueueInv, Created
  <2>2. jobs[o[1]] = o
    BY <1>1, <1>2, <2>1 DEF ObjectInv, OneObject
  <2> QED BY <1>1, <1>2, <2>1, <2>2 DEF EventIffFinished
<1>5. CASE RunSkipped(o)
  <2>1. /\ task[o] = "scheduled" /\ task' = [task EXCEPT ![o] = "finished"]
        /\ status' = status /\ eventSet' = eventSet
        /\ UNCHANGED <<running, dispatcher, stopping, toRecover, pending, jobs, file, torn, outcome>>
    BY <1>5 DEF RunSkipped, loopVars, queueVars, fileVars
  <2>2. task'[o] = "finished" /\ \A p \in Obj : p # o => task'[p] = task[p]
    BY <1>1, <2>1
  <2> QED BY <1>2, <1>3, <1>4, <2>1, <2>2, TaskDurable
<1>6. CASE RunBegins(o)
  <2>1. /\ task[o] = "scheduled" /\ task' = [task EXCEPT ![o] = "running"]
        /\ status[o] # "cancelled"
        /\ status' = [status EXCEPT ![o] = "running"] /\ eventSet' = eventSet
        /\ UNCHANGED <<running, dispatcher, stopping, toRecover, pending, jobs, file, torn, outcome>>
    BY <1>6 DEF RunBegins, loopVars, queueVars, fileVars, Durable
  <2>2. task'[o] = "running" /\ \A p \in Obj : p # o => task'[p] = task[p]
    BY <1>1, <2>1
  <2>3. status[o] = "pending" /\ o \notin eventSet
    BY <1>2, <1>3, <1>4, <2>1 DEF Terminal
  <2>4. "running" \in Status /\ "running" \notin Terminal /\ "pending" \notin Terminal
    BY DEF Status, Terminal
  <2> QED BY <2>1, <2>2, <2>3, <2>4, TaskDurable
<1>7. CASE RunCompletes(o)
  <2>1. task[o] = "running" /\ Finish(o, "completed", IF HasCallback(o) THEN "callback" ELSE "finished")
    BY <1>7 DEF RunCompletes
  <2> QED BY <2>1, FinishDurable DEF Terminal
<1>8. CASE RunFails(o)
  BY <1>8, FinishDurable DEF RunFails, Terminal
<1>9. CASE RunCancelled(o)
  <2>1. task[o] = "running" /\ Finish(o, "cancelled", "finished")
    BY <1>3, <1>9 DEF RunCancelled
  <2> QED BY <2>1, FinishDurable DEF Terminal
<1>10. CASE CallbackEnds(o)
  <2>1. /\ task[o] = "callback" /\ task' = [task EXCEPT ![o] = "finished"]
        /\ status' = status /\ eventSet' = eventSet \cup {jobs[o[1]]}
        /\ UNCHANGED <<running, dispatcher, stopping, toRecover, pending, jobs, file, torn, outcome>>
    BY <1>10 DEF CallbackEnds, loopVars, queueVars, fileVars
  <2>2. task'[o] = "finished" /\ \A p \in Obj : p # o => task'[p] = task[p]
    BY <1>1, <2>1
  <2>3. s = "completed" /\ eventSet' = eventSet \cup {o} /\ s \in Terminal
    BY <1>3, <1>4, <2>1 DEF Terminal
  <2>4. /\ status' = [status EXCEPT ![o] = s] /\ s = status[o] /\ s # "absent" /\ s # "running"
        /\ task'[o] # "callback" /\ o \in eventSet' /\ s \in Terminal /\ status[o] # "absent"
        /\ \A p \in Obj : p # o => task'[p] = task[p] /\ (p \in eventSet' <=> p \in eventSet)
    BY <1>2, <2>1, <2>2, <2>3
  <2>5. UNCHANGED <<running, dispatcher, stopping, toRecover, pending, jobs, file, torn, outcome>>
    BY <2>1
  <2> QED BY <2>4, <2>5, TaskDurable
<1>11. CASE Cleanup(o)
  <2>1. /\ task[o] = "finished" /\ task' = [task EXCEPT ![o] = "none"]
        /\ status' = status /\ eventSet' = eventSet
        /\ UNCHANGED <<running, dispatcher, stopping, toRecover, pending, jobs, file, torn, outcome>>
    BY <1>11 DEF Cleanup, loopVars, fileVars
  <2>2. task'[o] = "none" /\ \A p \in Obj : p # o => task'[p] = task[p]
    BY <1>1, <2>1
  <2> QED BY <1>2, <1>3, <1>4, <2>1, <2>2, TaskDurable
<1> QED BY <1>5, <1>6, <1>7, <1>8, <1>9, <1>10, <1>11 DEF RunStep

LEMMA DurableFrame ==
  ASSUME DurableInv,
         UNCHANGED <<running, dispatcher, stopping, toRecover, pending, jobs, status, eventSet,
                     task, file, torn, outcome>>
  PROVE  DurableInv'
<1>1. OneObject' /\ NoneStranded' /\ Lines' /\ Recovers' /\ Stopped'
  BY DEF DurableInv, OneObject, NoneStranded, Lines, Recovers, Stopped, Elements
<1>2. EventIffFinished' /\ FileMatchesMemory' /\ PendingFifo'
  BY DEF DurableInv, EventIffFinished, FileMatchesMemory, PendingFifo, LineOf, Elements
<1> QED BY <1>1, <1>2 DEF DurableInv

\* Steps of start(), stop() and the dispatcher that leave objects and lines alone.
LEMMA LoopDurable ==
  ASSUME IInv, QueueInv, DurableInv, toRecover = <<>>, toRecover' = <<>>,
         UNCHANGED <<jobs, status, eventSet, file, torn, outcome>>,
         \A o \in Obj : status[o] = "running" => task'[o] = task[o],
         \A o \in Obj : task'[o] = "callback" <=> task[o] = "callback",
         Stopped', PendingFifo'
  PROVE  DurableInv'
<1>1. /\ ObjectInv /\ Lines /\ FileMatchesMemory /\ file \in Seq(Jobs)
      /\ \A j \in Jobs : jobs[j] # NoObj => jobs[j] \in Obj
  BY DurableFacts
<1>2. ObjectInv'
  BY <1>1 DEF ObjectInv, OneObject, NoneStranded, EventIffFinished
<1>3. Lines' /\ FileMatchesMemory'
  BY <1>1 DEF Lines, FileMatchesMemory, Elements
<1>4. Recovers'
  <2>1. Len(file') \in Nat /\ DOMAIN toRecover' = {} /\ Len(toRecover') = 0
    BY <1>1, LenProperties
  <2> QED BY <2>1 DEF Recovers
<1> QED BY <1>2, <1>3, <1>4 DEF DurableInv, ObjectInv

LEMMA StopDurable ==
  ASSUME IInv, QueueInv, DurableInv, toRecover = <<>>, Stop
  PROVE  DurableInv'
<1>1. Stopped /\ PendingFifo
  BY DurableFacts
<1>2. /\ running /\ ~running' /\ stopping' /\ dispatcher' = Woken
      /\ UNCHANGED <<toRecover, pending, jobs, status, eventSet, task, file, torn, outcome>>
  BY DEF Stop, queueVars, fileVars
<1>3. Stopped'
  BY <1>1, <1>2 DEF Stopped, Woken
<1>4. PendingFifo'
  BY <1>1, <1>2 DEF PendingFifo, LineOf, Elements
<1> QED BY <1>2, <1>3, <1>4, LoopDurable

\* When stop() returns nothing is left that could still run.
LEMMA StopReturnsDurable ==
  ASSUME IInv, QueueInv, DurableInv, toRecover = <<>>, StopReturns
  PROVE  DurableInv'
<1>1. Stopped /\ PendingFifo /\ ObjectInv /\ status \in [Obj -> Status] /\ NoObj \notin Obj
  BY DurableFacts
<1>2. /\ stopping /\ ~stopping' /\ running' = running /\ dispatcher = "exited" /\ dispatcher' = "absent"
      /\ UNCHANGED <<toRecover, pending, jobs, status, eventSet, task, file, torn, outcome>>
  BY DEF StopReturns, queueVars, fileVars
<1>3. \A o \in Obj : task[o] = "none"
  BY DEF StopReturns, InFlight
<1>4. pending = <<>>
  BY <1>1, <1>2 DEF Stopped
<1>5. ASSUME NEW o \in Obj PROVE status[o] \in {"absent"} \cup Terminal
  <2>1. status[o] # "running"
    BY <1>1, <1>3 DEF ObjectInv, NoneStranded
  <2>2. ASSUME status[o] = "pending" PROVE FALSE
    <3>1. o[1] \in Jobs /\ jobs[o[1]] = o /\ o # NoObj
      BY <1>1, <2>2, ObjFacts DEF ObjectInv, OneObject
    <3>2. o \in Elements(pending) \/ task[o] = "scheduled"
      BY <2>2, <3>1 DEF QueueInv, PendingIsQueued
    <3> QED BY <1>3, <1>4, <3>2 DEF Elements
  <2> QED BY <1>1, <2>1, <2>2 DEF Status
<1>6. Stopped'
  <2>1. dispatcher' = "absent" /\ pending' = <<>> /\ ~stopping' /\ status' = status
    BY <1>2, <1>4
  <2> QED BY <1>5, <2>1 DEF Stopped
<1>7. PendingFifo'
  BY <1>1, <1>2 DEF PendingFifo, LineOf, Elements
<1> QED BY <1>2, <1>6, <1>7, LoopDurable

LEMMA DispatchExits ==
  ASSUME IInv, Dispatch
  PROVE  dispatcher' = "exited" => ~running /\ pending' = <<>>
<1> DEFINE free == MaxConcurrent - Cardinality(InFlight)
           n == IF Len(pending) <= free THEN Len(pending) ELSE free
<1>1. /\ pending \in Seq(Obj) /\ Len(pending) \in Nat /\ DOMAIN pending = 1..Len(pending)
  BY QueueFacts
<1>2. n \in Nat /\ n <= Len(pending)
  <2>1. Cardinality(InFlight) \in Nat /\ Cardinality(InFlight) <= MaxConcurrent
    BY FS_CardinalityType DEF IInv, Slots
  <2> QED BY <1>1, <2>1, JobQueueAssumption
<1>3. /\ pending' = SubSeq(pending, n + 1, Len(pending))
      /\ dispatcher' = IF n < Len(pending) THEN "slot" ELSE IF running THEN "asleep" ELSE "exited"
  BY DEF Dispatch
<1> HIDE DEF n
<1> SUFFICES ASSUME dispatcher' = "exited" PROVE ~running /\ pending' = <<>>
  OBVIOUS
<1>4. ~(n < Len(pending)) /\ ~running
  BY <1>3
<1>5. \A i \in (n + 1)..Len(pending) : pending[i] \in Obj
  BY <1>1, <1>2, ElementOfSeq
<1>6. /\ pending' \in Seq(Obj)
      /\ Len(pending') = IF n + 1 <= Len(pending) THEN Len(pending) - (n + 1) + 1 ELSE 0
  BY <1>1, <1>2, <1>3, <1>5, SubSeqProperties
<1>7. Len(pending') = 0
  <2>1. ~(n + 1 <= Len(pending))
    BY <1>1, <1>2, <1>4
  <2> QED BY <1>6, <2>1
<1> QED BY <1>4, <1>6, <1>7, EmptySeq

LEMMA DispatchDurable ==
  ASSUME IInv, QueueInv, DurableInv, toRecover = <<>>, Dispatch
  PROVE  DurableInv'
<1>1. Stopped /\ PendingFifo
  BY DurableFacts
<1>2. /\ UNCHANGED <<running, stopping, toRecover, jobs, status, eventSet, file, torn, outcome>>
      /\ dispatcher \in {"ready", "slot"}
  BY DEF Dispatch, fileVars
<1>3. PICK n \in 0..Len(pending) :
        /\ DOMAIN pending' = 1..(Len(pending) - n)
        /\ \A i \in DOMAIN pending' : n + i \in DOMAIN pending /\ pending'[i] = pending[n + i]
        /\ \A o \in Obj : /\ (\E i \in 1..n : pending[i] = o) => task'[o] = "scheduled"
                          /\ (\A i \in 1..n : pending[i] # o) => task'[o] = task[o]
  BY DispatchFacts
<1>4. Len(pending) \in Nat /\ DOMAIN pending = 1..Len(pending)
  BY QueueFacts
<1>5. \A i \in 1..n : i \in DOMAIN pending
  BY <1>3, <1>4
<1>6. ASSUME NEW o \in Obj
      PROVE  /\ status[o] = "running" => task'[o] = task[o]
             /\ task'[o] = "callback" <=> task[o] = "callback"
  <2>1. CASE \E i \in 1..n : pending[i] = o
    <3>1. task[o] = "none" /\ status[o] # "running" /\ task'[o] = "scheduled"
      BY <1>3, <1>5, <2>1 DEF QueueInv, Stages
    <3> QED BY <3>1
  <2>2. CASE \A i \in 1..n : pending[i] # o
    BY <1>3, <2>2
  <2> QED BY <2>1, <2>2
<1>7. Stopped'
  <2>1. running \/ stopping
    BY <1>1, <1>2 DEF Stopped
  <2>2. dispatcher' = "exited" => ~running /\ pending' = <<>>
    BY DispatchExits
  <2> QED BY <1>1, <1>2, <2>1, <2>2 DEF Stopped
<1>8. PendingFifo'
  <2> DEFINE shift == [i \in DOMAIN pending' |-> n + i]
  <2>1. shift \in [DOMAIN pending' -> DOMAIN pending] /\ \A i \in DOMAIN pending' : shift[i] = n + i
    BY <1>3
  <2> HIDE DEF shift
  <2>2. PICK old \in [DOMAIN pending' -> DOMAIN pending] : \A i \in DOMAIN pending' : old[i] = n + i
    BY <2>1
  <2>3. \A i \in DOMAIN pending' : pending'[i] = pending[old[i]]
    BY <1>3, <2>2
  <2>4. DOMAIN pending' \subseteq Nat
    BY <1>3, <1>4
  <2>5. \A i, k \in DOMAIN pending' : i < k => old[i] < old[k]
    BY <1>3, <2>2, <2>4
  <2>6. \A a, b \in Elements(file)' :
           /\ a \in Elements(file) /\ b \in Elements(file)
           /\ LineOf(a) < LineOf(b) => LineOf(a)' < LineOf(b)'
    BY <1>2 DEF Elements, LineOf
  <2> QED BY <1>1, <2>3, <2>4, <2>5, <2>6, FifoKept
<1> QED BY <1>2, <1>6, <1>7, <1>8, LoopDurable

\* A process that has just started has the lines, and nothing else.
LEMMA CrashDurable ==
  ASSUME Durable, IInv, QueueInv, DurableInv, Crash
  PROVE  DurableInv'
<1>1. Lines /\ file \in Seq(Jobs)
  BY DurableFacts
<1>2. /\ ~running' /\ dispatcher' = "absent" /\ ~stopping' /\ toRecover' = <<>> /\ pending' = <<>>
      /\ \A j \in Jobs : jobs'[j] = NoObj
      /\ \A o \in Obj : status'[o] = "absent"
      /\ eventSet' = {} /\ file' = file /\ outcome' = outcome
  BY DEF Crash, DiesInSubmit, DiesInEnd, fileVars
<1>3. torn' = torn
  BY DEF Crash, DiesInSubmit, DiesInEnd, fileVars, Durable
<1>4. DOMAIN toRecover' = {} /\ Len(toRecover') = 0 /\ DOMAIN pending' = {}
  BY <1>2
<1>5. \A o \in Obj : o[1] \in Jobs
  BY ObjFacts
<1>6. OneObject' /\ NoneStranded' /\ EventIffFinished'
  BY <1>2, <1>5 DEF OneObject, NoneStranded, EventIffFinished
<1>7. Lines' /\ FileMatchesMemory'
  BY <1>1, <1>2, <1>3 DEF Lines, FileMatchesMemory, Elements
<1>8. Recovers'
  <2>1. Len(file') \in Nat
    BY <1>1, <1>2, LenProperties
  <2> QED BY <1>2, <1>4, <2>1 DEF Recovers
<1>9. Stopped' /\ PendingFifo'
  BY <1>2, <1>4 DEF Stopped, PendingFifo
<1> QED BY <1>6, <1>7, <1>8, <1>9 DEF DurableInv

LEMMA InitDurable == Init => DurableInv
<1> SUFFICES ASSUME Init PROVE DurableInv
  OBVIOUS
<1>1. /\ ~running /\ dispatcher = "absent" /\ ~stopping /\ toRecover = <<>> /\ pending = <<>>
      /\ \A j \in Jobs : jobs[j] = NoObj
      /\ \A o \in Obj : status[o] = "absent"
      /\ eventSet = {} /\ file = <<>> /\ torn = "no"
  BY DEF Init
<1>2. DOMAIN toRecover = {} /\ Len(toRecover) = 0 /\ DOMAIN pending = {} /\ DOMAIN file = {} /\ Len(file) = 0
  BY <1>1
<1>3. \A o \in Obj : o[1] \in Jobs
  BY ObjFacts
<1>4. OneObject /\ NoneStranded /\ EventIffFinished
  BY <1>1, <1>3 DEF OneObject, NoneStranded, EventIffFinished
<1>5. Lines /\ FileMatchesMemory /\ Recovers
  BY <1>1, <1>2 DEF Lines, FileMatchesMemory, Recovers, Elements
<1>6. Stopped /\ PendingFifo
  BY <1>1, <1>2 DEF Stopped, PendingFifo
<1> QED BY <1>4, <1>5, <1>6 DEF DurableInv

LEMMA NextDurable == Durable /\ IInv /\ QueueInv /\ DurableInv /\ [Next]_vars => DurableInv'
<1> SUFFICES ASSUME Durable, IInv, QueueInv, DurableInv, [Next]_vars PROVE DurableInv'
  OBVIOUS
<1>1. CASE UNCHANGED vars
  BY <1>1, DurableFrame DEF vars
<1>2. CASE RecoverOne
  BY <1>2, RecoverDurable
<1>3. ASSUME toRecover = <<>>, NEW j \in Jobs,
             Submit(j) \/ WaitFor(j) \/ CancelPending(j) \/ CancelRunning(j)
      PROVE  DurableInv'
  <2>1. CASE WaitFor(j)
    BY <2>1, DurableFrame DEF WaitFor, loopVars, queueVars, fileVars
  <2>2. CASE CancelRunning(j)
    BY <2>2, DurableFrame DEF CancelRunning, loopVars, queueVars, fileVars
  <2> QED BY <1>3, <2>1, <2>2, SubmitDurable, CancelDurable
<1>4. CASE toRecover = <<>> /\ (Start \/ Stop \/ StopReturns \/ Dispatch \/ Crash)
  BY <1>4, StartDurable, StopDurable, StopReturnsDurable, DispatchDurable, CrashDurable
<1>5. ASSUME toRecover = <<>>, NEW o \in Obj, RunStep(o) \/ WaitReturns(o)
      PROVE  DurableInv'
  <2>1. CASE WaitReturns(o)
    BY <2>1, DurableFrame DEF WaitReturns, loopVars, queueVars, fileVars
  <2> QED BY <1>5, <2>1, RunDurable
<1> QED BY <1>1, <1>2, <1>3, <1>4, <1>5 DEF Next, ClientCall

\* What clients may be told of a job, from its object and its line.
LEMMA ServiceFacts ==
  ASSUME IInv, QueueInv, DurableInv, NEW j \in Jobs
  PROVE  /\ ServiceState[j] = IF outcome[j] # "none" THEN outcome[j]
                              ELSE IF jobs[j] # NoObj /\ status[jobs[j]] = "running" THEN "running"
                              ELSE IF jobs[j] # NoObj \/ j \in Elements(file) THEN "queued"
                              ELSE "new"
         /\ jobs[j] # NoObj /\ status[jobs[j]] \notin Terminal =>
              j \in Elements(file) /\ outcome[j] = "none"
         /\ j \in Elements(file) => outcome[j] = "none"
         /\ outcome[j] \in Terminal \cup {"none"}
         /\ ServiceState[j] = "running" =>
              outcome[j] = "none" /\ jobs[j] # NoObj /\ status[jobs[j]] = "running"
<1>1. Lines /\ FileMatchesMemory
  BY DurableFacts
<1>2. jobs[j] # NoObj /\ status[jobs[j]] \notin Terminal => j \in Elements(file)
  BY <1>1 DEF FileMatchesMemory
<1>3. j \in Elements(file) => outcome[j] = "none"
  BY <1>1 DEF Lines
<1>4. outcome[j] \in Terminal \cup {"none"}
  BY DEF IInv, TypeOK
<1> QED BY <1>2, <1>3, <1>4 DEF ServiceState, Terminal

(***************************************************************************)
(* The audit log against the file.                                          *)
(***************************************************************************)

\* AuditExplained, for one job.
AuditOk(j) ==
  /\ jobs[j] # NoObj \/ j \in Elements(file) => audit[j].stage # "none"
  /\ audit[j].stage = "started" /\ outcome[j] = "none" => j \in Elements(file)
  /\ audit[j].ends > 0 /\ outcome[j] = "none" => j \in Elements(file)
  /\ outcome[j] # "none" => audit[j].ends > 0
  /\ audit[j].ends <= faults + (IF outcome[j] = "none" THEN 0 ELSE 1)

AuditInv == \A j \in Jobs : AuditOk(j)

\* A job of which a step touches neither the record, the line nor the outcome.
LEMMA AuditSame ==
  ASSUME IInv, NEW j \in Jobs, AuditOk(j), audit'[j] = audit[j],
         faults' = faults \/ faults' = faults + 1, outcome'[j] = outcome[j],
         j \in Elements(file)' <=> j \in Elements(file),
         jobs'[j] # NoObj => jobs[j] # NoObj \/ j \in Elements(file)
  PROVE  AuditOk(j)'
<1>1. audit[j] \in AuditOfJob /\ audit[j].ends \in Nat /\ faults \in Nat
  BY JobQueueAssumption DEF IInv, TypeOK, AuditOfJob
<1> QED BY <1>1 DEF AuditOk

\* A step that touches no record, line or outcome and registers no object.
LEMMA AuditFrame ==
  ASSUME IInv, AuditInv, UNCHANGED <<audit, file, outcome, jobs, faults>>
  PROVE  AuditInv'
BY AuditSame DEF AuditInv, Elements

LEMMA SubmitAudit ==
  ASSUME Durable, Audit = "kept", IInv, QueueInv, DurableInv, AuditInv,
         NEW j \in Jobs, Submit(j)
  PROVE  AuditInv'
<1>1. /\ jobs[j] = NoObj /\ outcome[j] = "none" /\ j \notin Elements(file)
      /\ audit[j].stage = "none" /\ outcome' = outcome /\ faults' = faults
      /\ jobs' = [jobs EXCEPT ![j] = <<j, 0>>]
      /\ audit' = [audit EXCEPT ![j].stage = "submitted"]
      /\ file' = Append(file, j)
  BY DurableDisk DEF Submit, Fresh, Durable, Recorded
<1>2. /\ audit \in [Jobs -> AuditOfJob] /\ audit[j] \in AuditOfJob /\ faults \in Nat
      /\ Lines /\ file \in Seq(Jobs) /\ jobs \in [Jobs -> Obj \cup {NoObj}]
  BY DurableFacts, JobQueueAssumption DEF IInv, TypeOK
<1>3. Elements(file)' = Elements(file) \cup {j}
  BY <1>1, <1>2, AppendLine
<1>4. AuditOk(j)'
  <2>1. audit'[j].stage = "submitted" /\ audit'[j].ends = audit[j].ends
    BY <1>1, <1>2 DEF AuditOfJob
  <2>2. audit[j].ends \in Nat /\ audit[j].ends <= faults
    BY <1>1, <1>2 DEF AuditInv, AuditOk, AuditOfJob
  <2> QED BY <1>1, <1>2, <1>3, <2>1, <2>2 DEF AuditOk
<1>5. ASSUME NEW k \in Jobs, k # j PROVE AuditOk(k)'
  <2>1. audit'[k] = audit[k] /\ jobs'[k] = jobs[k]
    BY <1>1, <1>2, <1>5
  <2> QED BY <1>1, <1>3, <1>5, <2>1, AuditSame DEF AuditInv
<1> QED BY <1>4, <1>5 DEF AuditInv

LEMMA RecoverAudit ==
  ASSUME IInv, QueueInv, DurableInv, AuditInv, RecoverOne
  PROVE  AuditInv'
<1>1. PICK j \in Jobs : j = toRecover[1] /\ j \in Elements(file)
  <2>1. /\ toRecover \in Seq(Jobs) /\ toRecover # <<>> /\ Recovers
        /\ file \in Seq(Jobs)
    BY DurableFacts DEF RecoverOne
  <2>2. /\ Len(toRecover) \in Nat \ {0} /\ DOMAIN toRecover = 1..Len(toRecover)
        /\ Len(file) \in Nat /\ DOMAIN file = 1..Len(file)
    BY <2>1, LenProperties, EmptySeq
  <2>3. 1 \in DOMAIN toRecover /\ Len(file) - Len(toRecover) + 1 \in DOMAIN file
    BY <2>1, <2>2 DEF Recovers
  <2>4. toRecover[1] = file[Len(file) - Len(toRecover) + 1] /\ toRecover[1] \in Jobs
    BY <2>1, <2>3, ElementOfSeq DEF Recovers
  <2> QED BY <2>3, <2>4 DEF Elements
<1>2. PICK o : jobs' = [jobs EXCEPT ![j] = o]
  BY <1>1 DEF RecoverOne
<1>3. UNCHANGED <<audit, file, outcome, faults>> /\ jobs \in [Jobs -> Obj \cup {NoObj}]
  BY DEF RecoverOne, fileVars, IInv, TypeOK
<1>4. \A k \in Jobs : jobs'[k] # NoObj => jobs[k] # NoObj \/ k \in Elements(file)
  BY <1>1, <1>2, <1>3
<1> QED BY <1>3, <1>4, AuditSame DEF AuditInv, Elements

\* A job without an outcome that ends now.
LEMMA EndAudit ==
  ASSUME Audit = "kept", IInv, QueueInv, DurableInv, AuditInv,
         NEW j \in Jobs, outcome[j] = "none", jobs[j] # NoObj,
         NEW st \in Terminal,
         outcome' = [outcome EXCEPT ![j] = st], audit' = EndRecorded(j),
         file' = Unpersisted(j), faults' = faults, jobs' = jobs
  PROVE  AuditInv'
<1>1. /\ audit \in [Jobs -> AuditOfJob] /\ audit[j] \in AuditOfJob /\ faults \in Nat
      /\ outcome \in [Jobs -> Terminal \cup {"none"}] /\ Lines
  BY DurableFacts, JobQueueAssumption DEF IInv, TypeOK
<1>2. Elements(file)' = Elements(file) \ {j}
  BY <1>1, DropLine
<1>3. audit' = [audit EXCEPT ![j].ends = @ + 1]
  BY DEF EndRecorded
<1>4. AuditOk(j)'
  <2>1. audit'[j].stage = audit[j].stage /\ audit'[j].ends = audit[j].ends + 1
    BY <1>1, <1>3 DEF AuditOfJob
  <2>2. audit[j].ends \in Nat /\ audit[j].ends <= faults /\ audit[j].stage # "none"
    BY <1>1 DEF AuditInv, AuditOk, AuditOfJob
  <2>3. outcome'[j] # "none"
    BY <1>1 DEF Terminal
  <2> QED BY <1>1, <2>1, <2>2, <2>3 DEF AuditOk
<1>5. ASSUME NEW k \in Jobs, k # j PROVE AuditOk(k)'
  <2>1. audit'[k] = audit[k] /\ outcome'[k] = outcome[k]
    BY <1>1, <1>3, <1>5
  <2> QED BY <1>2, <1>5, <2>1, AuditSame DEF AuditInv
<1> QED BY <1>4, <1>5 DEF AuditInv

\* A job that runs or is pending is in memory and in the file.
LEMMA CanEndFacts ==
  ASSUME IInv, QueueInv, DurableInv, NEW j \in Jobs, CanEnd(j)
  PROVE  jobs[j] # NoObj /\ outcome[j] = "none" /\ j \in Elements(file)
<1>1. jobs[j] # NoObj /\ status[jobs[j]] \notin Terminal
  <2>1. CASE jobs[j] # NoObj /\ status[jobs[j]] = "pending"
    BY <2>1 DEF Terminal
  <2>2. ASSUME NEW o \in Obj, o[1] = j,
               task[o] = "running" \/ (task[o] = "callback" /\ o \in cancelReq)
        PROVE  jobs[j] # NoObj /\ status[jobs[j]] \notin Terminal
    <3>1. status[o] = "running"
      BY <2>2 DEF QueueInv, Stages
    <3>2. jobs[j] = o
      BY <2>2, <3>1, DurableFacts DEF ObjectInv, OneObject
    <3> QED BY <3>1, <3>2, JobQueueAssumption DEF Terminal
  <2> QED BY <2>1, <2>2 DEF CanEnd
<1> QED BY <1>1, ServiceFacts

LEMMA RunEndAudit ==
  ASSUME Durable, Audit = "kept", IInv, QueueInv, DurableInv, AuditInv, NEW o \in Obj,
         RunCompletes(o) \/ RunFails(o) \/ RunCancelled(o)
  PROVE  AuditInv'
<1>1. o[1] \in Jobs /\ CanEnd(o[1])
  BY ObjFacts DEF CanEnd, RunCompletes, RunFails, RunCancelled
<1>2. PICK j \in Jobs : j = o[1]
  BY <1>1
<1>3. jobs[j] # NoObj /\ outcome[j] = "none"
  BY <1>1, <1>2, CanEndFacts
<1>4. PICK st \in Terminal : \E next : Finish(o, st, next)
  BY DEF RunCompletes, RunFails, RunCancelled, Terminal
<1>5. /\ outcome' = [outcome EXCEPT ![j] = st] /\ audit' = EndRecorded(j)
      /\ file' = Unpersisted(j) /\ faults' = faults /\ jobs' = jobs
  BY <1>2, <1>4, DurableDisk DEF Finish, queueVars
<1> QED BY <1>3, <1>5, EndAudit

LEMMA CancelAudit ==
  ASSUME Durable, Audit = "kept", IInv, QueueInv, DurableInv, AuditInv,
         NEW j \in Jobs, CancelPending(j)
  PROVE  AuditInv'
<1>1. CanEnd(j)
  BY DEF CanEnd, CancelPending
<1>2. jobs[j] # NoObj /\ outcome[j] = "none"
  BY <1>1, CanEndFacts
<1>3. "cancelled" \in Terminal
  BY DEF Terminal
<1>4. /\ outcome' = [outcome EXCEPT ![j] = "cancelled"] /\ audit' = EndRecorded(j)
      /\ file' = Unpersisted(j) /\ faults' = faults /\ jobs' = jobs
  BY DurableDisk DEF CancelPending, Durable
<1> QED BY <1>2, <1>3, <1>4, EndAudit

\* A job whose start is recorded is in the file.
LEMMA BeginAudit ==
  ASSUME Audit = "kept", IInv, QueueInv, DurableInv, AuditInv,
         NEW o \in Obj, RunBegins(o)
  PROVE  AuditInv'
<1>1. PICK j \in Jobs : j = o[1]
  BY ObjFacts
<1>2. /\ audit' = [audit EXCEPT ![j].stage = "started"]
      /\ UNCHANGED <<file, outcome, jobs, faults>>
      /\ status[o] = "pending"
  BY <1>1 DEF RunBegins, Recorded, queueVars, QueueInv, Stages
<1>3. jobs[j] = o /\ o # NoObj
  BY <1>1, <1>2, DurableFacts, JobQueueAssumption DEF ObjectInv, OneObject
<1>4. outcome[j] = "none" /\ j \in Elements(file)
  BY <1>2, <1>3, CanEndFacts DEF CanEnd
<1>5. audit \in [Jobs -> AuditOfJob] /\ audit[j] \in AuditOfJob /\ faults \in Nat
  BY JobQueueAssumption DEF IInv, TypeOK
<1>6. AuditOk(j)'
  <2>1. audit'[j].stage = "started" /\ audit'[j].ends = audit[j].ends
    BY <1>2, <1>5 DEF AuditOfJob
  <2>2. j \in Elements(file)'
    BY <1>2, <1>4 DEF Elements
  <2>3. audit[j].ends \in Nat /\ audit[j].ends <= faults
    <3>1. audit[j].ends \in Nat /\ AuditOk(j)
      BY <1>5 DEF AuditInv, AuditOfJob
    <3> QED BY <1>4, <1>5, <3>1 DEF AuditOk
  <2>4. outcome'[j] = "none" /\ faults' = faults
    BY <1>2, <1>4
  <2> QED BY <1>5, <2>1, <2>2, <2>3, <2>4 DEF AuditOk
<1>7. ASSUME NEW k \in Jobs, k # j PROVE AuditOk(k)'
  <2>1. audit'[k] = audit[k]
    BY <1>2, <1>5, <1>7
  <2> QED BY <1>2, <2>1, AuditSame DEF AuditInv, Elements
<1> QED BY <1>6, <1>7 DEF AuditInv

\* A death leaves the record of a submission without a line, or of an end that
\* did not come about.
LEMMA CrashAudit ==
  ASSUME Audit = "kept", IInv, QueueInv, DurableInv, AuditInv, Crash
  PROVE  AuditInv'
<1>1. /\ file' = file /\ outcome' = outcome /\ faults' = faults + 1
      /\ \A k \in Jobs : jobs'[k] = NoObj
  BY DEF Crash, Fault, DiesInSubmit, DiesInEnd, fileVars
<1>2. Elements(file)' = Elements(file)
  BY <1>1 DEF Elements
<1>3. audit \in [Jobs -> AuditOfJob] /\ faults \in Nat
  BY JobQueueAssumption DEF IInv, TypeOK
<1>4. ASSUME NEW k \in Jobs, audit'[k] = audit[k] PROVE AuditOk(k)'
  BY <1>1, <1>2, <1>4, AuditSame DEF AuditInv
<1>5. CASE UNCHANGED fileVars
  BY <1>4, <1>5 DEF AuditInv, fileVars
<1>6. ASSUME NEW j \in Jobs, DiesInSubmit(j) PROVE AuditInv'
  <2>1. audit' = [audit EXCEPT ![j].stage = "submitted"] /\ audit[j].stage = "none"
    BY <1>6 DEF DiesInSubmit, Recorded, Fresh
  <2>2. \A k \in Jobs : k # j => audit'[k] = audit[k]
    BY <1>3, <2>1
  <2>3. AuditOk(j)'
    <3>1. audit[j] \in AuditOfJob
      BY <1>3
    <3>2. audit'[j].stage = "submitted" /\ audit'[j].ends = audit[j].ends
      BY <1>3, <2>1, <3>1 DEF AuditOfJob
    <3>3. audit[j].ends \in Nat /\ AuditOk(j)
      BY <3>1 DEF AuditOfJob, AuditInv
    <3> QED BY <1>1, <1>2, <1>3, <3>2, <3>3 DEF AuditOk
  <2> QED BY <1>4, <2>2, <2>3 DEF AuditInv
<1>7. ASSUME NEW j \in Jobs, DiesInEnd(j) PROVE AuditInv'
  <2>1. audit' = [audit EXCEPT ![j].ends = @ + 1] /\ CanEnd(j)
    BY <1>7 DEF DiesInEnd, EndRecorded
  <2>2. \A k \in Jobs : k # j => audit'[k] = audit[k]
    BY <1>3, <2>1
  <2>3. outcome[j] = "none" /\ j \in Elements(file)
    BY <2>1, CanEndFacts
  <2>4. AuditOk(j)'
    <3>1. audit[j] \in AuditOfJob
      BY <1>3
    <3>2. audit'[j].stage = audit[j].stage /\ audit'[j].ends = audit[j].ends + 1
      BY <1>3, <2>1, <3>1 DEF AuditOfJob
    <3>3. audit[j].ends \in Nat /\ AuditOk(j)
      BY <3>1 DEF AuditOfJob, AuditInv
    <3> QED BY <1>1, <1>2, <1>3, <2>3, <3>2, <3>3 DEF AuditOk
  <2> QED BY <1>4, <2>2, <2>4 DEF AuditInv
<1> QED BY <1>5, <1>6, <1>7 DEF Crash

LEMMA NextAudit ==
  Durable /\ Audit = "kept" /\ IInv /\ QueueInv /\ DurableInv /\ AuditInv /\ [Next]_vars
    => AuditInv'
<1> SUFFICES ASSUME Durable, Audit = "kept", IInv, QueueInv, DurableInv, AuditInv, [Next]_vars
             PROVE  AuditInv'
  OBVIOUS
<1>1. CASE UNCHANGED vars
  BY <1>1, AuditFrame DEF vars
<1>2. CASE RecoverOne
  BY <1>2, RecoverAudit
<1>3. ASSUME NEW j \in Jobs, Submit(j) \/ WaitFor(j) \/ CancelPending(j) \/ CancelRunning(j)
      PROVE  AuditInv'
  <2>1. CASE WaitFor(j) \/ CancelRunning(j)
    BY <2>1, AuditFrame DEF WaitFor, CancelRunning, queueVars, fileVars
  <2> QED BY <1>3, <2>1, SubmitAudit, CancelAudit
<1>4. CASE Start \/ Stop \/ StopReturns \/ Dispatch
  BY <1>4, AuditFrame DEF Start, Durable, Stop, StopReturns, Dispatch, queueVars, fileVars
<1>5. CASE Crash
  BY <1>5, CrashAudit
<1>6. ASSUME NEW o \in Obj, RunStep(o) \/ WaitReturns(o)
      PROVE  AuditInv'
  <2>1. CASE RunSkipped(o) \/ CallbackEnds(o) \/ Cleanup(o) \/ WaitReturns(o)
    BY <2>1, AuditFrame DEF RunSkipped, CallbackEnds, Cleanup, WaitReturns, queueVars, fileVars
  <2> QED BY <1>6, <2>1, BeginAudit, RunEndAudit DEF RunStep
<1> QED BY <1>1, <1>2, <1>3, <1>4, <1>5, <1>6 DEF Next, ClientCall

LEMMA InitAudit == Init => AuditInv
<1> SUFFICES ASSUME Init, NEW j \in Jobs PROVE AuditOk(j)
  BY DEF AuditInv
<1>1. /\ jobs[j] = NoObj /\ j \notin Elements(file) /\ outcome[j] = "none" /\ faults = 0
      /\ audit[j].stage = "none" /\ audit[j].ends = 0
  BY DEF Init, Elements
<1> QED BY <1>1 DEF AuditOk

\* Waiters are told the end of a job exactly when memory holds it, the file holds
\* exactly the jobs that are not over, and wherever the process dies the audit log
\* knows of every job of the file and says too much only of jobs whose recording
\* was interrupted: they are in the file and run again.
THEOREM RecordsAlwaysAgree == ASSUME Durable PROVE Spec => []RecordsAgree
<1>1. Init => IInv /\ QueueInv /\ DurableInv /\ (Audit = "kept" => AuditInv)
  BY InitIInv, InitQueue, InitDurable, InitAudit
<1>2. /\ IInv /\ QueueInv /\ DurableInv /\ (Audit = "kept" => AuditInv)
      /\ [Next]_vars
      => (IInv /\ QueueInv /\ DurableInv /\ (Audit = "kept" => AuditInv))'
  BY NextIInv, NextQueue, NextDurable, NextAudit
<1>3. IInv /\ QueueInv /\ DurableInv /\ (Audit = "kept" => AuditInv) => RecordsAgree
  BY DEF DurableInv, AuditInv, AuditOk, RecordsAgree, AuditExplained
<1> QED BY <1>1, <1>2, <1>3, PTL DEF Spec

\* Jobs of equal priority wait in the order of their lines, through cancellations,
\* crashes and restarts.
THEOREM FifoOrder == ASSUME Durable PROVE Spec => []PendingFifo
<1>1. Init => IInv /\ QueueInv /\ DurableInv
  BY InitIInv, InitQueue, InitDurable
<1>2. (IInv /\ QueueInv /\ DurableInv) /\ [Next]_vars => (IInv /\ QueueInv /\ DurableInv)'
  BY NextIInv, NextQueue, NextDurable
<1>3. IInv /\ QueueInv /\ DurableInv => PendingFifo
  BY DEF DurableInv
<1> QED BY <1>1, <1>2, <1>3, PTL DEF Spec

(***************************************************************************)
(* The queue implements the durable job service.                            *)
(***************************************************************************)

\* The same after a step.
LEMMA ServiceAfter ==
  ASSUME NEW j \in Jobs
  PROVE  ServiceState'[j] = IF outcome'[j] # "none" THEN outcome'[j]
                            ELSE IF jobs'[j] # NoObj /\ status'[jobs'[j]] = "running" THEN "running"
                            ELSE IF jobs'[j] # NoObj \/ j \in Elements(file)' THEN "queued"
                            ELSE "new"
BY DEF ServiceState

\* Steps that end and begin nothing are not seen by clients.
LEMMA ServiceStutters ==
  ASSUME \A j \in Jobs :
           /\ outcome'[j] = outcome[j]
           /\ jobs'[j] = NoObj <=> jobs[j] = NoObj
           /\ jobs[j] # NoObj => (status'[jobs'[j]] = "running" <=> status[jobs[j]] = "running")
           /\ j \in Elements(file)' <=> j \in Elements(file)
  PROVE  UNCHANGED ServiceState
BY DEF ServiceState

LEMMA ServiceFrame ==
  ASSUME UNCHANGED <<outcome, jobs, status, file>>
  PROVE  UNCHANGED ServiceState
BY DEF ServiceState, Elements

\* One job moves.
LEMMA ServiceMoves ==
  ASSUME NEW j \in Jobs, NEW x, ServiceState'[j] = x,
         \A k \in Jobs : k # j => ServiceState'[k] = ServiceState[k]
  PROVE  ServiceState' = [ServiceState EXCEPT ![j] = x]
<1>1. ServiceState = [k \in Jobs |-> ServiceState[k]]
  BY DEF ServiceState
<1>2. ServiceState' = [k \in Jobs |-> ServiceState'[k]]
  BY DEF ServiceState
<1>3. \A k \in Jobs : ServiceState'[k] = IF k = j THEN x ELSE ServiceState[k]
  OBVIOUS
<1>4. ServiceState' = [k \in Jobs |-> IF k = j THEN x ELSE ServiceState[k]]
  BY <1>2, <1>3, Zenon
<1> QED BY <1>1, <1>4

\* The service counts as the queue does.
LEMMA SameCardinality == \A S : Service!Cardinality(S) = Cardinality(S)
BY DEF Service!Cardinality, Cardinality

\* The jobs that run hold permits.
LEMMA RunningHeld ==
  ASSUME IInv, QueueInv, DurableInv
  PROVE  /\ Cardinality(Service!Running) \in Nat
         /\ Cardinality(Service!Running) <= Cardinality(Held)
<1>1. IsFiniteSet(Held)
  <2>1. Held \subseteq InFlight
    BY DEF Held, InFlight
  <2> QED BY <2>1, FS_Subset DEF IInv, Slots
<1> DEFINE ids == {o[1] : o \in Held}
           f == [o \in Held |-> o[1]]
<1>2. f \in Surjection(Held, ids)
  BY DEF Surjection
<1>3. IsFiniteSet(ids) /\ Cardinality(ids) <= Cardinality(Held)
  BY <1>1, <1>2, FS_Surjection
<1>4. Service!Running \subseteq ids
  <2> SUFFICES ASSUME NEW j \in Jobs, ServiceState[j] = "running"
               PROVE  \E o \in Held : o[1] = j
    BY DEF Service!Running
  <2>1. jobs[j] # NoObj /\ status[jobs[j]] = "running"
    BY ServiceFacts
  <2>2. jobs[j] \in Obj /\ jobs[j][1] = j /\ task[jobs[j]] = "running"
    BY <2>1, DurableFacts DEF ObjectInv, NoneStranded
  <2>3. jobs[j] \in Held
    BY <2>2 DEF Held
  <2> QED BY <2>2, <2>3
<1> HIDE DEF ids, f
<1>5. IsFiniteSet(Service!Running) /\ Cardinality(Service!Running) <= Cardinality(ids)
  BY <1>3, <1>4, FS_Subset
<1>6. /\ Cardinality(Service!Running) \in Nat /\ Cardinality(ids) \in Nat /\ Cardinality(Held) \in Nat
  BY <1>1, <1>3, <1>5, FS_CardinalityType
<1> QED BY <1>3, <1>5, <1>6

LEMMA SubmitAccepts ==
  ASSUME Durable, IInv, QueueInv, DurableInv, NEW j \in Jobs, Submit(j)
  PROVE  Service!Next
<1> DEFINE o == <<j, 0>>
<1>1. /\ o \in Obj /\ o[1] = j /\ o # NoObj
  BY ObjFacts, JobQueueAssumption
<1>2. /\ jobs[j] = NoObj /\ outcome[j] = "none" /\ j \notin Elements(file)
      /\ jobs' = [jobs EXCEPT ![j] = o]
      /\ status' = [status EXCEPT ![o] = "pending"]
      /\ outcome' = outcome /\ file' = Append(file, j)
  BY DurableDisk DEF Submit, Fresh, Durable
<1> HIDE DEF o
<1>3. /\ \A k \in Jobs : jobs[k] # NoObj => jobs[k] \in Obj /\ jobs[k][1] = k
      /\ Lines /\ status \in [Obj -> Status] /\ jobs \in [Jobs -> Obj \cup {NoObj}]
  BY DurableFacts
<1>4. Elements(file)' = Elements(file) \cup {j}
  BY <1>2, <1>3, AppendLine
<1>5. jobs'[j] = o /\ status'[o] = "pending"
  BY <1>1, <1>2, <1>3
<1>6. ServiceState[j] = "new"
  BY <1>2, ServiceFacts
<1>7. ServiceState'[j] = "queued"
  BY <1>1, <1>2, <1>5, ServiceAfter
<1>8. ASSUME NEW k \in Jobs, k # j PROVE ServiceState'[k] = ServiceState[k]
  <2>1. jobs'[k] = jobs[k] /\ (jobs[k] # NoObj => status'[jobs[k]] = status[jobs[k]])
    BY <1>1, <1>2, <1>3, <1>8
  <2>2. k \in Elements(file)' <=> k \in Elements(file)
    BY <1>4, <1>8
  <2> QED BY <1>2, <2>1, <2>2, ServiceAfter, ServiceFacts
<1>9. Service!Accept(j)
  BY <1>6, <1>7, <1>8, ServiceMoves DEF Service!Accept
<1> QED BY <1>9 DEF Service!Next

LEMMA RecoverUnseen ==
  ASSUME IInv, QueueInv, DurableInv, RecoverOne
  PROVE  UNCHANGED ServiceState
<1>1. /\ Recovers /\ Lines /\ toRecover \in Seq(Jobs) /\ toRecover # <<>>
      /\ \A k \in Jobs : jobs[k] # NoObj => jobs[k] \in Obj /\ jobs[k][1] = k
      /\ status \in [Obj -> Status] /\ jobs \in [Jobs -> Obj \cup {NoObj}]
      /\ outcome' = outcome /\ file' = file
  BY DurableFacts DEF RecoverOne, fileVars
<1>2. 1 \in DOMAIN toRecover /\ Len(toRecover) \in Nat \ {0}
  BY <1>1, EmptySeq, LenProperties
<1>3. PICK j \in Jobs : j = toRecover[1]
  BY <1>1, <1>2, ElementOfSeq
<1>4. j \in Elements(file) /\ jobs[j] = NoObj
  <2>1. /\ Len(toRecover) <= Len(file) /\ jobs[j] = NoObj
        /\ j = file[Len(file) - Len(toRecover) + 1]
    BY <1>1, <1>2, <1>3 DEF Recovers
  <2>2. Len(file) - Len(toRecover) + 1 \in DOMAIN file
    BY <1>1, <1>2, <2>1, LineFacts
  <2> QED BY <2>1, <2>2 DEF Elements
<1>5. PICK k \in 1..MaxCopies :
        /\ jobs' = [jobs EXCEPT ![j] = <<j, k>>]
        /\ status' = [status EXCEPT ![<<j, k>>] = "pending"]
  BY <1>3 DEF RecoverOne
<1>6. <<j, k>> \in Obj /\ <<j, k>>[1] = j /\ <<j, k>> # NoObj
  BY JobQueueAssumption DEF Obj
<1>7. jobs'[j] = <<j, k>> /\ status'[<<j, k>>] = "pending"
  BY <1>1, <1>5, <1>6
<1>8. ASSUME NEW m \in Jobs PROVE ServiceState'[m] = ServiceState[m]
  <2>1. m \in Elements(file)' <=> m \in Elements(file)
    BY <1>1 DEF Elements
  <2>2. CASE m = j
    BY <1>1, <1>4, <1>6, <1>7, <2>1, <2>2, ServiceAfter, ServiceFacts
  <2>3. CASE m # j
    <3>1. jobs'[m] = jobs[m] /\ (jobs[m] # NoObj => status'[jobs[m]] = status[jobs[m]])
      BY <1>1, <1>5, <1>6, <2>3
    <3> QED BY <1>1, <2>1, <3>1, ServiceAfter, ServiceFacts
  <2> QED BY <2>2, <2>3
<1> QED BY <1>8 DEF ServiceState

\* A queued or running job ends once.
LEMMA EndsOnce ==
  ASSUME IInv, QueueInv, DurableInv, NEW o \in Obj, NEW s \in Terminal,
         jobs[o[1]] = o,
         status[o] = "running" \/ (status[o] = "pending" /\ s = "cancelled"),
         status' = [status EXCEPT ![o] = s], jobs' = jobs,
         outcome' = [outcome EXCEPT ![o[1]] = s],
         file' = Unpersisted(o[1])
  PROVE  Service!Next
<1>1. /\ o[1] \in Jobs /\ o # NoObj /\ Lines
      /\ \A k \in Jobs : jobs[k] # NoObj => jobs[k] \in Obj /\ jobs[k][1] = k
      /\ status \in [Obj -> Status] /\ outcome \in [Jobs -> Terminal \cup {"none"}]
  BY DurableFacts, ObjFacts, JobQueueAssumption DEF IInv, TypeOK
<1>2. PICK j \in Jobs : j = o[1]
  BY <1>1
<1>3. Elements(file)' = Elements(file) \ {j}
  BY <1>1, <1>2, DropLine
<1>4. outcome'[j] = s /\ \A k \in Jobs : k # j => outcome'[k] = outcome[k]
  BY <1>1, <1>2
<1>5. ServiceState[j] = "running" \/ (ServiceState[j] = "queued" /\ s = "cancelled")
  <2>1. status[o] \notin Terminal /\ jobs[j] = o
    BY <1>2 DEF Terminal
  <2>2. outcome[j] = "none"
    BY <1>1, <2>1, ServiceFacts
  <2> QED BY <1>1, <2>1, <2>2, ServiceFacts
<1>6. ServiceState'[j] = s
  BY <1>4, ServiceAfter DEF Terminal
<1>7. ASSUME NEW k \in Jobs, k # j PROVE ServiceState'[k] = ServiceState[k]
  <2>1. jobs'[k] = jobs[k] /\ (jobs[k] # NoObj => status'[jobs[k]] = status[jobs[k]])
    BY <1>1, <1>2, <1>7
  <2>2. k \in Elements(file)' <=> k \in Elements(file)
    BY <1>3, <1>7
  <2> QED BY <1>4, <1>7, <2>1, <2>2, ServiceAfter, ServiceFacts
<1>8. Service!End(j, s)
  BY <1>5, <1>6, <1>7, ServiceMoves DEF Service!End
<1> QED BY <1>8 DEF Service!Next, Service!Outcomes, Terminal

\* A job that begins was queued, and finds room among those that run.
LEMMA BeginsQueued ==
  ASSUME Durable, IInv, QueueInv, DurableInv, NEW o \in Obj, RunBegins(o)
  PROVE  Service!Next
<1>1. /\ o[1] \in Jobs /\ o # NoObj
      /\ \A k \in Jobs : jobs[k] # NoObj => jobs[k] \in Obj /\ jobs[k][1] = k
      /\ status \in [Obj -> Status] /\ ObjectInv
  BY DurableFacts, ObjFacts, JobQueueAssumption
<1>2. PICK j \in Jobs : j = o[1]
  BY <1>1
<1>3. /\ status[o] = "pending"
      /\ status' = [status EXCEPT ![o] = "running"] /\ jobs' = jobs
      /\ outcome' = outcome /\ file' = file
      /\ Cardinality(Held) < MaxConcurrent
  BY DEF RunBegins, queueVars, fileVars, QueueInv, Stages
<1>4. jobs[j] = o /\ status'[o] = "running"
  BY <1>1, <1>2, <1>3 DEF ObjectInv, OneObject
<1>5. outcome[j] = "none" /\ ServiceState[j] = "queued"
  <2>1. status[jobs[j]] \notin Terminal /\ jobs[j] # NoObj
    BY <1>1, <1>3, <1>4 DEF Terminal
  <2> QED BY <1>3, <1>4, <2>1, ServiceFacts
<1>6. ServiceState'[j] = "running"
  BY <1>1, <1>3, <1>4, <1>5, ServiceAfter
<1>7. ASSUME NEW k \in Jobs, k # j PROVE ServiceState'[k] = ServiceState[k]
  <2>1. jobs'[k] = jobs[k] /\ (jobs[k] # NoObj => status'[jobs[k]] = status[jobs[k]])
    BY <1>1, <1>2, <1>3, <1>7
  <2>2. k \in Elements(file)' <=> k \in Elements(file)
    BY <1>3 DEF Elements
  <2> QED BY <1>3, <2>1, <2>2, ServiceAfter, ServiceFacts
<1>8. Cardinality(Service!Running) < MaxConcurrent
  <2>1. IsFiniteSet(InFlight) /\ Held \subseteq InFlight
    BY DEF IInv, Slots, Held, InFlight
  <2>2. IsFiniteSet(Held)
    BY <2>1, FS_Subset
  <2>3. Cardinality(Held) \in Nat
    BY <2>2, FS_CardinalityType
  <2>4. Cardinality(Service!Running) <= Cardinality(Held)
    BY RunningHeld
  <2>5. Cardinality(Service!Running) \in Nat
    BY RunningHeld
  <2> QED BY <1>3, <2>3, <2>4, <2>5, JobQueueAssumption
<1>9. Service!Begin(j)
  <2>1. ServiceState' = [ServiceState EXCEPT ![j] = "running"]
    BY <1>6, <1>7, ServiceMoves
  <2>2. Service!Cardinality(Service!Running) < MaxConcurrent
    BY <1>8, SameCardinality
  <2> QED BY <1>5, <2>1, <2>2 DEF Service!Begin
<1> QED BY <1>9 DEF Service!Next

\* A crash interrupts what runs, and loses nothing.
LEMMA CrashInterrupts ==
  ASSUME IInv, QueueInv, DurableInv, Crash
  PROVE  [Service!Next]_ServiceState
<1>1. /\ \A j \in Jobs : jobs'[j] = NoObj
      /\ file' = file /\ outcome' = outcome
  BY DEF Crash, DiesInSubmit, DiesInEnd, fileVars
<1>2. ASSUME NEW j \in Jobs
      PROVE  ServiceState'[j] = IF ServiceState[j] = "running" THEN "queued" ELSE ServiceState[j]
  <2>1. j \in Elements(file)' <=> j \in Elements(file)
    BY <1>1 DEF Elements
  <2>2. ServiceState'[j] = IF outcome[j] # "none" THEN outcome[j]
                           ELSE IF j \in Elements(file) THEN "queued" ELSE "new"
    BY <1>1, <2>1, ServiceAfter
  <2>3. CASE outcome[j] # "none"
    BY <2>2, <2>3, ServiceFacts DEF Terminal
  <2>4. CASE outcome[j] = "none"
    <3>1. CASE jobs[j] = NoObj
      BY <2>2, <2>4, <3>1, ServiceFacts
    <3>2. CASE jobs[j] # NoObj
      <4>1. status[jobs[j]] \notin Terminal
        <5>1. Ended
          BY DurableFacts
        <5> QED BY <2>4, <3>2, <5>1 DEF Ended, Terminal
      <4>2. j \in Elements(file)
        BY <3>2, <4>1, ServiceFacts
      <4> QED BY <2>2, <2>4, <3>2, <4>2, ServiceFacts
    <3> QED BY <3>1, <3>2
  <2> QED BY <2>3, <2>4
<1>3. CASE Service!Running = {}
  <2>1. \A j \in Jobs : ServiceState'[j] = ServiceState[j]
    BY <1>2, <1>3 DEF Service!Running
  <2> QED BY <2>1 DEF ServiceState
<1>4. CASE Service!Running # {}
  <2>1. ServiceState' = [j \in Jobs |-> IF j \in Service!Running THEN "queued" ELSE ServiceState[j]]
    BY <1>2 DEF ServiceState, Service!Running
  <2>2. Service!Interrupted
    BY <1>4, <2>1 DEF Service!Interrupted
  <2> QED BY <2>2 DEF Service!Next
<1> QED BY <1>3, <1>4

LEMMA ServiceInit == Init => Service!Init
<1> SUFFICES ASSUME Init PROVE Service!Init
  OBVIOUS
<1>1. \A j \in Jobs : outcome[j] = "none" /\ jobs[j] = NoObj /\ j \notin Elements(file)
  BY DEF Init, Elements
<1> QED BY <1>1 DEF Service!Init, ServiceState

LEMMA ServiceStep ==
  Durable /\ IInv /\ QueueInv /\ DurableInv /\ [Next]_vars => [Service!Next]_ServiceState
<1> SUFFICES ASSUME Durable, IInv, QueueInv, DurableInv, [Next]_vars
             PROVE  Service!Next \/ UNCHANGED ServiceState
  OBVIOUS
<1>1. CASE UNCHANGED vars
  BY <1>1, ServiceFrame DEF vars
<1>2. CASE RecoverOne
  BY <1>2, RecoverUnseen
<1>3. ASSUME NEW j \in Jobs, Submit(j) \/ WaitFor(j) \/ CancelPending(j) \/ CancelRunning(j)
      PROVE  Service!Next \/ UNCHANGED ServiceState
  <2>1. CASE Submit(j)
    BY <2>1, SubmitAccepts
  <2>2. CASE WaitFor(j) \/ CancelRunning(j)
    BY <2>2, ServiceFrame DEF WaitFor, CancelRunning, queueVars, fileVars
  <2>3. CASE CancelPending(j)
    <3>1. PICK o \in Obj : o = jobs[j] /\ o[1] = j
      BY <2>3, DurableFacts DEF CancelPending
    <3>2. /\ status[o] = "pending" /\ status' = [status EXCEPT ![o] = "cancelled"]
          /\ outcome' = [outcome EXCEPT ![o[1]] = "cancelled"]
          /\ file' = Unpersisted(o[1]) /\ jobs' = jobs
      BY <2>3, <3>1, DurableDisk DEF CancelPending, Durable
    <3> QED BY <3>1, <3>2, EndsOnce DEF Terminal
  <2> QED BY <1>3, <2>1, <2>2, <2>3
<1>4. CASE Start \/ Stop \/ StopReturns \/ Dispatch
  BY <1>4, ServiceFrame DEF Start, Stop, StopReturns, Dispatch, queueVars, fileVars
<1>5. CASE Crash
  BY <1>5, CrashInterrupts
<1>6. ASSUME NEW o \in Obj, RunStep(o) \/ WaitReturns(o)
      PROVE  Service!Next \/ UNCHANGED ServiceState
  <2>1. CASE RunSkipped(o) \/ CallbackEnds(o) \/ Cleanup(o) \/ WaitReturns(o)
    BY <2>1, ServiceFrame DEF RunSkipped, CallbackEnds, Cleanup, WaitReturns, queueVars, fileVars
  <2>2. CASE RunBegins(o)
    BY <2>2, BeginsQueued
  <2>3. CASE RunCompletes(o) \/ RunFails(o) \/ RunCancelled(o)
    <3>1. PICK s \in Terminal :
            /\ status' = [status EXCEPT ![o] = s]
            /\ outcome' = [outcome EXCEPT ![o[1]] = s]
            /\ file' = Unpersisted(o[1]) /\ jobs' = jobs
      BY <2>3, DurableDisk DEF RunCompletes, RunFails, RunCancelled, Finish, queueVars, Terminal
    <3>2. task[o] = "running"
      BY <2>3 DEF RunCompletes, RunFails, RunCancelled, QueueInv, Stages
    <3>3. status[o] = "running" /\ jobs[o[1]] = o
      BY <3>2, DurableFacts DEF QueueInv, Stages, ObjectInv, OneObject
    <3> QED BY <3>1, <3>3, EndsOnce
  <2> QED BY <1>6, <2>1, <2>2, <2>3 DEF RunStep
<1> QED BY <1>1, <1>2, <1>3, <1>4, <1>5, <1>6 DEF Next, ClientCall

\* A persistent queue implements the durable job service: whatever clients do and
\* wherever the process crashes, an accepted job is never lost, has one outcome
\* and runs within the limit.
THEOREM ServiceImplemented == ASSUME Durable PROVE Spec => ImplementsService
<1>1. Init => IInv /\ QueueInv /\ DurableInv
  BY InitIInv, InitQueue, InitDurable
<1>2. (IInv /\ QueueInv /\ DurableInv) /\ [Next]_vars => (IInv /\ QueueInv /\ DurableInv)'
  BY NextIInv, NextQueue, NextDurable
<1>3. IInv /\ QueueInv /\ DurableInv /\ [Next]_vars => [Service!Next]_ServiceState
  BY ServiceStep
<1> QED BY <1>1, <1>2, <1>3, ServiceInit, PTL DEF Spec, ImplementsService, Service!Spec

\* When stop() returns, every job in memory is finished and its waiters are told.
THEOREM StopLeavesNothing == ASSUME Durable PROVE Spec => StopDrains
<1>1. Init => IInv /\ QueueInv /\ DurableInv
  BY InitIInv, InitQueue, InitDurable
<1>2. (IInv /\ QueueInv /\ DurableInv) /\ [Next]_vars => (IInv /\ QueueInv /\ DurableInv)'
  BY NextIInv, NextQueue, NextDurable
<1>3. IInv /\ QueueInv /\ DurableInv /\ [Next]_vars =>
        [stopping /\ ~stopping' /\ faults' = faults =>
           \A j \in Jobs : jobs[j] # NoObj =>
             status[jobs[j]] \in Terminal /\ jobs[j] \in eventSet]_vars
  <2> SUFFICES ASSUME IInv, QueueInv, DurableInv, Next, stopping, ~stopping', faults' = faults,
                      NEW j \in Jobs, jobs[j] # NoObj
               PROVE  status[jobs[j]] \in Terminal /\ jobs[j] \in eventSet
    OBVIOUS
  <2>1. faults \in Nat
    BY JobQueueAssumption DEF IInv, TypeOK
  <2>2. StopReturns
    <3>1. ~Crash
      BY <2>1 DEF Crash, Fault
    <3>2. ~RecoverOne /\ ~Start /\ ~Stop /\ ~Dispatch
      BY DEF RecoverOne, Start, Stop, Dispatch
    <3>3. \A k \in Jobs : ~Submit(k) /\ ~WaitFor(k) /\ ~CancelPending(k) /\ ~CancelRunning(k)
      BY DEF Submit, WaitFor, CancelPending, CancelRunning, loopVars
    <3>4. \A o \in Obj : ~RunStep(o) /\ ~WaitReturns(o)
      BY DEF RunStep, RunSkipped, RunBegins, RunCompletes, RunFails, RunCancelled, Finish,
         CallbackEnds, Cleanup, WaitReturns, loopVars
    <3> QED BY <3>1, <3>2, <3>3, <3>4 DEF Next, ClientCall
  <2>3. jobs[j] \in Obj /\ status[jobs[j]] # "absent" /\ status \in [Obj -> Status]
    BY DurableFacts DEF ObjectInv, OneObject
  <2>4. task[jobs[j]] = "none" /\ pending = <<>>
    BY <2>2, <2>3, DurableFacts DEF StopReturns, InFlight, Stopped
  <2>5. status[jobs[j]] # "running"
    BY <2>3, <2>4, DurableFacts DEF ObjectInv, NoneStranded
  <2>6. status[jobs[j]] # "pending"
    BY <2>4 DEF QueueInv, PendingIsQueued, Elements
  <2>7. status[jobs[j]] \in Terminal
    BY <2>3, <2>5, <2>6 DEF Status
  <2> QED BY <2>4, <2>7, DurableFacts DEF EventIffFinished
<1> QED BY <1>1, <1>2, <1>3, PTL DEF Spec, StopDrains
===============================================================================
