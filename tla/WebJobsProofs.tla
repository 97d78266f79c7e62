----------------------------- MODULE WebJobsProofs -----------------------------
(***************************************************************************)
(* The theorems about WebJobs: the pages show what is (ShownIsSo) and a     *)
(* finished job keeps its outcome (OutcomeStands), for every set of jobs,   *)
(* pages and workers and for both broadcasters.                             *)
(*                                                                          *)
(* The inductive invariant WebInv says who waits for which update and that  *)
(* the youngest update of a job, on whatever stretch of its way, shows the  *)
(* status of the job; a page that does not show it has the update still to  *)
(* come.                                                                    *)
(***************************************************************************)
EXTENDS WebJobs, SequenceTheorems, FiniteSetTheorems, TLAPS

-------------------------------------------------------------------------------
(* The list of pages.                                                       *)

\* How many members of S are at most i.
Rank(S, i) == Cardinality({k \in S : k <= i})

\* The members of a finite set of numbers have the ranks 1, 2, ...
LEMMA Ranks ==
  ASSUME NEW S \in SUBSET Nat, IsFiniteSet(S)
  PROVE  /\ \A i \in S : Rank(S, i) \in 1..Cardinality(S)
         /\ \A i, k \in S : Rank(S, i) = Rank(S, k) => i = k
         /\ \A n \in 1..Cardinality(S) : \E i \in S : Rank(S, i) = n
<1> DEFINE UpTo(i) == {k \in S : k <= i}
<1>0. Cardinality(S) \in Nat
  BY FS_CardinalityType
<1>1. \A i \in S : IsFiniteSet(UpTo(i)) /\ Rank(S, i) = Cardinality(UpTo(i)) /\ Rank(S, i) \in Nat
  <2> TAKE i \in S
  <2>1. UpTo(i) \in SUBSET S
    OBVIOUS
  <2>2. IsFiniteSet(UpTo(i))
    BY <2>1, FS_Subset
  <2> QED BY <2>2, FS_CardinalityType DEF Rank
<1>2. \A i \in S : Rank(S, i) \in 1..Cardinality(S)
  <2> TAKE i \in S
  <2>1. UpTo(i) \in SUBSET S /\ i \in UpTo(i)
    OBVIOUS
  <2>2. UpTo(i) # {}
    BY <2>1
  <2>3. IsFiniteSet(UpTo(i)) /\ Rank(S, i) = Cardinality(UpTo(i)) /\ Rank(S, i) \in Nat
    BY <1>1
  <2> HIDE DEF UpTo
  <2>4. Rank(S, i) <= Cardinality(S)
    BY <2>1, <2>3, FS_Subset
  <2>5. Rank(S, i) # 0
    BY <2>2, <2>3, FS_EmptySet
  <2> QED BY <1>0, <2>3, <2>4, <2>5
<1>3. ASSUME NEW i \in S, NEW k \in S, i < k
      PROVE  Rank(S, i) # Rank(S, k)
  <2>0. \A l \in S : l \in Nat
    OBVIOUS
  <2>1. \A l \in UpTo(i) : l \in UpTo(k)
    BY <1>3, <2>0
  <2>2. k \in UpTo(k) /\ k \notin UpTo(i)
    BY <1>3, <2>0
  <2>3. UpTo(i) # UpTo(k) /\ UpTo(i) \in SUBSET UpTo(k)
    BY <2>1, <2>2
  <2>4. /\ IsFiniteSet(UpTo(k)) /\ Rank(S, k) = Cardinality(UpTo(k))
        /\ Rank(S, i) = Cardinality(UpTo(i))
    BY <1>1
  <2> HIDE DEF UpTo
  <2> QED BY <2>3, <2>4, FS_Subset
<1>4. \A i, k \in S : Rank(S, i) = Rank(S, k) => i = k
  <2> TAKE i, k \in S
  <2>1. i < k \/ k < i \/ i = k
    OBVIOUS
  <2> QED BY <1>3, <2>1
<1> DEFINE rank == [i \in S |-> Rank(S, i)]
           T == 1..Cardinality(S)
<1>5. IsFiniteSet(T) /\ Cardinality(T) = Cardinality(S)
  <2> DEFINE a == 1
             b == Cardinality(S)
  <2>1. a \in Int /\ b \in Int
    BY <1>0
  <2> HIDE DEF a, b
  <2>2. IsFiniteSet(a..b) /\ Cardinality(a..b) = IF a > b THEN 0 ELSE b - a + 1
    BY <2>1, FS_Interval
  <2> QED BY <1>0, <2>2 DEF a, b
<1>6. rank \in Injection(S, T)
  BY <1>2, <1>4 DEF Injection, IsInjective
<1> HIDE DEF rank, T
<1>7. rank \in Surjection(S, T)
  BY <1>5, <1>6, FS_Injection
<1>8. \A n \in T : \E i \in S : rank[i] = n
  BY <1>7 DEF Surjection
<1> QED BY <1>2, <1>4, <1>8 DEF rank, T

\* Kept: no page twice, those in gone out, all others in.
LEMMA KeptList ==
  ASSUME NEW list \in Seq(Clients), NEW gone,
         \A m, n \in DOMAIN list : list[m] = list[n] => m = n
  PROVE  LET kept == Kept(list, gone) IN
         /\ kept \in Seq(Clients)
         /\ \A m, n \in DOMAIN kept : kept[m] = kept[n] => m = n
         /\ \A n \in DOMAIN kept : kept[n] \notin gone /\ \E m \in DOMAIN list : kept[n] = list[m]
         /\ \A m \in DOMAIN list : list[m] \notin gone => \E n \in DOMAIN kept : kept[n] = list[m]
         /\ (\A m \in DOMAIN list : list[m] \notin gone) => Len(kept) = Len(list)
<1>1. Len(list) \in Nat /\ DOMAIN list = 1..Len(list)
  BY LenProperties
<1> DEFINE places == {i \in DOMAIN list : list[i] \notin gone}
           kept == Kept(list, gone)
           Place(n) == CHOOSE i \in places : Rank(places, i) = n
<1>2. IsFiniteSet(DOMAIN list) /\ Cardinality(DOMAIN list) = Len(list)
  <2> DEFINE a == 1
             b == Len(list)
  <2>1. a \in Int /\ b \in Int
    BY <1>1
  <2> HIDE DEF a, b
  <2>2. IsFiniteSet(a..b) /\ Cardinality(a..b) = IF a > b THEN 0 ELSE b - a + 1
    BY <2>1, FS_Interval
  <2> QED BY <1>1, <2>2 DEF a, b
<1>3. places \in SUBSET Nat /\ places \in SUBSET DOMAIN list
  BY <1>1
<1>4. IsFiniteSet(places) /\ Cardinality(places) \in Nat
  BY <1>2, <1>3, FS_Subset, FS_CardinalityType
<1>5. kept = [n \in 1..Cardinality(places) |-> list[Place(n)]]
  BY DEF Kept, Rank
<1> HIDE DEF kept
<1>6. /\ \A i \in places : Rank(places, i) \in 1..Cardinality(places)
      /\ \A i, k \in places : Rank(places, i) = Rank(places, k) => i = k
      /\ \A n \in 1..Cardinality(places) : \E i \in places : Rank(places, i) = n
  <2> HIDE DEF places
  <2> QED BY <1>3, <1>4, Ranks
<1>7. \A n \in 1..Cardinality(places) : Place(n) \in places /\ Rank(places, Place(n)) = n
  <2> HIDE DEF places
  <2> QED BY <1>6
<1>8. \A i \in places : Place(Rank(places, i)) = i
  <2> HIDE DEF places, Place
  <2> QED BY <1>6, <1>7
<1> HIDE DEF Place
<1>9. \A n \in 1..Cardinality(places) : Place(n) \in DOMAIN list /\ list[Place(n)] \notin gone
  BY <1>7
<1>10. \A n \in DOMAIN list : list[n] \in Clients
  BY <1>1, ElementOfSeq
<1>11. /\ kept \in Seq(Clients) /\ Len(kept) = Cardinality(places)
       /\ DOMAIN kept = 1..Cardinality(places)
       /\ \A n \in DOMAIN kept : kept[n] = list[Place(n)]
  <2>1. kept \in [1..Cardinality(places) -> Clients]
    BY <1>5, <1>9, <1>10
  <2>2. /\ kept \in Seq(Clients) /\ Len(kept) = Cardinality(places)
        /\ DOMAIN kept = 1..Cardinality(places)
    <3> HIDE DEF places
    <3>1. kept \in Seq(Clients)
      BY <1>4, <2>1
    <3>2. DOMAIN kept = 1..Cardinality(places)
      BY <2>1
    <3>3. Len(kept) \in Nat /\ DOMAIN kept = 1..Len(kept)
      BY <3>1, LenProperties
    <3> QED BY <1>4, <3>1, <3>2, <3>3
  <2> QED BY <1>5, <2>2
<1>12. ASSUME NEW m \in DOMAIN kept, NEW n \in DOMAIN kept, kept[m] = kept[n]
       PROVE  m = n
  <2>1. Place(m) = Place(n)
    BY <1>9, <1>11, <1>12
  <2> QED BY <1>7, <1>11, <2>1
<1>13. ASSUME NEW m \in DOMAIN list, list[m] \notin gone
       PROVE  \E n \in DOMAIN kept : kept[n] = list[m]
  <2>1. m \in places
    BY <1>13
  <2> QED BY <1>6, <1>8, <1>11, <2>1
<1>14. (\A m \in DOMAIN list : list[m] \notin gone) => Len(kept) = Len(list)
  <2>1. (\A m \in DOMAIN list : list[m] \notin gone) => places = DOMAIN list
    OBVIOUS
  <2> QED BY <1>2, <1>11, <2>1
<1> QED BY <1>9, <1>11, <1>12, <1>13, <1>14 DEF kept

-------------------------------------------------------------------------------
(* The updates on their way.                                                *)

Shown == {"running"} \cup Finished
Statuses == {"absent", "pending"} \cup Shown

FanRecord == [owner : {"open", "close", "fail", "claim", "complete", "relay"}, job : Jobs,
              shown : Shown, via : {"wire", "redis"}, at : Nat \ {0}, dead : Seq(Clients)]
Message == [job : Jobs, shown : Shown]

\* Where the i-th of the fans left stood before the f-th was removed.
Before(i, f) == IF i < f THEN i ELSE i + 1

\* A fan taken out: the others close up, in their order.
LEMMA WithoutFan ==
  ASSUME NEW q \in Seq(FanRecord), NEW f \in DOMAIN q
  PROVE  /\ RemoveAt(q, f) \in Seq(FanRecord)
         /\ DOMAIN RemoveAt(q, f) = 1..(Len(q) - 1)
         /\ Len(RemoveAt(q, f)) = Len(q) - 1
         /\ \A i \in 1..(Len(q) - 1) : RemoveAt(q, f)[i] = q[Before(i, f)]
         /\ \A i \in 1..(Len(q) - 1) : Before(i, f) \in DOMAIN q /\ Before(i, f) # f
         /\ \A g \in DOMAIN q : g # f => \E i \in 1..(Len(q) - 1) : Before(i, f) = g
<1>1. Len(q) \in Nat /\ DOMAIN q = 1..Len(q) /\ f \in 1..Len(q) /\ Len(q) - 1 \in Nat
  BY LenProperties
<1> DEFINE left == SubSeq(q, 1, f - 1)
           right == SubSeq(q, f + 1, Len(q))
<1>2. left \in Seq(FanRecord) /\ Len(left) = f - 1 /\ \A i \in 1..(f - 1) : left[i] = q[i]
  <2>1. \A i \in 1..(f - 1) : i \in 1..Len(q)
    BY <1>1
  <2>2. /\ left \in Seq(FanRecord)
        /\ Len(left) = IF 1 <= f - 1 THEN (f - 1) - 1 + 1 ELSE 0
        /\ \A i \in 1..((f - 1) - 1 + 1) : left[i] = q[1 + i - 1]
    BY <1>1, <2>1, SubSeqProperties
  <2> QED BY <1>1, <2>2
<1>3. right \in Seq(FanRecord) /\ Len(right) = Len(q) - f
      /\ \A i \in 1..(Len(q) - f) : right[i] = q[f + i]
  <2>1. \A i \in (f + 1)..Len(q) : i \in 1..Len(q)
    BY <1>1
  <2>2. /\ right \in Seq(FanRecord)
        /\ Len(right) = IF f + 1 <= Len(q) THEN Len(q) - (f + 1) + 1 ELSE 0
        /\ \A i \in 1..(Len(q) - (f + 1) + 1) : right[i] = q[f + 1 + i - 1]
    BY <1>1, <2>1, SubSeqProperties
  <2>3. \A i \in 1..(Len(q) - f) : i \in 1..(Len(q) - (f + 1) + 1) /\ f + 1 + i - 1 = f + i
    BY <1>1
  <2>4. \A i \in 1..(Len(q) - f) : right[i] = q[f + i]
    BY <2>2, <2>3
  <2> QED BY <1>1, <2>2, <2>4
<1>4. RemoveAt(q, f) = left \o right
  BY DEF RemoveAt
<1> HIDE DEF left, right
<1>5. /\ left \o right \in Seq(FanRecord) /\ Len(left \o right) = Len(left) + Len(right)
      /\ \A i \in 1..(Len(left) + Len(right)) :
           (left \o right)[i] = IF i <= Len(left) THEN left[i] ELSE right[i - Len(left)]
  BY <1>2, <1>3, ConcatProperties
<1>6. Len(left) + Len(right) = Len(q) - 1
  BY <1>1, <1>2, <1>3
<1>7. ASSUME NEW i \in 1..(Len(q) - 1)
      PROVE  (left \o right)[i] = q[Before(i, f)]
  <2>1. CASE i < f
    BY <1>1, <1>2, <1>5, <1>6, <2>1 DEF Before
  <2>2. CASE ~(i < f)
    <3>1. i - (f - 1) \in 1..(Len(q) - f) /\ f + (i - (f - 1)) = i + 1 /\ ~(i <= f - 1)
      BY <1>1, <2>2
    <3> QED BY <1>1, <1>2, <1>3, <1>5, <1>6, <2>2, <3>1, ZenonT(60) DEF Before
  <2> QED BY <2>1, <2>2
<1>8. \A i \in 1..(Len(q) - 1) : Before(i, f) \in DOMAIN q /\ Before(i, f) # f
  BY <1>1 DEF Before
<1>9. ASSUME NEW g \in DOMAIN q, g # f
      PROVE  \E i \in 1..(Len(q) - 1) : Before(i, f) = g
  <2>1. CASE g < f
    <3>1. g \in 1..(Len(q) - 1) /\ Before(g, f) = g
      BY <1>1, <2>1 DEF Before
    <3> QED BY <3>1
  <2>2. CASE ~(g < f)
    <3>1. g - 1 \in 1..(Len(q) - 1) /\ Before(g - 1, f) = g
      BY <1>1, <1>9, <2>2 DEF Before
    <3> QED BY <3>1
  <2> QED BY <2>1, <2>2
<1>10. DOMAIN (left \o right) = 1..(Len(q) - 1)
  BY <1>5, <1>6, LenProperties
<1> QED BY <1>4, <1>5, <1>6, <1>7, <1>8, <1>9, <1>10

\* A fan added at the end.
LEMMA WithFan ==
  ASSUME NEW q \in Seq(FanRecord), NEW fan \in FanRecord
  PROVE  /\ Append(q, fan) \in Seq(FanRecord)
         /\ DOMAIN Append(q, fan) = 1..(Len(q) + 1)
         /\ Append(q, fan)[Len(q) + 1] = fan
         /\ \A i \in DOMAIN q : i \in DOMAIN Append(q, fan) /\ Append(q, fan)[i] = q[i] /\ i < Len(q) + 1
         /\ \A i \in DOMAIN Append(q, fan) : i \in DOMAIN q \/ i = Len(q) + 1
         /\ Len(q) + 1 \notin DOMAIN q /\ Len(q) + 1 \in DOMAIN Append(q, fan)
<1>1. Len(q) \in Nat /\ DOMAIN q = 1..Len(q)
  BY LenProperties
<1>2. /\ Append(q, fan) \in Seq(FanRecord) /\ Len(Append(q, fan)) = Len(q) + 1
      /\ \A i \in 1..Len(q) : Append(q, fan)[i] = q[i]
      /\ Append(q, fan)[Len(q) + 1] = fan
  BY AppendProperties
<1>3. DOMAIN Append(q, fan) = 1..(Len(q) + 1)
  BY <1>2, LenProperties
<1> QED BY <1>1, <1>2, <1>3

-------------------------------------------------------------------------------
(* The inductive invariant.                                                 *)

TaskSide == {"open", "close", "fail"}
WorkerSide == {"claim", "complete"}

WebTypes ==
  /\ transport \in {"local", "redis"} /\ transport \in Transports
  /\ status \in [Jobs -> Statuses]
  /\ created \in Seq(Jobs)
  /\ claimedBy \in [Jobs -> Workers \cup {Nobody}]
  /\ task \in [Jobs -> {"none", "ready", "opening", "running", "closing", "failing", "over"}]
  /\ knows \subseteq Jobs
  /\ wsClients \in Seq(Clients)
  /\ socket \in [Clients -> {"new", "open", "closed", "gone"}]
  /\ seen \in [Clients -> [Jobs -> Statuses]]
  /\ fans \in Seq(FanRecord)
  /\ channel \in Seq(Message)
  /\ missed \subseteq Clients \X Jobs
  /\ raced \subseteq Jobs /\ stumbled \subseteq Jobs
  /\ outages \in Nat

\* Every connected page is in the list, once, and what a fan found dead is.
PagesSound ==
  /\ \A m, n \in DOMAIN wsClients : wsClients[m] = wsClients[n] => m = n
  /\ \A n \in DOMAIN wsClients : socket[wsClients[n]] \in {"open", "closed"}
  /\ \A c \in Clients : socket[c] = "open" => \E n \in DOMAIN wsClients : wsClients[n] = c
  /\ \A f \in DOMAIN fans : \A i \in DOMAIN fans[f].dead :
       socket[fans[f].dead[i]] \in {"closed", "gone"}

\* What the owner of a broadcast waits for.
Awaited(owner, j) ==
  /\ owner = "open" => task[j] = "opening"
  /\ owner = "close" => task[j] = "closing"
  /\ owner = "fail" => task[j] = "failing"
  /\ owner \in WorkerSide => claimedBy[j] # Nobody /\ j \notin knows
  /\ owner = "claim" /\ task[j] \in {"none", "ready"} => status[j] = "running"

\* A job has one broadcast of its task and one of its worker at a time.
SameSide(a, b) == \/ a \in TaskSide /\ b \in TaskSide
                  \/ a \in WorkerSide /\ b \in WorkerSide
                  \/ a = "relay" /\ b = "relay"

FansSound ==
  /\ \A f \in DOMAIN fans : Awaited(fans[f].owner, fans[f].job)
  /\ \A f, g \in DOMAIN fans :
       SameSide(fans[f].owner, fans[g].owner)
         /\ (fans[f].job = fans[g].job \/ fans[f].owner = "relay") => f = g
  /\ \A f \in DOMAIN fans : fans[f].via = "redis" => fans[f].at = 1 /\ fans[f].owner # "relay"
  /\ transport = "local" =>
       channel = <<>> /\ \A f \in DOMAIN fans : fans[f].via = "wire" /\ fans[f].owner # "relay"
  /\ transport = "redis" /\ outages = 0 =>
       /\ created # <<>> => subscribed
       /\ \A f \in DOMAIN fans : fans[f].owner # "relay" => fans[f].via = "redis"

JobSound(j) ==
  /\ status[j] \in {"absent", "pending"} =>
       /\ claimedBy[j] = Nobody
       /\ task[j] \in {"none", "ready"}
       /\ \A f \in DOMAIN fans : fans[f].job # j
       /\ \A n \in DOMAIN channel : channel[n].job # j
  /\ status[j] = "absent" => task[j] = "none"
  /\ status[j] # "absent" => created # <<>>
  /\ claimedBy[j] # Nobody /\ task[j] \notin {"none", "ready"} => j \in raced
  /\ task[j] \in {"opening", "running"} => status[j] = "running" \/ j \in raced
  /\ task[j] = "ready" /\ claimedBy[j] = Nobody => status[j] = "pending"
  /\ j \in knows =>
       claimedBy[j] # Nobody /\ (task[j] \in {"none", "ready"} => status[j] = "running")
JobsSound == \A j \in Jobs : JobSound(j)

\* With the direct broadcaster an older fan is never behind a younger one.
InOrder ==
  /\ transport = "local" => \A f, g \in DOMAIN fans : g < f => fans[f].at <= fans[g].at
  /\ PagesIntact => \A f \in DOMAIN fans : fans[f].at <= Len(wsClients) + 1

\* Jobs whose updates may overtake one another, or miss this server.
Excused ==
  {j \in Jobs : \/ transport = "redis" /\ outages > 0
                \/ j \in raced /\ (transport = "redis" \/ ~PagesIntact)}

\* The youngest update of a job shows its status.
FreshLocal ==
  transport = "local" =>
    \A f \in DOMAIN fans :
      (\A g \in DOMAIN fans : f < g => fans[g].job # fans[f].job) /\ fans[f].job \notin Excused
        => fans[f].shown = status[fans[f].job]

\* The same on the way through Redis: first the update of the owner, then the
\* channel, then what the subscriber forwards.
Direct == {j \in Jobs : \E f \in DOMAIN fans : fans[f].job = j /\ fans[f].owner # "relay"}
FreshRedis ==
  transport = "redis" =>
    /\ \A f \in DOMAIN fans : fans[f].owner # "relay" /\ fans[f].job \notin Excused
         => fans[f].shown = status[fans[f].job]
    /\ \A n \in DOMAIN channel :
         /\ channel[n].job \notin Direct /\ channel[n].job \notin Excused
         /\ \A m \in DOMAIN channel : n < m => channel[m].job # channel[n].job
         => channel[n].shown = status[channel[n].job]
    /\ \A f \in DOMAIN fans :
         /\ fans[f].job \notin Direct /\ fans[f].job \notin Excused
         /\ \A m \in DOMAIN channel : channel[m].job # fans[f].job
         => fans[f].shown = status[fans[f].job]

\* An update of j has yet to reach page c.
Coming(c, j) ==
  \/ \E f \in DOMAIN fans, p \in DOMAIN wsClients :
       fans[f].job = j /\ wsClients[p] = c /\ fans[f].at <= p
  \/ \E n \in DOMAIN channel : channel[n].job = j

Viewed ==
  \A c \in Clients, j \in Jobs : socket[c] = "open" =>
    \/ seen[c][j] = status[j]
    \/ status[j] = "pending"
    \/ <<c, j>> \in missed
    \/ j \in Excused
    \/ Coming(c, j)

WebInv ==
  /\ WebTypes /\ PagesSound /\ FansSound /\ JobsSound
  /\ InOrder /\ FreshLocal /\ FreshRedis /\ Viewed
  /\ RunningIsOwned

\* The invariant holds at the start.
LEMMA WebInit == Init => WebInv
<1> SUFFICES ASSUME Init PROVE WebInv
  OBVIOUS
<1>1. WebTypes
  <2>1. wsClients \in Seq(Clients) /\ fans \in Seq(FanRecord) /\ channel \in Seq(Message) /\ created \in Seq(Jobs)
    BY EmptySeq DEF Init
  <2>2. transport \in {"local", "redis"}
    BY WebAssumption DEF Init
  <2>3. seen \in [Clients -> [Jobs -> Statuses]]
    BY DEF Init, NothingSeen, Statuses
  <2> QED BY <2>1, <2>2, <2>3 DEF Init, WebTypes, Statuses
<1>2. DOMAIN wsClients = {} /\ DOMAIN fans = {} /\ DOMAIN channel = {}
  BY DEF Init
<1>3. PagesSound /\ FansSound /\ InOrder /\ FreshLocal /\ FreshRedis
  BY <1>2 DEF Init, PagesSound, FansSound, InOrder, FreshLocal, FreshRedis
<1>4. JobsSound /\ RunningIsOwned /\ Viewed
  BY <1>2 DEF Init, JobsSound, JobSound, RunningIsOwned, Viewed
<1> QED BY <1>1, <1>3, <1>4 DEF WebInv

-------------------------------------------------------------------------------
(* How the updates on their way change.                                     *)

\* The n-th fan is new: owner's update of j.
Grown(n, owner, j, shown, way) ==
  /\ fans' \in Seq(FanRecord)
  /\ n \in Nat /\ n \notin DOMAIN fans /\ n \in DOMAIN fans'
  /\ \A f \in DOMAIN fans : f \in DOMAIN fans' /\ fans'[f] = fans[f] /\ f < n
  /\ \A f \in DOMAIN fans' : f \in DOMAIN fans \/ f = n
  /\ fans'[n].owner = owner /\ fans'[n].job = j /\ fans'[n].shown = shown
  /\ fans'[n].via = way /\ fans'[n].at = 1 /\ fans'[n].dead = <<>>

\* The fields of a new fan.
LEMMA FanFields ==
  ASSUME NEW owner \in TaskSide \cup WorkerSide \cup {"relay"}, NEW j \in Jobs,
         NEW shown \in Shown, NEW via \in {"wire", "redis"}
  PROVE  /\ Fan(owner, j, shown, via) \in FanRecord
         /\ Fan(owner, j, shown, via).owner = owner
         /\ Fan(owner, j, shown, via).job = j
         /\ Fan(owner, j, shown, via).shown = shown
         /\ Fan(owner, j, shown, via).via = via
         /\ Fan(owner, j, shown, via).at = 1
         /\ Fan(owner, j, shown, via).dead = <<>>
<1>1. <<>> \in Seq(Clients)
  BY EmptySeq
<1>2. owner \in {"open", "close", "fail", "claim", "complete", "relay"}
  BY DEF TaskSide, WorkerSide
<1> QED BY <1>1, <1>2 DEF Fan, FanRecord

\* A fan added at the end is the n-th, and nothing else changes.
LEMMA Appended ==
  ASSUME WebTypes, NEW owner \in TaskSide \cup WorkerSide \cup {"relay"}, NEW j \in Jobs,
         NEW shown \in Shown, NEW way \in {"wire", "redis"},
         fans' = Append(fans, Fan(owner, j, shown, way))
  PROVE  \E n : Grown(n, owner, j, shown, way)
<1> DEFINE fan == Fan(owner, j, shown, way)
           n == Len(fans) + 1
<1>1. fan \in FanRecord
  BY FanFields
<1>2. fans \in Seq(FanRecord)
  BY DEF WebTypes
<1>3. n \in Nat
  BY <1>2, LenProperties
<1> HIDE DEF fan
<1>4. /\ Append(fans, fan) \in Seq(FanRecord)
      /\ Append(fans, fan)[n] = fan
      /\ \A i \in DOMAIN fans : i \in DOMAIN Append(fans, fan) /\ Append(fans, fan)[i] = fans[i] /\ i < n
      /\ \A i \in DOMAIN Append(fans, fan) : i \in DOMAIN fans \/ i = n
      /\ n \notin DOMAIN fans /\ n \in DOMAIN Append(fans, fan)
  BY <1>1, <1>2, WithFan
<1>5. fans' = Append(fans, fan)
  BY DEF fan
<1> HIDE DEF n
<1>6. /\ fan.owner = owner /\ fan.job = j /\ fan.shown = shown /\ fan.via = way
      /\ fan.at = 1 /\ fan.dead = <<>>
  BY FanFields, SMTT(60) DEF fan
<1>7. Grown(n, owner, j, shown, way)
  BY <1>3, <1>4, <1>5, <1>6 DEF Grown
<1> QED BY <1>7

\* Broadcast adds one fan, on the way the broadcaster takes.
LEMMA Broadcasts ==
  ASSUME WebTypes, NEW owner \in TaskSide \cup WorkerSide, NEW j \in Jobs, NEW shown \in Shown,
         Broadcast(owner, j, shown)
  PROVE  \E n, way : /\ Grown(n, owner, j, shown, way)
                     /\ transport = "local" => way = "wire"
                     /\ transport = "redis" => way = "redis"
<1>1. PICK way \in {"wire", "redis"} : way = IF transport = "redis" THEN "redis" ELSE "wire"
  OBVIOUS
<1>2. fans' = Append(fans, Fan(owner, j, shown, way))
  BY <1>1 DEF Broadcast
<1>3. owner \in TaskSide \cup WorkerSide \cup {"relay"}
  OBVIOUS
<1>4. \E n : Grown(n, owner, j, shown, way)
  BY <1>2, <1>3, Appended
<1> QED BY <1>1, <1>4

\* The f-th fan has moved on by one client; dead is what it has found dead.
Advanced(f) ==
  /\ fans' \in Seq(FanRecord)
  /\ DOMAIN fans' = DOMAIN fans
  /\ \A g \in DOMAIN fans : g # f => fans'[g] = fans[g]
  /\ \A g \in DOMAIN fans : /\ fans'[g].owner = fans[g].owner /\ fans'[g].job = fans[g].job
                            /\ fans'[g].shown = fans[g].shown /\ fans'[g].via = fans[g].via
  /\ fans'[f].at = fans[f].at + 1

\* One fan: a step further, one client more found dead.
LEMMA FanStays ==
  ASSUME NEW fan \in FanRecord, NEW c \in Clients
  PROVE  /\ fan.at + 1 \in Nat \ {0}
         /\ fan.dead \in Seq(Clients) /\ Append(fan.dead, c) \in Seq(Clients)
         /\ DOMAIN fan.dead = 1..Len(fan.dead) /\ Len(fan.dead) \in Nat
         /\ DOMAIN Append(fan.dead, c) = 1..(Len(fan.dead) + 1)
         /\ \A i \in 1..Len(fan.dead) : Append(fan.dead, c)[i] = fan.dead[i]
         /\ Append(fan.dead, c)[Len(fan.dead) + 1] = c
<1>1. fan.dead \in Seq(Clients) /\ fan.at \in Nat \ {0}
  BY DEF FanRecord
<1>2. /\ Append(fan.dead, c) \in Seq(Clients)
      /\ Len(Append(fan.dead, c)) = Len(fan.dead) + 1
      /\ \A i \in 1..Len(fan.dead) : Append(fan.dead, c)[i] = fan.dead[i]
      /\ Append(fan.dead, c)[Len(fan.dead) + 1] = c
  BY <1>1, AppendProperties
<1>3. DOMAIN Append(fan.dead, c) = 1..(Len(fan.dead) + 1)
  BY <1>2, LenProperties
<1>4. DOMAIN fan.dead = 1..Len(fan.dead) /\ Len(fan.dead) \in Nat
  BY <1>1, LenProperties
<1> QED BY <1>1, <1>2, <1>3, <1>4

\* A sequence of fans, from its domain.
LEMMA FansAreSeq ==
  ASSUME NEW n \in Nat, NEW q \in [1..n -> FanRecord]
  PROVE  q \in Seq(FanRecord)
  OBVIOUS

\* Deliver to a page that is open.
LEMMA MovedOn ==
  ASSUME WebTypes, NEW f \in DOMAIN fans, fans' = [fans EXCEPT ![f].at = @ + 1]
  PROVE  Advanced(f) /\ fans'[f].dead = fans[f].dead
<1>1. /\ fans \in Seq(FanRecord) /\ Len(fans) \in Nat /\ DOMAIN fans = 1..Len(fans)
      /\ \A g \in DOMAIN fans : fans[g] \in FanRecord
  BY LenProperties, ElementOfSeq DEF WebTypes
<1> DEFINE fan == [fans[f] EXCEPT !.at = @ + 1]
<1>2. fan \in FanRecord
  <2>1. fans[f] \in FanRecord
    BY <1>1
  <2> HIDE DEF fan
  <2>2. fan = [fans[f] EXCEPT !.at = @ + 1]
    BY DEF fan
  <2>3. fans[f].at + 1 \in Nat \ {0}
    BY <2>1 DEF FanRecord
  <2> QED BY <2>1, <2>2, <2>3 DEF FanRecord
<1>3. fans' = [fans EXCEPT ![f] = fan]
  BY <1>1
<1>4. /\ fan.owner = fans[f].owner /\ fan.job = fans[f].job
      /\ fan.shown = fans[f].shown /\ fan.via = fans[f].via
      /\ fan.at = fans[f].at + 1 /\ fan.dead = fans[f].dead
  BY <1>1 DEF FanRecord
<1> HIDE DEF fan
<1>5. fans' \in Seq(FanRecord) /\ DOMAIN fans' = DOMAIN fans
  BY <1>1, <1>2, <1>3, ExceptSeq
<1>6. fans'[f] = fan /\ \A g \in DOMAIN fans : g # f => fans'[g] = fans[g]
  BY <1>1, <1>3
<1> QED BY <1>4, <1>5, <1>6 DEF Advanced

\* Deliver to a page that has hung up.
LEMMA FoundDead ==
  ASSUME WebTypes, NEW f \in DOMAIN fans, NEW c \in Clients,
         fans' = [fans EXCEPT ![f].at = @ + 1, ![f].dead = Append(@, c)]
  PROVE  Advanced(f) /\ fans'[f].dead = Append(fans[f].dead, c)
<1>1. /\ fans \in Seq(FanRecord) /\ Len(fans) \in Nat /\ DOMAIN fans = 1..Len(fans)
      /\ \A g \in DOMAIN fans : fans[g] \in FanRecord
  BY LenProperties, ElementOfSeq DEF WebTypes
<1>2. Append(fans[f].dead, c) \in Seq(Clients)
  BY <1>1, FanStays
<1> DEFINE fan == [fans[f] EXCEPT !.at = @ + 1, !.dead = Append(@, c)]
<1>3. fan \in FanRecord
  BY <1>1, <1>2, SMTT(60) DEF FanRecord
<1>4. fans' = [fans EXCEPT ![f] = fan]
  BY <1>1
<1>5. /\ fan.owner = fans[f].owner /\ fan.job = fans[f].job
      /\ fan.shown = fans[f].shown /\ fan.via = fans[f].via
      /\ fan.at = fans[f].at + 1 /\ fan.dead = Append(fans[f].dead, c)
  BY <1>1 DEF FanRecord
<1> HIDE DEF fan
<1>7. fans' \in Seq(FanRecord) /\ DOMAIN fans' = DOMAIN fans
  <2>1. fans' \in [1..Len(fans) -> FanRecord]
    BY <1>1, <1>3, <1>4 DEF fan
  <2>2. fans' \in Seq(FanRecord)
    BY <1>1, <2>1, FansAreSeq, Zenon
  <2> QED BY <1>1, <1>4, <2>2
<1>8. fans'[f] = fan /\ \A g \in DOMAIN fans : g # f => fans'[g] = fans[g]
  BY <1>1, <1>4
<1> QED BY <1>5, <1>7, <1>8 DEF Advanced

\* The f-th fan is over; the others close up, and at most the n-th is new.
Gone(f, n) ==
  /\ fans' \in Seq(FanRecord)
  /\ n \in Nat
  /\ \A i \in DOMAIN fans' \ {n} :
       /\ i < n
       /\ Before(i, f) \in DOMAIN fans /\ Before(i, f) # f
       /\ fans'[i] = fans[Before(i, f)]
  /\ \A g \in DOMAIN fans : g # f => \E i \in DOMAIN fans' \ {n} : Before(i, f) = g

\* A fan is over and its owner reports nothing further.
LEMMA FanOver ==
  ASSUME WebTypes, NEW f \in DOMAIN fans, fans' = RemoveAt(fans, f)
  PROVE  Gone(f, Len(fans)) /\ Len(fans) \notin DOMAIN fans'
<1>1. fans \in Seq(FanRecord) /\ Len(fans) \in Nat /\ DOMAIN fans = 1..Len(fans)
  BY LenProperties DEF WebTypes
<1>2. /\ fans' \in Seq(FanRecord)
      /\ DOMAIN fans' = 1..(Len(fans) - 1)
      /\ \A i \in 1..(Len(fans) - 1) : fans'[i] = fans[Before(i, f)]
      /\ \A i \in 1..(Len(fans) - 1) : Before(i, f) \in DOMAIN fans /\ Before(i, f) # f
      /\ \A g \in DOMAIN fans : g # f => \E i \in 1..(Len(fans) - 1) : Before(i, f) = g
  BY <1>1, WithoutFan, ZenonT(60)
<1>3. \A i \in 1..(Len(fans) - 1) : i < Len(fans)
  BY <1>1
<1>4. Len(fans) \notin 1..(Len(fans) - 1)
  BY <1>1
<1> QED BY <1>1, <1>2, <1>3, <1>4 DEF Gone

\* A fan is over and its owner reports a failure.
LEMMA FanFollowed ==
  ASSUME WebTypes, NEW f \in DOMAIN fans, NEW j \in Jobs, NEW shown \in Shown,
         fans' = Append(RemoveAt(fans, f), Fan("fail", j, shown, "wire"))
  PROVE  /\ Gone(f, Len(fans)) /\ Len(fans) \in DOMAIN fans'
         /\ fans'[Len(fans)] = Fan("fail", j, shown, "wire")
<1> DEFINE rest == RemoveAt(fans, f)
           fan == Fan("fail", j, shown, "wire")
<1>1. fans \in Seq(FanRecord) /\ Len(fans) \in Nat /\ DOMAIN fans = 1..Len(fans)
  BY LenProperties DEF WebTypes
<1>2. /\ rest \in Seq(FanRecord)
      /\ DOMAIN rest = 1..(Len(fans) - 1)
      /\ Len(rest) = Len(fans) - 1
      /\ \A i \in 1..(Len(fans) - 1) : rest[i] = fans[Before(i, f)]
      /\ \A i \in 1..(Len(fans) - 1) : Before(i, f) \in DOMAIN fans /\ Before(i, f) # f
      /\ \A g \in DOMAIN fans : g # f => \E i \in 1..(Len(fans) - 1) : Before(i, f) = g
  BY <1>1, WithoutFan
<1>3. fan \in FanRecord
  BY FanFields DEF TaskSide
<1>4. fans' = Append(rest, fan) /\ Len(rest) + 1 = Len(fans)
  BY <1>1, <1>2
<1> HIDE DEF rest, fan
<1>5. /\ Append(rest, fan) \in Seq(FanRecord)
      /\ Append(rest, fan)[Len(rest) + 1] = fan
      /\ \A i \in DOMAIN rest : i \in DOMAIN Append(rest, fan) /\ Append(rest, fan)[i] = rest[i] /\ i < Len(rest) + 1
      /\ \A i \in DOMAIN Append(rest, fan) : i \in DOMAIN rest \/ i = Len(rest) + 1
      /\ Len(rest) + 1 \notin DOMAIN rest /\ Len(rest) + 1 \in DOMAIN Append(rest, fan)
  BY <1>2, <1>3, WithFan
<1>6. /\ fans' \in Seq(FanRecord) /\ Len(fans) \in DOMAIN fans' /\ fans'[Len(fans)] = fan
      /\ \A i \in DOMAIN fans' \ {Len(fans)} : i \in DOMAIN rest
      /\ \A i \in DOMAIN rest : i \in DOMAIN fans' \ {Len(fans)} /\ i < Len(fans) /\ fans'[i] = rest[i]
  BY <1>4, <1>5
<1>7. Gone(f, Len(fans))
  BY <1>1, <1>2, <1>6 DEF Gone
<1> QED BY <1>6, <1>7 DEF fan

-------------------------------------------------------------------------------
(* Steps that start a broadcast.                                            *)

\* What pages see stays in order when the status of j changes and an update
\* that shows it is sent, unless j has another one on its way.
LEMMA NewUpdate ==
  ASSUME WebInv, NEW j \in Jobs, NEW owner \in TaskSide \cup WorkerSide, NEW shown \in Shown,
         NEW n, NEW way, Grown(n, owner, j, shown, way),
         status' = [status EXCEPT ![j] = shown],
         UNCHANGED <<transport, wireVars, outages, missed>>, raced \subseteq raced',
         j \notin raced' => \A f \in DOMAIN fans : fans[f].job = j => fans[f].owner = "relay"
  PROVE  PagesSound' /\ InOrder' /\ FreshLocal' /\ FreshRedis' /\ Viewed'
<1>1. /\ WebTypes /\ PagesSound /\ FansSound /\ InOrder /\ FreshLocal /\ FreshRedis /\ Viewed
      /\ transport' = transport /\ wsClients' = wsClients /\ socket' = socket /\ seen' = seen
      /\ channel' = channel /\ outages' = outages /\ missed' = missed
  BY DEF WebInv, wireVars
<1>2. /\ n \in Nat /\ n \notin DOMAIN fans /\ n \in DOMAIN fans'
      /\ \A f \in DOMAIN fans : f \in DOMAIN fans' /\ fans'[f] = fans[f] /\ f < n
      /\ \A f \in DOMAIN fans' : f \in DOMAIN fans \/ f = n
      /\ fans'[n].owner = owner /\ fans'[n].job = j /\ fans'[n].shown = shown
      /\ fans'[n].at = 1 /\ fans'[n].dead = <<>>
  BY DEF Grown
<1>3. status \in [Jobs -> Statuses] /\ status'[j] = shown /\ \A k \in Jobs : k # j => status'[k] = status[k]
  BY <1>1 DEF WebTypes
<1>4. PagesIntact' = PagesIntact
  BY <1>1 DEF PagesIntact
<1>5. \A k \in Jobs : k \notin Excused' => k \notin Excused /\ (k = j => (transport = "local" /\ PagesIntact) \/ j \notin raced')
  BY <1>1, <1>4 DEF Excused, WebTypes
<1>6. /\ \A f \in DOMAIN fans : fans[f] \in FanRecord /\ fans[f].job \in Jobs /\ fans[f].at \in Nat
      /\ \A m \in DOMAIN channel : channel[m] \in Message /\ channel[m].job \in Jobs
      /\ Len(wsClients) \in Nat /\ DOMAIN wsClients = 1..Len(wsClients)
  <2>1. /\ \A f \in DOMAIN fans : fans[f] \in FanRecord
        /\ \A m \in DOMAIN channel : channel[m] \in Message
        /\ Len(wsClients) \in Nat /\ DOMAIN wsClients = 1..Len(wsClients)
    BY <1>1, ElementOfSeq, LenProperties DEF WebTypes
  <2> QED BY <2>1 DEF FanRecord, Message
<1>7. PagesSound'
  <2>1. ASSUME NEW f \in DOMAIN fans', NEW i \in DOMAIN fans'[f].dead
        PROVE  socket'[fans'[f].dead[i]] \in {"closed", "gone"}
    <3>1. f # n
      <4>1. DOMAIN << >> = {}
        OBVIOUS
      <4> QED BY <1>2, <4>1
    <3> QED BY <1>1, <1>2, <3>1 DEF PagesSound
  <2> QED BY <1>1, <2>1 DEF PagesSound
<1>8. InOrder'
  <2>1. \A f \in DOMAIN fans' : fans'[f].at \in Nat /\ fans'[f].at >= 1
    <3>1. \A f \in DOMAIN fans : fans[f].at \in Nat \ {0}
      BY <1>6 DEF FanRecord
    <3> QED BY <1>2, <3>1
  <2>2. ASSUME transport = "local", NEW f \in DOMAIN fans', NEW g \in DOMAIN fans', g < f
        PROVE  fans'[f].at <= fans'[g].at
    <3>0. \A h \in DOMAIN fans : h \in Nat
      BY <1>1, LenProperties DEF WebTypes
    <3>1. g \in DOMAIN fans
      BY <1>2, <2>2, <3>0
    <3>2. CASE f = n
      BY <1>2, <2>1, <3>2
    <3>3. CASE f # n
      BY <1>1, <1>2, <2>2, <3>1, <3>3 DEF InOrder
    <3> QED BY <3>2, <3>3
  <2>3. ASSUME PagesIntact, NEW f \in DOMAIN fans'
        PROVE  fans'[f].at <= Len(wsClients) + 1
    <3>1. CASE f = n
      BY <1>2, <1>6, <3>1
    <3>2. CASE f # n
      BY <1>1, <1>2, <2>3, <3>2 DEF InOrder
    <3> QED BY <3>1, <3>2
  <2> QED BY <1>1, <1>4, <2>2, <2>3 DEF InOrder
<1>9. FreshLocal'
  <2> SUFFICES ASSUME transport = "local", NEW f \in DOMAIN fans',
                      \A g \in DOMAIN fans' : f < g => fans'[g].job # fans'[f].job,
                      fans'[f].job \notin Excused'
               PROVE  fans'[f].shown = status'[fans'[f].job]
    BY <1>1 DEF FreshLocal
  <2>1. CASE f = n
    BY <1>2, <1>3, <2>1
  <2>2. CASE f # n
    <3>1. f \in DOMAIN fans /\ fans'[f] = fans[f] /\ fans[f].job # j
      BY <1>2, <2>2
    <3>2. fans[f].job \notin Excused
      BY <1>5, <1>6, <3>1
    <3>3. \A g \in DOMAIN fans : f < g => fans[g].job # fans[f].job
      BY <1>2, <3>1
    <3> QED BY <1>1, <1>3, <1>6, <3>1, <3>2, <3>3 DEF FreshLocal
  <2> QED BY <2>1, <2>2
<1>10. FreshRedis'
  <2> SUFFICES ASSUME transport = "redis" PROVE FreshRedis'
    BY <1>1 DEF FreshRedis
  <2>0. owner # "relay"
    BY DEF TaskSide, WorkerSide
  <2>1. j \in Direct' /\ Direct \subseteq Direct'
    BY <1>2, <2>0 DEF Direct
  <2>2. ASSUME NEW f \in DOMAIN fans', fans'[f].owner # "relay", fans'[f].job \notin Excused'
        PROVE  fans'[f].shown = status'[fans'[f].job]
    <3>1. CASE f = n
      BY <1>2, <1>3, <3>1
    <3>2. CASE f # n
      <4>1. f \in DOMAIN fans /\ fans'[f] = fans[f]
        BY <1>2, <3>2
      <4>2. fans[f].job # j
        BY <1>5, <2>2, <4>1
      <4>3. fans[f].job \notin Excused
        BY <1>5, <1>6, <2>2, <4>1
      <4> QED BY <1>1, <1>3, <1>6, <2>2, <4>1, <4>2, <4>3 DEF FreshRedis
    <3> QED BY <3>1, <3>2
  <2>3. ASSUME NEW m \in DOMAIN channel, channel[m].job \notin Direct', channel[m].job \notin Excused',
               \A l \in DOMAIN channel : m < l => channel[l].job # channel[m].job
        PROVE  channel[m].shown = status'[channel[m].job]
    <3>1. channel[m].job # j /\ channel[m].job \notin Direct /\ channel[m].job \notin Excused
      BY <1>1, <1>5, <1>6, <2>1, <2>3
    <3> QED BY <1>1, <1>3, <1>6, <2>3, <3>1 DEF FreshRedis
  <2>4. ASSUME NEW f \in DOMAIN fans', fans'[f].job \notin Direct', fans'[f].job \notin Excused',
               \A m \in DOMAIN channel : channel[m].job # fans'[f].job
        PROVE  fans'[f].shown = status'[fans'[f].job]
    <3>1. f # n
      BY <1>2, <2>1, <2>4
    <3>2. f \in DOMAIN fans /\ fans'[f] = fans[f] /\ fans[f].job # j
      BY <1>2, <2>1, <2>4, <3>1
    <3>3. fans[f].job \notin Direct /\ fans[f].job \notin Excused
      BY <1>5, <1>6, <2>1, <2>4, <3>2
    <3> QED BY <1>1, <1>3, <1>6, <2>4, <3>2, <3>3 DEF FreshRedis
  <2> QED BY <1>1, <2>2, <2>3, <2>4 DEF FreshRedis
<1>11. Viewed'
  <2> SUFFICES ASSUME NEW c \in Clients, NEW k \in Jobs, socket[c] = "open",
                      k \notin Excused', <<c, k>> \notin missed, status'[k] # "pending",
                      seen[c][k] # status'[k]
               PROVE  Coming(c, k)'
    BY <1>1 DEF Viewed
  <2>1. PICK p \in DOMAIN wsClients : wsClients[p] = c
    BY <1>1 DEF PagesSound
  <2>2. CASE k = j
    BY <1>1, <1>2, <1>6, <2>1, <2>2 DEF Coming
  <2>3. CASE k # j
    <3>1. Coming(c, k)
      BY <1>1, <1>3, <1>5, <2>3 DEF Viewed
    <3> QED BY <1>1, <1>2, <3>1 DEF Coming
  <2> QED BY <2>2, <2>3
<1> QED BY <1>7, <1>8, <1>9, <1>10, <1>11

\* A job that is shown as running is being run, or a broadcast of it raised.
Owned(j) ==
  status[j] = "running" =>
    \/ task[j] \in {"opening", "running"}
    \/ j \in knows
    \/ \E f \in DOMAIN fans : fans[f].owner = "claim" /\ fans[f].job = j
    \/ j \in stumbled

\* What is known of a job stays true while nothing happens to it.
Untouched(k) ==
  /\ status'[k] = status[k] /\ claimedBy'[k] = claimedBy[k] /\ task'[k] = task[k]
  /\ k \in knows' <=> k \in knows

\* What an owner waits for stays while its job is untouched.
LEMMA AwaitedStays ==
  ASSUME NEW k, NEW owner, Awaited(owner, k), Untouched(k)
  PROVE  Awaited(owner, k)'
BY DEF Awaited, Untouched

\* So does what is known of the job.
LEMMA JobStays ==
  ASSUME NEW k, JobSound(k), Untouched(k), raced \subseteq raced',
         created # <<>> => created' # <<>>,
         \A f \in DOMAIN fans' : fans'[f].job = k =>
           \/ \E m \in DOMAIN channel : channel[m].job = k
           \/ \E g \in DOMAIN fans : fans[g].job = k,
         \A n \in DOMAIN channel' : channel'[n].job = k =>
           \/ \E m \in DOMAIN channel : channel[m].job = k
           \/ \E g \in DOMAIN fans : fans[g].job = k
  PROVE  JobSound(k)'
<1>1. status'[k] = status[k] /\ claimedBy'[k] = claimedBy[k] /\ task'[k] = task[k] /\ (k \in knows' <=> k \in knows)
  BY DEF Untouched
<1>2. status[k] \in {"absent", "pending"} =>
        /\ \A f \in DOMAIN fans' : fans'[f].job # k
        /\ \A n \in DOMAIN channel' : channel'[n].job # k
  BY DEF JobSound
<1> QED BY <1>1, <1>2 DEF JobSound

\* So does who runs it.
LEMMA OwnedStays ==
  ASSUME NEW k, Owned(k), Untouched(k), stumbled \subseteq stumbled',
         \A f \in DOMAIN fans : fans[f].owner = "claim" /\ fans[f].job = k =>
           \E g \in DOMAIN fans' : fans'[g].owner = "claim" /\ fans'[g].job = k
  PROVE  Owned(k)'
BY DEF Owned, Untouched

\* A new broadcast: no other of its side, and its owner waits for it.
LEMMA NewFanSound ==
  ASSUME WebInv, NEW j \in Jobs, NEW owner \in TaskSide \cup WorkerSide, NEW shown,
         NEW n, NEW way, Grown(n, owner, j, shown, way),
         transport = "local" => way = "wire", transport = "redis" => way = "redis",
         UNCHANGED <<transport, created, wireVars, outages>>,
         Awaited(owner, j)',
         \A k, o : (\E f \in DOMAIN fans : fans[f].owner = o /\ fans[f].job = k) => Awaited(o, k)',
         \A f \in DOMAIN fans : fans[f].job = j => ~SameSide(owner, fans[f].owner)
  PROVE  FansSound'
<1>1. /\ FansSound /\ transport' = transport /\ created' = created /\ channel' = channel
      /\ outages' = outages /\ subscribed' = subscribed
  BY DEF WebInv, wireVars
<1>2. /\ n \notin DOMAIN fans /\ n \in DOMAIN fans'
      /\ \A f \in DOMAIN fans : f \in DOMAIN fans' /\ fans'[f] = fans[f]
      /\ \A f \in DOMAIN fans' : f \in DOMAIN fans \/ f = n
      /\ fans'[n].owner = owner /\ fans'[n].job = j /\ fans'[n].via = way
      /\ fans'[n].at = 1
  BY DEF Grown
<1>3. owner # "relay"
  BY DEF TaskSide, WorkerSide
<1>4. ASSUME NEW f \in DOMAIN fans', NEW o, NEW k, fans'[f].owner = o, fans'[f].job = k
      PROVE  Awaited(o, k)'
  BY <1>2, <1>4
<1>5. ASSUME NEW f \in DOMAIN fans', NEW g \in DOMAIN fans',
             SameSide(fans'[f].owner, fans'[g].owner),
             fans'[f].job = fans'[g].job \/ fans'[f].owner = "relay"
      PROVE  f = g
  <2>1. CASE f = n /\ g # n
    BY <1>2, <1>3, <1>5, <2>1
  <2>2. CASE g = n /\ f # n
    <3>1. SameSide(fans'[g].owner, fans'[f].owner) /\ fans'[f].owner # "relay"
      BY <1>2, <1>3, <1>5, <2>2 DEF SameSide, TaskSide, WorkerSide
    <3> QED BY <1>2, <1>5, <2>2, <3>1
  <2>3. CASE f # n /\ g # n
    BY <1>1, <1>2, <1>5, <2>3 DEF FansSound
  <2> QED BY <2>1, <2>2, <2>3
<1>6. \A f \in DOMAIN fans' : fans'[f].via = "redis" => fans'[f].at = 1 /\ fans'[f].owner # "relay"
  BY <1>1, <1>2, <1>3 DEF FansSound
<1>7. transport = "local" =>
        channel = <<>> /\ \A f \in DOMAIN fans' : fans'[f].via = "wire" /\ fans'[f].owner # "relay"
  BY <1>1, <1>2, <1>3 DEF FansSound
<1>8. transport = "redis" /\ outages = 0 =>
        /\ created # <<>> => subscribed
        /\ \A f \in DOMAIN fans' : fans'[f].owner # "relay" => fans'[f].via = "redis"
  BY <1>1, <1>2 DEF FansSound
<1>9. \A f \in DOMAIN fans' : Awaited(fans[f].owner, fans[f].job)'
  BY <1>4
<1> QED BY <1>1, <1>5, <1>6, <1>7, <1>8, <1>9 DEF FansSound

\* The whole invariant after such a step.
LEMMA BroadcastSound ==
  ASSUME WebInv, NEW j \in Jobs, NEW owner \in TaskSide \cup WorkerSide, NEW shown \in Shown,
         Broadcast(owner, j, shown),
         status' = [status EXCEPT ![j] = shown],
         UNCHANGED <<transport, created, wireVars, outages, stumbled, missed>>,
         raced \subseteq raced', raced' \subseteq Jobs,
         claimedBy' \in [Jobs -> Workers \cup {Nobody}],
         task' \in [Jobs -> {"none", "ready", "opening", "running", "closing", "failing", "over"}],
         knows' \subseteq Jobs,
         \A k \in Jobs : k # j => Untouched(k),
         j \notin raced' => \A f \in DOMAIN fans : fans[f].job = j => fans[f].owner = "relay",
         Awaited(owner, j)',
         \A f \in DOMAIN fans : \A o : fans[f].job = j /\ fans[f].owner = o =>
           Awaited(o, j)' /\ ~SameSide(owner, o),
         owner = "claim" \/ j \in stumbled \/ shown # "running" \/ task'[j] \in {"opening", "running"},
         claimedBy'[j] # Nobody /\ task'[j] \notin {"none", "ready"} => j \in raced',
         task'[j] \in {"opening", "running"} => shown = "running" \/ j \in raced',
         task'[j] = "ready" => claimedBy'[j] # Nobody,
         j \in knows' =>
           claimedBy'[j] # Nobody /\ (task'[j] \in {"none", "ready"} => shown = "running"),
         status[j] # "absent"
  PROVE  WebInv'
<1>1. PICK n, way : /\ Grown(n, owner, j, shown, way)
                    /\ transport = "local" => way = "wire"
                    /\ transport = "redis" => way = "redis"
  BY Broadcasts DEF WebInv
<1>2. PagesSound' /\ InOrder' /\ FreshLocal' /\ FreshRedis' /\ Viewed'
  BY <1>1, NewUpdate
<1>3. /\ \A f \in DOMAIN fans : f \in DOMAIN fans' /\ fans'[f] = fans[f]
      /\ \A f \in DOMAIN fans' : f \in DOMAIN fans \/ f = n
      /\ n \in DOMAIN fans' /\ fans'[n].owner = owner /\ fans'[n].job = j
      /\ fans' \in Seq(FanRecord)
  BY <1>1 DEF Grown
<1>4. /\ WebTypes /\ FansSound /\ JobsSound /\ RunningIsOwned /\ channel' = channel
      /\ status'[j] = shown /\ created' = created /\ stumbled' = stumbled
  BY DEF WebInv, wireVars, WebTypes
<1>5. \A f \in DOMAIN fans : fans[f].job \in Jobs
  <2>1. \A f \in DOMAIN fans : fans[f] \in FanRecord
    BY <1>4, ElementOfSeq, LenProperties DEF WebTypes
  <2> QED BY <2>1 DEF FanRecord
<1>6. WebTypes'
  BY <1>3, <1>4 DEF WebTypes, wireVars, Statuses
<1>7. FansSound'
  <2>1. ASSUME NEW k, NEW o, NEW f \in DOMAIN fans, fans[f].owner = o, fans[f].job = k
        PROVE  Awaited(o, k)'
    <3>1. CASE k = j
      BY <2>1, <3>1
    <3>2. CASE k # j
      <4>1. Awaited(o, k) /\ Untouched(k)
        BY <1>4, <1>5, <2>1, <3>2 DEF FansSound
      <4> QED BY <4>1, AwaitedStays
    <3> QED BY <3>1, <3>2
  <2>2. \A f \in DOMAIN fans : fans[f].job = j => ~SameSide(owner, fans[f].owner)
    OBVIOUS
  <2>3. \A k, o : (\E f \in DOMAIN fans : fans[f].owner = o /\ fans[f].job = k) => Awaited(o, k)'
    BY <2>1
  <2> QED BY <1>1, <2>2, <2>3, NewFanSound
<1>8. JobsSound'
  <2> SUFFICES ASSUME NEW k \in Jobs PROVE JobSound(k)'
    BY DEF JobsSound
  <2>1. CASE k = j
    <3>1. shown \notin {"absent", "pending"}
      BY DEF Shown, Finished
    <3>2. created' # <<>>
      BY <1>4 DEF JobsSound, JobSound
    <3> QED BY <1>4, <2>1, <3>1, <3>2 DEF JobSound
  <2>2. CASE k # j
    <3>1. JobSound(k) /\ Untouched(k)
      BY <1>4, <2>2 DEF JobsSound
    <3>2. \A f \in DOMAIN fans' : fans'[f].job = k => \E g \in DOMAIN fans : fans[g].job = k
      BY <1>3, <2>2
    <3> QED BY <1>4, <3>1, <3>2, JobStays
  <2> QED BY <2>1, <2>2
<1>9. RunningIsOwned'
  <2> SUFFICES ASSUME NEW k \in Jobs PROVE Owned(k)'
    BY DEF RunningIsOwned, Owned
  <2>1. CASE k = j
    BY <1>3, <1>4, <2>1 DEF Owned
  <2>2. CASE k # j
    <3>1. Owned(k) /\ Untouched(k)
      BY <1>4, <2>2 DEF RunningIsOwned, Owned
    <3>2. \A f \in DOMAIN fans : fans[f].owner = "claim" /\ fans[f].job = k =>
            \E g \in DOMAIN fans' : fans'[g].owner = "claim" /\ fans'[g].job = k
      BY <1>3
    <3> QED BY <1>4, <3>1, <3>2, OwnedStays
  <2> QED BY <2>1, <2>2
<1> QED BY <1>2, <1>6, <1>7, <1>8, <1>9 DEF WebInv

\* What the types say of single fans, messages and pages.
LEMMA FanJobs ==
  ASSUME WebTypes
  PROVE  /\ DOMAIN fans = 1..Len(fans) /\ Len(fans) \in Nat
         /\ \A f \in DOMAIN fans : /\ fans[f] \in FanRecord /\ fans[f].job \in Jobs
                                   /\ fans[f].at \in Nat /\ fans[f].at >= 1
                                   /\ fans[f].shown \in Shown
                                   /\ fans[f].via \in {"wire", "redis"}
                                   /\ fans[f].owner \in TaskSide \cup WorkerSide \cup {"relay"}
                                   /\ fans[f].dead \in Seq(Clients)
         /\ DOMAIN channel = 1..Len(channel) /\ Len(channel) \in Nat
         /\ \A m \in DOMAIN channel : /\ channel[m] \in Message /\ channel[m].job \in Jobs
                                      /\ channel[m].shown \in Shown
         /\ DOMAIN wsClients = 1..Len(wsClients) /\ Len(wsClients) \in Nat
         /\ \A p \in DOMAIN wsClients : wsClients[p] \in Clients
<1>1. /\ DOMAIN fans = 1..Len(fans) /\ Len(fans) \in Nat
      /\ \A f \in DOMAIN fans : fans[f] \in FanRecord
      /\ DOMAIN channel = 1..Len(channel) /\ Len(channel) \in Nat
      /\ \A m \in DOMAIN channel : channel[m] \in Message
      /\ DOMAIN wsClients = 1..Len(wsClients) /\ Len(wsClients) \in Nat
      /\ \A p \in DOMAIN wsClients : wsClients[p] \in Clients
  BY ElementOfSeq, LenProperties DEF WebTypes
<1>2. \A f \in DOMAIN fans : /\ fans[f].job \in Jobs /\ fans[f].at \in Nat \ {0}
                             /\ fans[f].shown \in Shown /\ fans[f].via \in {"wire", "redis"}
                             /\ fans[f].owner \in {"open", "close", "fail", "claim", "complete", "relay"}
                             /\ fans[f].dead \in Seq(Clients)
  BY <1>1 DEF FanRecord
<1>3. \A m \in DOMAIN channel : channel[m].job \in Jobs /\ channel[m].shown \in Shown
  BY <1>1 DEF Message
<1> QED BY <1>1, <1>2, <1>3 DEF TaskSide, WorkerSide

\* A job is submitted: nothing of it is on its way yet.
LEMMA QueryStep ==
  ASSUME WebInv, NEW j \in Jobs, NEW federated \in BOOLEAN, Query(j, federated)
  PROVE  WebInv'
<1>1. /\ WebTypes /\ PagesSound /\ FansSound /\ JobsSound /\ InOrder /\ FreshLocal /\ FreshRedis
      /\ Viewed /\ RunningIsOwned
  BY DEF WebInv
<1>2. /\ status[j] = "absent" /\ status' = [status EXCEPT ![j] = "pending"]
      /\ created' = Append(created, j)
      /\ subscribed' = (subscribed \/ (transport = "redis" /\ created = <<>>))
      /\ transport' = transport /\ claimedBy' = claimedBy /\ knows' = knows
      /\ wsClients' = wsClients /\ socket' = socket /\ seen' = seen /\ channel' = channel
      /\ fans' = fans /\ outages' = outages
      /\ raced' = raced /\ stumbled' = stumbled /\ missed' = missed
  BY DEF Query, Known, history
<1>3. PICK t \in {"none", "ready"} : task' = [task EXCEPT ![j] = t]
  BY DEF Query
<1>4. created' \in Seq(Jobs) /\ created' # <<>>
  <2>1. created \in Seq(Jobs)
    BY <1>1 DEF WebTypes
  <2>2. created' \in Seq(Jobs) /\ Len(created') = Len(created) + 1 /\ Len(created) \in Nat
    BY <1>2, <2>1, AppendProperties, LenProperties
  <2>3. Len(created') # 0
    BY <2>2
  <2> QED BY <2>2, <2>3, EmptySeq
<1>5. /\ status \in [Jobs -> Statuses]
      /\ task \in [Jobs -> {"none", "ready", "opening", "running", "closing", "failing", "over"}]
      /\ status'[j] = "pending" /\ task'[j] = t
      /\ \A k \in Jobs : k # j => Untouched(k)
  BY <1>1, <1>2, <1>3 DEF WebTypes, Untouched
<1>6. /\ \A f \in DOMAIN fans : fans[f].job # j /\ fans[f].job \in Jobs
      /\ \A n \in DOMAIN channel : channel[n].job # j /\ channel[n].job \in Jobs
      /\ task[j] = "none" /\ claimedBy[j] = Nobody
  BY <1>1, <1>2, FanJobs DEF JobsSound, JobSound
<1>7. WebTypes'
  BY <1>1, <1>2, <1>3, <1>4 DEF WebTypes, Statuses
<1>8. PagesSound' /\ InOrder'
  BY <1>1, <1>2 DEF PagesSound, InOrder, PagesIntact
<1>9. PagesIntact' = PagesIntact /\ Excused' = Excused /\ Direct' = Direct
  <2>1. PagesIntact' = PagesIntact
    BY <1>2 DEF PagesIntact
  <2> QED BY <1>2, <2>1 DEF Excused, Direct
<1>10. FansSound'
  <2>1. ASSUME NEW f \in DOMAIN fans
        PROVE  Awaited(fans[f].owner, fans[f].job)'
    <3>1. PICK o, k : o = fans[f].owner /\ k = fans[f].job
      OBVIOUS
    <3>2. Awaited(o, k) /\ Untouched(k)
      BY <1>1, <1>5, <1>6, <3>1 DEF FansSound
    <3>3. Awaited(o, k)'
      BY <3>2, AwaitedStays
    <3> QED BY <1>2, <3>1, <3>3
  <2> QED BY <1>1, <1>2, <2>1 DEF FansSound
<1>11. JobsSound' /\ RunningIsOwned'
  <2> SUFFICES ASSUME NEW k \in Jobs PROVE JobSound(k)' /\ Owned(k)'
    BY DEF JobsSound, RunningIsOwned, Owned
  <2>1. CASE k = j
    <3>1. k \notin knows
      BY <1>1, <1>6, <2>1 DEF JobsSound, JobSound
    <3> QED BY <1>2, <1>4, <1>5, <1>6, <2>1, <3>1 DEF JobSound, Owned
  <2>2. CASE k # j
    <3>1. JobSound(k) /\ Owned(k) /\ Untouched(k)
      BY <1>1, <1>5, <2>2 DEF JobsSound, RunningIsOwned, Owned
    <3> QED BY <1>2, <1>4, <3>1, JobStays, OwnedStays
  <2> QED BY <2>1, <2>2
<1>12. FreshLocal' /\ FreshRedis'
  <2>1. \A f \in DOMAIN fans : status'[fans[f].job] = status[fans[f].job]
    BY <1>5, <1>6 DEF Untouched
  <2>2. \A n \in DOMAIN channel : status'[channel[n].job] = status[channel[n].job]
    BY <1>5, <1>6 DEF Untouched
  <2> QED BY <1>1, <1>2, <1>9, <2>1, <2>2 DEF FreshLocal, FreshRedis
<1>13. Viewed'
  <2> SUFFICES ASSUME NEW c \in Clients, NEW k \in Jobs, socket[c] = "open",
                      k \notin Excused, <<c, k>> \notin missed, status'[k] # "pending",
                      seen[c][k] # status'[k]
               PROVE  Coming(c, k)'
    BY <1>2, <1>9 DEF Viewed
  <2>1. k # j /\ status'[k] = status[k]
    BY <1>5 DEF Untouched
  <2>2. Coming(c, k)
    BY <1>1, <2>1 DEF Viewed
  <2> QED BY <1>2, <2>2 DEF Coming
<1> QED BY <1>7, <1>8, <1>10, <1>11, <1>12, <1>13 DEF WebInv

\* The task starts: if the job has been claimed it is run twice from now on.
LEMMA TaskBeginsStep ==
  ASSUME WebInv, NEW j \in Jobs, TaskBegins(j)
  PROVE  WebInv'
<1>1. WebTypes /\ FansSound /\ JobSound(j)
  BY DEF WebInv, JobsSound
<1>2. /\ task[j] = "ready" /\ status' = [status EXCEPT ![j] = "running"]
      /\ task' = [task EXCEPT ![j] = "opening"]
      /\ Broadcast("open", j, "running")
      /\ raced' = IF claimedBy[j] = Nobody THEN raced ELSE raced \cup {j}
      /\ UNCHANGED <<transport, created, claimedBy, knows, wireVars, outages, stumbled, missed>>
  BY DEF TaskBegins
<1>3. /\ task' \in [Jobs -> {"none", "ready", "opening", "running", "closing", "failing", "over"}]
      /\ task'[j] = "opening" /\ status'[j] = "running"
      /\ \A k \in Jobs : k # j => Untouched(k)
      /\ raced \subseteq raced' /\ raced' \subseteq Jobs
      /\ claimedBy' = claimedBy /\ knows' = knows
      /\ claimedBy' \in [Jobs -> Workers \cup {Nobody}] /\ knows' \subseteq Jobs
  BY <1>1, <1>2 DEF WebTypes, Untouched
<1>4. ASSUME NEW f \in DOMAIN fans, fans[f].job = j
      PROVE  fans[f].owner \notin TaskSide /\ Awaited(fans[f].owner, j)
  BY <1>1, <1>2, <1>4 DEF FansSound, Awaited, TaskSide
<1>5. ASSUME NEW f \in DOMAIN fans, fans[f].job = j, j \notin raced'
      PROVE  fans[f].owner = "relay"
  <2>1. fans[f].owner \notin WorkerSide
    BY <1>2, <1>4, <1>5 DEF Awaited
  <2> QED BY <1>1, <1>4, <1>5, <2>1, FanJobs
<1>6. ASSUME NEW f \in DOMAIN fans, NEW o, fans[f].job = j, fans[f].owner = o
      PROVE  Awaited(o, j)' /\ ~SameSide("open", o)
  <2>1. o \notin TaskSide /\ Awaited(o, j)
    BY <1>4, <1>6
  <2>2. o # "open" /\ o # "close" /\ o # "fail"
    BY <2>1 DEF TaskSide
  <2> QED BY <1>3, <2>1, <2>2 DEF Awaited, SameSide, TaskSide, WorkerSide
<1>7. Awaited("open", j)'
  BY <1>3 DEF Awaited, WorkerSide
<1>8. status[j] # "absent"
  BY <1>1, <1>2 DEF JobSound
<1>9. /\ claimedBy'[j] # Nobody /\ task'[j] \notin {"none", "ready"} => j \in raced'
      /\ j \in knows' => claimedBy'[j] # Nobody
      /\ "running" \in Shown /\ "open" \in TaskSide \cup WorkerSide
  BY <1>1, <1>2, <1>3 DEF JobSound, Shown, TaskSide
<1> QED BY <1>2, <1>3, <1>5, <1>6, <1>7, <1>8, <1>9, BroadcastSound

\* The run is over: the task alone writes the outcome, or the job is raced.
LEMMA RunEndsStep ==
  ASSUME WebInv, NEW j \in Jobs, NEW outcome \in Finished, RunEnds(j, outcome)
  PROVE  WebInv'
<1>1. WebTypes /\ FansSound /\ JobSound(j)
  BY DEF WebInv, JobsSound
<1>2. PICK owner \in {"close", "fail"} :
        /\ owner = IF outcome = "done" THEN "close" ELSE "fail"
        /\ task[j] = "running" /\ status' = [status EXCEPT ![j] = outcome]
        /\ task' = [task EXCEPT ![j] = IF outcome = "done" THEN "closing" ELSE "failing"]
        /\ Broadcast(owner, j, outcome)
        /\ UNCHANGED <<transport, created, claimedBy, knows, wireVars, outages, raced, stumbled, missed>>
  BY DEF RunEnds, history
<1>3. /\ task' \in [Jobs -> {"none", "ready", "opening", "running", "closing", "failing", "over"}]
      /\ owner = "close" => task'[j] = "closing"
      /\ owner = "fail" => task'[j] = "failing"
      /\ status'[j] = outcome
      /\ \A k \in Jobs : k # j => Untouched(k)
      /\ raced \subseteq raced' /\ raced' \subseteq Jobs
      /\ claimedBy' = claimedBy /\ knows' = knows
      /\ claimedBy' \in [Jobs -> Workers \cup {Nobody}] /\ knows' \subseteq Jobs
  BY <1>1, <1>2 DEF WebTypes, Untouched
<1>4. ASSUME NEW f \in DOMAIN fans, fans[f].job = j
      PROVE  fans[f].owner \notin TaskSide /\ Awaited(fans[f].owner, j)
  BY <1>1, <1>2, <1>4 DEF FansSound, Awaited, TaskSide
<1>5. ASSUME NEW f \in DOMAIN fans, fans[f].job = j, j \notin raced'
      PROVE  fans[f].owner = "relay"
  <2>1. fans[f].owner \notin WorkerSide
    BY <1>1, <1>2, <1>3, <1>4, <1>5 DEF Awaited, JobSound
  <2> QED BY <1>1, <1>4, <1>5, <2>1, FanJobs
<1>6. ASSUME NEW f \in DOMAIN fans, NEW o, fans[f].job = j, fans[f].owner = o
      PROVE  Awaited(o, j)' /\ ~SameSide(owner, o)
  <2>1. o \notin TaskSide /\ Awaited(o, j)
    BY <1>4, <1>6
  <2>2. o # "open" /\ o # "close" /\ o # "fail"
    BY <2>1 DEF TaskSide
  <2>3. task'[j] \notin {"none", "ready"}
    BY <1>2, <1>3
  <2> QED BY <1>2, <1>3, <2>1, <2>2, <2>3 DEF Awaited, SameSide, TaskSide, WorkerSide
<1>7. Awaited(owner, j)'
  BY <1>2, <1>3 DEF Awaited, WorkerSide
<1>8. status[j] # "absent"
  BY <1>1, <1>2 DEF JobSound
<1>9. /\ claimedBy'[j] # Nobody /\ task'[j] \notin {"none", "ready"} => j \in raced'
      /\ j \in knows' => claimedBy'[j] # Nobody
      /\ outcome \in Shown /\ outcome # "running" /\ owner \in TaskSide \cup WorkerSide
      /\ task'[j] \notin {"none", "ready", "opening", "running"}
  BY <1>1, <1>2, <1>3 DEF JobSound, Shown, TaskSide, Finished
<1> QED BY <1>2, <1>3, <1>5, <1>6, <1>7, <1>8, <1>9, BroadcastSound

\* A worker claims a pending job.
LEMMA ClaimStep ==
  ASSUME WebInv, NEW j \in Jobs, NEW w \in Workers, Claim(w, j)
  PROVE  WebInv'
<1>1. WebTypes /\ FansSound /\ JobSound(j) /\ Nobody \notin Workers
  BY WebAssumption DEF WebInv, JobsSound
<1>2. /\ status[j] = "pending" /\ claimedBy[j] = Nobody
      /\ status' = [status EXCEPT ![j] = "running"]
      /\ claimedBy' = [claimedBy EXCEPT ![j] = w]
      /\ Broadcast("claim", j, "running")
      /\ UNCHANGED <<transport, created, task, knows, wireVars, outages, raced, stumbled, missed>>
  BY DEF Claim, OldestPending, history
<1>3. /\ claimedBy' \in [Jobs -> Workers \cup {Nobody}]
      /\ claimedBy'[j] # Nobody /\ status'[j] = "running"
      /\ \A k \in Jobs : k # j => Untouched(k)
      /\ raced \subseteq raced' /\ raced' \subseteq Jobs
      /\ task' = task /\ knows' = knows
      /\ task' \in [Jobs -> {"none", "ready", "opening", "running", "closing", "failing", "over"}]
      /\ knows' \subseteq Jobs
  BY <1>1, <1>2 DEF WebTypes, Untouched
<1>4. /\ \A f \in DOMAIN fans : fans[f].job # j
      /\ j \notin knows /\ task[j] \in {"none", "ready"}
  BY <1>1, <1>2 DEF JobSound
<1>5. Awaited("claim", j)'
  BY <1>3, <1>4 DEF Awaited
<1>6. "running" \in Shown /\ "claim" \in TaskSide \cup WorkerSide /\ status[j] # "absent"
  BY <1>2 DEF Shown, WorkerSide
<1> QED BY <1>2, <1>3, <1>4, <1>5, <1>6, BroadcastSound

\* A worker reports: the task has not begun, or the job is raced.
LEMMA CompleteStep ==
  ASSUME WebInv, NEW j \in Jobs, NEW outcome \in Finished, Complete(j, outcome)
  PROVE  WebInv'
<1>1. WebTypes /\ FansSound /\ JobSound(j)
  BY DEF WebInv, JobsSound
<1>2. /\ j \in knows /\ task[j] # "ready" /\ knows' = knows \ {j}
      /\ status' = [status EXCEPT ![j] = outcome]
      /\ Broadcast("complete", j, outcome)
      /\ UNCHANGED <<transport, created, claimedBy, task, wireVars, outages, raced, stumbled, missed>>
  BY DEF Complete, history
<1>3. /\ claimedBy' = claimedBy /\ task' = task /\ j \notin knows' /\ knows' \subseteq Jobs
      /\ claimedBy' \in [Jobs -> Workers \cup {Nobody}] /\ status'[j] = outcome
      /\ \A k \in Jobs : k # j => Untouched(k)
      /\ raced \subseteq raced' /\ raced' \subseteq Jobs
      /\ task' \in [Jobs -> {"none", "ready", "opening", "running", "closing", "failing", "over"}]
  BY <1>1, <1>2 DEF WebTypes, Untouched
<1>4. claimedBy[j] # Nobody
  BY <1>1, <1>2 DEF JobSound
<1>5. ASSUME NEW f \in DOMAIN fans, fans[f].job = j
      PROVE  fans[f].owner \notin WorkerSide /\ Awaited(fans[f].owner, j)
  BY <1>1, <1>2, <1>5 DEF FansSound, Awaited
<1>6. ASSUME NEW f \in DOMAIN fans, fans[f].job = j, j \notin raced'
      PROVE  fans[f].owner = "relay"
  <2>1. task[j] \in {"none", "ready"}
    BY <1>1, <1>2, <1>4, <1>6 DEF JobSound
  <2>2. fans[f].owner \notin TaskSide
    BY <1>5, <1>6, <2>1 DEF Awaited, TaskSide
  <2> QED BY <1>1, <1>5, <1>6, <2>2, FanJobs
<1>7. ASSUME NEW f \in DOMAIN fans, NEW o, fans[f].job = j, fans[f].owner = o
      PROVE  Awaited(o, j)' /\ ~SameSide("complete", o)
  <2>1. o \notin WorkerSide /\ Awaited(o, j) /\ o # "claim" /\ o # "complete"
    BY <1>5, <1>7 DEF WorkerSide
  <2> QED BY <1>3, <2>1 DEF Awaited, SameSide, TaskSide, WorkerSide
<1>8. Awaited("complete", j)'
  BY <1>3, <1>4 DEF Awaited
<1>9. /\ outcome \in Shown /\ outcome # "running" /\ "complete" \in TaskSide \cup WorkerSide
      /\ claimedBy'[j] # Nobody /\ task'[j] \notin {"none", "ready"} => j \in raced'
      /\ task'[j] \in {"opening", "running"} => j \in raced'
      /\ task'[j] # "ready" /\ status[j] # "absent"
  BY <1>1, <1>2, <1>3, <1>4 DEF JobSound, Shown, Finished, WorkerSide
<1> QED BY <1>2, <1>3, <1>6, <1>7, <1>8, <1>9, BroadcastSound

-------------------------------------------------------------------------------
(* Pages come and go.                                                       *)

\* Where only pages change, jobs and updates are sound as before.
LEMMA OnlyPages ==
  ASSUME WebInv, UNCHANGED <<transport, jobVars, fans, subscribed, channel, outages, raced, stumbled>>
  PROVE  FansSound' /\ JobsSound' /\ RunningIsOwned'
<1>1. /\ FansSound /\ JobsSound /\ RunningIsOwned
      /\ transport' = transport /\ status' = status /\ created' = created
      /\ claimedBy' = claimedBy /\ task' = task /\ knows' = knows /\ fans' = fans
      /\ subscribed' = subscribed /\ channel' = channel /\ outages' = outages
      /\ raced' = raced /\ stumbled' = stumbled
  BY DEF WebInv, jobVars
<1>2. FansSound'
  BY <1>1 DEF FansSound, Awaited, SameSide
<1>3. JobsSound'
  BY <1>1 DEF JobsSound, JobSound
<1> QED BY <1>1, <1>2, <1>3 DEF RunningIsOwned

\* While no update moves and no status changes, the updates stay fresh.
LEMMA StaysFresh ==
  ASSUME FreshLocal, FreshRedis, UNCHANGED <<transport, status, fans, channel>>, Excused \subseteq Excused'
  PROVE  FreshLocal' /\ FreshRedis'
<1>1. Direct' = Direct
  BY DEF Direct
<1> QED BY <1>1 DEF FreshLocal, FreshRedis

\* A page connects and is shown every job as it stands.
LEMMA ConnectStep ==
  ASSUME WebInv, NEW c \in Clients, Connect(c)
  PROVE  WebInv'
<1>1. /\ WebTypes /\ PagesSound /\ InOrder /\ FreshLocal /\ FreshRedis /\ Viewed
      /\ FansSound' /\ JobsSound' /\ RunningIsOwned'
  BY OnlyPages DEF WebInv, Connect, history
<1>2. /\ socket[c] = "new" /\ socket' = [socket EXCEPT ![c] = "open"]
      /\ wsClients' = Append(wsClients, c)
      /\ seen' = [seen EXCEPT ![c] = status]
      /\ transport' = transport /\ status' = status /\ created' = created
      /\ claimedBy' = claimedBy /\ task' = task /\ knows' = knows /\ fans' = fans
      /\ channel' = channel /\ outages' = outages
      /\ raced' = raced /\ stumbled' = stumbled /\ missed' = missed
  BY DEF Connect, jobVars, history
<1>3. /\ wsClients \in Seq(Clients) /\ Len(wsClients) \in Nat /\ DOMAIN wsClients = 1..Len(wsClients)
      /\ socket \in [Clients -> {"new", "open", "closed", "gone"}]
      /\ status \in [Jobs -> Statuses] /\ seen \in [Clients -> [Jobs -> Statuses]]
  BY <1>1, FanJobs DEF WebTypes
<1>4. /\ wsClients' \in Seq(Clients) /\ Len(wsClients') = Len(wsClients) + 1
      /\ DOMAIN wsClients' = 1..(Len(wsClients) + 1)
      /\ wsClients'[Len(wsClients) + 1] = c
      /\ \A p \in DOMAIN wsClients : wsClients'[p] = wsClients[p] /\ p \in DOMAIN wsClients'
  <2>1. /\ wsClients' \in Seq(Clients) /\ Len(wsClients') = Len(wsClients) + 1
        /\ wsClients'[Len(wsClients) + 1] = c
        /\ \A p \in 1..Len(wsClients) : wsClients'[p] = wsClients[p]
    BY <1>2, <1>3, AppendProperties
  <2>2. DOMAIN wsClients' = 1..(Len(wsClients) + 1)
    BY <2>1, LenProperties
  <2> QED BY <1>3, <2>1, <2>2
<1>5. WebTypes'
  <2>1. seen' \in [Clients -> [Jobs -> Statuses]]
    BY <1>2, <1>3
  <2> QED BY <1>1, <1>2, <1>3, <1>4, <2>1 DEF WebTypes
<1>6. \A d \in Clients : d # c => socket'[d] = socket[d]
  BY <1>2, <1>3
<1>7. socket'[c] = "open"
  BY <1>2, <1>3
<1>8. \A p \in DOMAIN wsClients : wsClients[p] # c /\ wsClients[p] \in Clients
  BY <1>1, <1>2, FanJobs DEF PagesSound
<1>9. PagesSound'
  <2>1. ASSUME NEW m \in DOMAIN wsClients', NEW n \in DOMAIN wsClients', wsClients'[m] = wsClients'[n]
        PROVE  m = n
    <3>1. m \in DOMAIN wsClients \/ m = Len(wsClients) + 1
      BY <1>3, <1>4
    <3>2. n \in DOMAIN wsClients \/ n = Len(wsClients) + 1
      BY <1>3, <1>4
    <3> QED BY <1>1, <1>4, <1>8, <2>1, <3>1, <3>2 DEF PagesSound
  <2>2. ASSUME NEW n \in DOMAIN wsClients'
        PROVE  socket'[wsClients'[n]] \in {"open", "closed"}
    <3>1. n \in DOMAIN wsClients \/ n = Len(wsClients) + 1
      BY <1>3, <1>4
    <3> QED BY <1>1, <1>4, <1>6, <1>7, <1>8, <3>1 DEF PagesSound
  <2>3. ASSUME NEW d \in Clients, socket'[d] = "open"
        PROVE  \E n \in DOMAIN wsClients' : wsClients'[n] = d
    <3>1. CASE d = c
      <4>1. Len(wsClients) + 1 \in DOMAIN wsClients'
        BY <1>3, <1>4
      <4> QED BY <1>4, <3>1, <4>1
    <3>2. CASE d # c
      BY <1>1, <1>4, <1>6, <2>3, <3>2 DEF PagesSound
    <3> QED BY <3>1, <3>2
  <2>4. ASSUME NEW f \in DOMAIN fans, NEW i \in DOMAIN fans[f].dead
        PROVE  socket'[fans[f].dead[i]] \in {"closed", "gone"}
    <3>1. fans[f].dead[i] \in Clients
      <4>1. fans[f].dead \in Seq(Clients)
        BY <1>1, FanJobs
      <4> QED BY <4>1
    <3>2. socket[fans[f].dead[i]] \in {"closed", "gone"}
      BY <1>1 DEF PagesSound
    <3> QED BY <1>2, <1>6, <3>1, <3>2
  <2> QED BY <1>2, <2>1, <2>2, <2>3, <2>4 DEF PagesSound
<1>10. PagesIntact' = PagesIntact
  BY <1>2, <1>6, <1>7 DEF PagesIntact
<1>11. InOrder'
  <2>1. \A f \in DOMAIN fans : fans[f].at \in Nat
    BY <1>1, FanJobs
  <2> QED BY <1>1, <1>2, <1>3, <1>4, <1>10, <2>1 DEF InOrder
<1>12. Excused' = Excused
  BY <1>2, <1>10 DEF Excused
<1>13. FreshLocal' /\ FreshRedis'
  BY <1>1, <1>2, <1>12, StaysFresh
<1>14. Viewed'
  <2> SUFFICES ASSUME NEW d \in Clients, NEW k \in Jobs, socket'[d] = "open",
                      k \notin Excused, <<d, k>> \notin missed, status[k] # "pending",
                      seen'[d][k] # status[k]
               PROVE  Coming(d, k)'
    BY <1>2, <1>12 DEF Viewed
  <2>1. d # c /\ seen'[d] = seen[d]
    BY <1>2, <1>3
  <2>2. Coming(d, k)
    BY <1>1, <1>6, <2>1 DEF Viewed
  <2> QED BY <1>2, <1>4, <2>2 DEF Coming
<1> QED BY <1>1, <1>5, <1>9, <1>11, <1>13, <1>14 DEF WebInv

\* A page goes away.
LEMMA HangupStep ==
  ASSUME WebInv, NEW c \in Clients, Hangup(c)
  PROVE  WebInv'
<1>1. /\ WebTypes /\ PagesSound /\ InOrder /\ FreshLocal /\ FreshRedis /\ Viewed
      /\ FansSound' /\ JobsSound' /\ RunningIsOwned'
  BY OnlyPages DEF WebInv, Hangup
<1>2. /\ socket[c] = "open" /\ socket' = [socket EXCEPT ![c] = "closed"]
      /\ seen' = [seen EXCEPT ![c] = NothingSeen]
      /\ missed' = {p \in missed : p[1] # c}
      /\ transport' = transport /\ status' = status /\ created' = created
      /\ claimedBy' = claimedBy /\ task' = task /\ knows' = knows /\ fans' = fans
      /\ wsClients' = wsClients /\ channel' = channel /\ outages' = outages
      /\ raced' = raced /\ stumbled' = stumbled
  BY DEF Hangup, jobVars
<1>3. /\ socket \in [Clients -> {"new", "open", "closed", "gone"}]
      /\ seen \in [Clients -> [Jobs -> Statuses]]
      /\ socket'[c] = "closed" /\ \A d \in Clients : d # c => socket'[d] = socket[d] /\ seen'[d] = seen[d]
  BY <1>1, <1>2 DEF WebTypes
<1>4. WebTypes'
  <2>1. NothingSeen \in [Jobs -> Statuses]
    BY DEF NothingSeen, Statuses
  <2>2. seen' \in [Clients -> [Jobs -> Statuses]]
    BY <1>2, <1>3, <2>1
  <2> QED BY <1>1, <1>2, <1>3, <2>2 DEF WebTypes
<1>5. ~PagesIntact'
  BY <1>3 DEF PagesIntact
<1>6. PagesSound'
  <2>1. \A p \in DOMAIN wsClients : wsClients[p] \in Clients
    BY <1>1, FanJobs
  <2>2. ASSUME NEW f \in DOMAIN fans, NEW i \in DOMAIN fans[f].dead
        PROVE  socket'[fans[f].dead[i]] \in {"closed", "gone"}
    <3>1. fans[f].dead[i] \in Clients
      <4>1. fans[f].dead \in Seq(Clients)
        BY <1>1, FanJobs
      <4> QED BY <4>1
    <3>2. socket[fans[f].dead[i]] \in {"closed", "gone"}
      BY <1>1 DEF PagesSound
    <3> QED BY <1>3, <3>1, <3>2
  <2>3. \A n \in DOMAIN wsClients : socket'[wsClients[n]] \in {"open", "closed"}
    BY <1>1, <1>3, <2>1 DEF PagesSound
  <2>4. \A d \in Clients : socket'[d] = "open" => \E n \in DOMAIN wsClients : wsClients[n] = d
    BY <1>1, <1>3 DEF PagesSound
  <2> QED BY <1>1, <1>2, <2>2, <2>3, <2>4 DEF PagesSound
<1>7. InOrder'
  BY <1>1, <1>2, <1>5 DEF InOrder
<1>8. Excused \subseteq Excused'
  BY <1>2, <1>5 DEF Excused
<1>9. FreshLocal' /\ FreshRedis'
  BY <1>1, <1>2, <1>8, StaysFresh
<1>10. Viewed'
  <2> SUFFICES ASSUME NEW d \in Clients, NEW k \in Jobs, socket'[d] = "open",
                      k \notin Excused', <<d, k>> \notin missed', status[k] # "pending",
                      seen'[d][k] # status[k]
               PROVE  Coming(d, k)'
    BY <1>2 DEF Viewed
  <2>1. d # c /\ seen'[d] = seen[d] /\ socket[d] = "open"
    BY <1>3
  <2>2. <<d, k>> \notin missed
    BY <1>2, <2>1
  <2>3. Coming(d, k)
    BY <1>1, <1>8, <2>1, <2>2 DEF Viewed
  <2> QED BY <1>2, <2>3 DEF Coming
<1> QED BY <1>1, <1>4, <1>6, <1>7, <1>9, <1>10 DEF WebInv

\* A page that was still to come stays to come when others leave the list, or
\* has been skipped.
LEMMA Skips ==
  ASSUME WebTypes, PagesSound, FansSound, NEW gone, wsClients' = Kept(wsClients, gone),
         NEW c \in Clients, c \notin gone, socket[c] = "open",
         NEW f \in DOMAIN fans, NEW p \in DOMAIN wsClients, wsClients[p] = c, fans[f].at <= p
  PROVE  \/ \E q \in DOMAIN wsClients' : wsClients'[q] = c /\ fans[f].at <= q
         \/ <<c, fans[f].job>> \in SkippedBy(wsClients')
<1>1. /\ wsClients \in Seq(Clients) /\ DOMAIN wsClients = 1..Len(wsClients) /\ Len(wsClients) \in Nat
      /\ fans[f].at \in Nat /\ fans[f].via \in {"wire", "redis"}
      /\ \A m, n \in DOMAIN wsClients : wsClients[m] = wsClients[n] => m = n
  BY FanJobs DEF WebTypes, PagesSound
<1>2. PICK q \in DOMAIN wsClients' : wsClients'[q] = c
  BY <1>1, KeptList
<1>3. wsClients' \in Seq(Clients) /\ q \in Nat /\ q >= 1
  <2>1. wsClients' \in Seq(Clients)
    BY <1>1, KeptList
  <2> QED BY <1>2, <2>1, LenProperties
<1>4. CASE fans[f].at <= q
  BY <1>2, <1>4
<1>5. CASE ~(fans[f].at <= q)
  <2>1. fans[f].via = "wire"
    BY <1>1, <1>3, <1>5 DEF FansSound
  <2>2. c \in Passed(wsClients', fans[f])
    BY <1>1, <1>2, <1>3, <1>5 DEF Passed
  <2>3. c \notin Passed(wsClients, fans[f])
    BY <1>1 DEF Passed
  <2>4. c \in Pages
    BY DEF Pages
  <2>5. <<c, fans[f].job>> \in {<<d, fans[f].job>> : d \in Pages \cap (Passed(wsClients', fans[f]) \ Passed(wsClients, fans[f]))}
    BY <2>2, <2>3, <2>4
  <2> QED BY <2>1, <2>5 DEF SkippedBy
<1> QED BY <1>4, <1>5

\* The list without some pages that are not open.
LEMMA ListShrinks ==
  ASSUME WebTypes, PagesSound, NEW gone, wsClients' = Kept(wsClients, gone)
  PROVE  /\ wsClients' \in Seq(Clients) /\ Len(wsClients') \in Nat
         /\ \A m, n \in DOMAIN wsClients' : wsClients'[m] = wsClients'[n] => m = n
         /\ \A n \in DOMAIN wsClients' : wsClients'[n] \notin gone /\ wsClients'[n] \in Clients
                                         /\ socket[wsClients'[n]] \in {"open", "closed"}
         /\ \A c \in Clients : socket[c] = "open" /\ c \notin gone =>
              \E n \in DOMAIN wsClients' : wsClients'[n] = c
         /\ (\A p \in DOMAIN wsClients : wsClients[p] \notin gone) => Len(wsClients') = Len(wsClients)
<1>1. /\ wsClients \in Seq(Clients)
      /\ \A m, n \in DOMAIN wsClients : wsClients[m] = wsClients[n] => m = n
  BY DEF WebTypes, PagesSound
<1>2. /\ wsClients' \in Seq(Clients)
      /\ \A m, n \in DOMAIN wsClients' : wsClients'[m] = wsClients'[n] => m = n
      /\ \A n \in DOMAIN wsClients' : wsClients'[n] \notin gone /\ \E m \in DOMAIN wsClients : wsClients'[n] = wsClients[m]
      /\ \A m \in DOMAIN wsClients : wsClients[m] \notin gone => \E n \in DOMAIN wsClients' : wsClients'[n] = wsClients[m]
      /\ (\A m \in DOMAIN wsClients : wsClients[m] \notin gone) => Len(wsClients') = Len(wsClients)
  BY <1>1, KeptList
<1>3. Len(wsClients') \in Nat
  BY <1>2, LenProperties
<1>4. \A n \in DOMAIN wsClients' : wsClients'[n] \in Clients /\ socket[wsClients'[n]] \in {"open", "closed"}
  BY <1>2, FanJobs DEF PagesSound
<1>5. \A c \in Clients : socket[c] = "open" /\ c \notin gone =>
        \E n \in DOMAIN wsClients' : wsClients'[n] = c
  BY <1>2 DEF PagesSound
<1> QED BY <1>2, <1>3, <1>4, <1>5

\* Who is skipped is a client, and misses an update of a job.
LEMMA SkippedTypes ==
  ASSUME WebTypes, NEW list
  PROVE  SkippedBy(list) \subseteq Clients \X Jobs
<1>1. ASSUME NEW s \in SkippedBy(list)
      PROVE  s \in Clients \X Jobs
  <2>1. PICK f \in {g \in DOMAIN fans : fans[g].via = "wire"} :
           s \in {<<c, fans[f].job>> : c \in Pages \cap (Passed(list, fans[f]) \ Passed(wsClients, fans[f]))}
    BY <1>1 DEF SkippedBy
  <2>2. PICK c \in Pages : s = <<c, fans[f].job>>
    BY <2>1
  <2>3. fans[f].job \in Jobs /\ c \in Clients
    BY <2>1, <2>2, FanJobs DEF Pages
  <2> QED BY <2>2, <2>3
<1> QED BY <1>1

\* The endpoint of a page that went away removes it.
LEMMA EndpointEndsStep ==
  ASSUME WebInv, NEW c \in Clients, EndpointEnds(c)
  PROVE  WebInv'
<1>1. /\ WebTypes /\ PagesSound /\ FansSound /\ InOrder /\ FreshLocal /\ FreshRedis /\ Viewed
      /\ FansSound' /\ JobsSound' /\ RunningIsOwned'
  BY OnlyPages DEF WebInv, EndpointEnds
<1>2. /\ socket[c] = "closed" /\ socket' = [socket EXCEPT ![c] = "gone"]
      /\ wsClients' = Kept(wsClients, {c})
      /\ missed' = missed \cup SkippedBy(wsClients')
      /\ transport' = transport /\ status' = status /\ created' = created
      /\ claimedBy' = claimedBy /\ task' = task /\ knows' = knows /\ fans' = fans
      /\ seen' = seen /\ channel' = channel /\ outages' = outages
      /\ raced' = raced /\ stumbled' = stumbled
  BY DEF EndpointEnds, jobVars
<1>3. /\ socket \in [Clients -> {"new", "open", "closed", "gone"}]
      /\ socket'[c] = "gone" /\ \A d \in Clients : d # c => socket'[d] = socket[d]
  BY <1>1, <1>2 DEF WebTypes
<1>4. /\ wsClients' \in Seq(Clients)
      /\ \A m, n \in DOMAIN wsClients' : wsClients'[m] = wsClients'[n] => m = n
      /\ \A n \in DOMAIN wsClients' : wsClients'[n] # c /\ wsClients'[n] \in Clients
                                      /\ socket[wsClients'[n]] \in {"open", "closed"}
      /\ \A d \in Clients : socket[d] = "open" =>
           \E n \in DOMAIN wsClients' : wsClients'[n] = d
  <2>1. /\ wsClients' \in Seq(Clients)
        /\ \A m, n \in DOMAIN wsClients' : wsClients'[m] = wsClients'[n] => m = n
        /\ \A n \in DOMAIN wsClients' : wsClients'[n] \notin {c} /\ wsClients'[n] \in Clients
                                        /\ socket[wsClients'[n]] \in {"open", "closed"}
        /\ \A d \in Clients : socket[d] = "open" /\ d \notin {c} =>
             \E n \in DOMAIN wsClients' : wsClients'[n] = d
    BY <1>1, <1>2, ListShrinks
  <2>2. \A d \in Clients : socket[d] = "open" => d \notin {c}
    BY <1>2
  <2> QED BY <2>1, <2>2
<1>5. WebTypes'
  BY <1>1, <1>2, <1>3, <1>4, SkippedTypes DEF WebTypes
<1>6. ~PagesIntact /\ ~PagesIntact'
  BY <1>2, <1>3 DEF PagesIntact
<1>7. PagesSound'
  <2>1. ASSUME NEW f \in DOMAIN fans, NEW i \in DOMAIN fans[f].dead
        PROVE  socket'[fans[f].dead[i]] \in {"closed", "gone"}
    <3>1. fans[f].dead[i] \in Clients
      <4>1. fans[f].dead \in Seq(Clients)
        BY <1>1, FanJobs
      <4> QED BY <4>1
    <3>2. socket[fans[f].dead[i]] \in {"closed", "gone"}
      BY <1>1 DEF PagesSound
    <3> QED BY <1>3, <3>1, <3>2
  <2>2. \A n \in DOMAIN wsClients' : socket'[wsClients'[n]] \in {"open", "closed"}
    BY <1>3, <1>4
  <2>3. \A d \in Clients : socket'[d] = "open" => \E n \in DOMAIN wsClients' : wsClients'[n] = d
    BY <1>3, <1>4
  <2> QED BY <1>2, <1>4, <2>1, <2>2, <2>3 DEF PagesSound
<1>8. InOrder'
  BY <1>1, <1>2, <1>6 DEF InOrder
<1>9. Excused' = Excused
  BY <1>2, <1>6 DEF Excused
<1>10. FreshLocal' /\ FreshRedis'
  BY <1>1, <1>2, <1>9, StaysFresh
<1>11. Viewed'
  <2> SUFFICES ASSUME NEW d \in Clients, NEW k \in Jobs, socket'[d] = "open",
                      k \notin Excused, <<d, k>> \notin missed', status[k] # "pending",
                      seen[d][k] # status[k]
               PROVE  Coming(d, k)'
    BY <1>2, <1>9 DEF Viewed
  <2>1. d # c /\ socket[d] = "open" /\ <<d, k>> \notin missed
    BY <1>2, <1>3
  <2>2. Coming(d, k)
    BY <1>1, <2>1 DEF Viewed
  <2>3. CASE \E n \in DOMAIN channel : channel[n].job = k
    BY <1>2, <2>3 DEF Coming
  <2>4. ASSUME NEW f \in DOMAIN fans, NEW p \in DOMAIN wsClients,
               fans[f].job = k, wsClients[p] = d, fans[f].at <= p
        PROVE  Coming(d, k)'
    <3>1. d \notin {c}
      BY <2>1
    <3>2. \/ \E q \in DOMAIN wsClients' : wsClients'[q] = d /\ fans[f].at <= q
          \/ <<d, fans[f].job>> \in SkippedBy(wsClients')
      BY <1>1, <1>2, <2>1, <2>4, <3>1, Skips
    <3> QED BY <1>2, <2>4, <3>2 DEF Coming
  <2> QED BY <2>2, <2>3, <2>4 DEF Coming
<1> QED BY <1>1, <1>5, <1>7, <1>8, <1>10, <1>11 DEF WebInv

-------------------------------------------------------------------------------
(* Updates reach the pages.                                                 *)

\* An update reaches a page: it is the youngest one of its job, or a younger
\* one has yet to come.
LEMMA DeliverStep ==
  ASSUME WebInv, NEW f \in DOMAIN fans, Deliver(f)
  PROVE  WebInv'
<1> DEFINE c == wsClients[fans[f].at]
<1>1. /\ WebTypes /\ PagesSound /\ FansSound /\ JobsSound /\ InOrder /\ FreshLocal /\ FreshRedis
      /\ Viewed /\ RunningIsOwned
  BY DEF WebInv
<1>2. /\ fans[f].via = "wire" /\ fans[f].at <= Len(wsClients) /\ InTurn(f)
      /\ transport' = transport /\ status' = status /\ created' = created
      /\ claimedBy' = claimedBy /\ task' = task /\ knows' = knows
      /\ wsClients' = wsClients /\ socket' = socket /\ subscribed' = subscribed
      /\ channel' = channel /\ outages' = outages
      /\ raced' = raced /\ stumbled' = stumbled
      /\ \/ /\ socket[c] = "open"
            /\ seen' = [seen EXCEPT ![c][fans[f].job] = fans[f].shown]
            /\ missed' = missed \ {<<c, fans[f].job>>}
            /\ fans' = [fans EXCEPT ![f].at = @ + 1]
         \/ /\ socket[c] # "open"
            /\ fans' = [fans EXCEPT ![f].at = @ + 1, ![f].dead = Append(@, c)]
            /\ seen' = seen /\ missed' = missed
  BY DEF Deliver, jobVars
<1>3. /\ DOMAIN fans = 1..Len(fans) /\ Len(fans) \in Nat
      /\ \A g \in DOMAIN fans : /\ fans[g] \in FanRecord /\ fans[g].job \in Jobs
                                /\ fans[g].at \in Nat /\ fans[g].at >= 1
                                /\ fans[g].shown \in Shown /\ fans[g].via \in {"wire", "redis"}
      /\ DOMAIN wsClients = 1..Len(wsClients) /\ Len(wsClients) \in Nat
      /\ \A p \in DOMAIN wsClients : wsClients[p] \in Clients
  BY <1>1, FanJobs
<1>4. fans[f].at \in DOMAIN wsClients /\ c \in Clients
  BY <1>2, <1>3, SMTT(60)
<1> HIDE DEF c
<1>5. Advanced(f)
  BY <1>1, <1>2, <1>4, MovedOn, FoundDead
<1>6. /\ fans' \in Seq(FanRecord) /\ DOMAIN fans' = DOMAIN fans
      /\ \A g \in DOMAIN fans : g # f => fans'[g] = fans[g]
      /\ \A g \in DOMAIN fans : /\ fans'[g].owner = fans[g].owner /\ fans'[g].job = fans[g].job
                                /\ fans'[g].shown = fans[g].shown /\ fans'[g].via = fans[g].via
      /\ fans'[f].at = fans[f].at + 1
  BY <1>5 DEF Advanced
<1>7. WebTypes'
  <2>1. seen' \in [Clients -> [Jobs -> Statuses]] /\ missed' \subseteq Clients \X Jobs
    <3>1. PICK k \in Jobs, s \in Statuses : k = fans[f].job /\ s = fans[f].shown
      BY <1>3 DEF Statuses
    <3>2. \/ seen' = [seen EXCEPT ![c][k] = s] /\ missed' = missed \ {<<c, k>>}
          \/ seen' = seen /\ missed' = missed
      BY <1>2, <3>1
    <3>3. seen \in [Clients -> [Jobs -> Statuses]] /\ missed \subseteq Clients \X Jobs
      BY <1>1 DEF WebTypes
    <3>4. [seen EXCEPT ![c][k] = s] \in [Clients -> [Jobs -> Statuses]]
      BY <1>4, <3>3
    <3> QED BY <3>2, <3>3, <3>4
  <2> QED BY <1>1, <1>2, <1>6, <2>1 DEF WebTypes
<1>8. PagesIntact' = PagesIntact
  BY <1>2 DEF PagesIntact
<1>9. Excused' = Excused /\ Direct' = Direct
  <2>1. Direct' = Direct
    BY <1>6 DEF Direct
  <2> QED BY <1>2, <1>8, <2>1 DEF Excused
<1>10. PagesSound'
  <2>1. ASSUME NEW g \in DOMAIN fans, NEW i \in DOMAIN fans'[g].dead
        PROVE  socket[fans'[g].dead[i]] \in {"closed", "gone"}
    <3>1. CASE g # f \/ fans'[f].dead = fans[f].dead
      BY <1>1, <1>6, <2>1, <3>1 DEF PagesSound
    <3>2. CASE g = f /\ fans'[f].dead # fans[f].dead
      <4>1. socket[c] # "open" /\ fans'[f].dead = Append(fans[f].dead, c)
        BY <1>1, <1>2, <1>4, <3>2, MovedOn, FoundDead
      <4>2. socket[c] = "closed"
        BY <1>1, <1>4, <4>1 DEF PagesSound, c
      <4>3. /\ DOMAIN fans[f].dead = 1..Len(fans[f].dead) /\ Len(fans[f].dead) \in Nat
            /\ DOMAIN Append(fans[f].dead, c) = 1..(Len(fans[f].dead) + 1)
            /\ \A l \in 1..Len(fans[f].dead) : Append(fans[f].dead, c)[l] = fans[f].dead[l]
            /\ Append(fans[f].dead, c)[Len(fans[f].dead) + 1] = c
        <5>1. fans[f] \in FanRecord
          BY <1>3
        <5> QED BY <1>4, <5>1, FanStays
      <4>4. i \in DOMAIN fans[f].dead \/ i = Len(fans[f].dead) + 1
        BY <2>1, <3>2, <4>1, <4>3
      <4> QED BY <1>1, <3>2, <4>1, <4>2, <4>3, <4>4, SMTT(60) DEF PagesSound
    <3> QED BY <3>1, <3>2
  <2> QED BY <1>1, <1>2, <1>6, <2>1 DEF PagesSound
<1>11. FansSound'
  <2>1. \A g \in DOMAIN fans : Awaited(fans[g].owner, fans[g].job)'
    <3> SUFFICES ASSUME NEW g \in DOMAIN fans
                 PROVE  Awaited(fans[g].owner, fans[g].job)'
      OBVIOUS
    <3>1. PICK o, k : o = fans[g].owner /\ k = fans[g].job
      OBVIOUS
    <3>2. Awaited(o, k)
      BY <1>1, <3>1 DEF FansSound
    <3>3. Awaited(o, k)'
      BY <1>2, <3>2 DEF Awaited
    <3> QED BY <1>6, <3>1, <3>3
  <2>2. \A g \in DOMAIN fans : fans'[g].via = "redis" => fans'[g].at = 1 /\ fans'[g].owner # "relay"
    BY <1>1, <1>2, <1>6 DEF FansSound
  <2>3. \A g, h \in DOMAIN fans :
          SameSide(fans'[g].owner, fans'[h].owner)
            /\ (fans'[g].job = fans'[h].job \/ fans'[g].owner = "relay") => g = h
    BY <1>1, <1>6 DEF FansSound
  <2> QED BY <1>1, <1>2, <1>6, <2>1, <2>2, <2>3, SMTT(60) DEF FansSound
<1>12. JobsSound' /\ RunningIsOwned'
  <2>1. JobsSound'
    BY <1>1, <1>2, <1>6 DEF JobsSound, JobSound
  <2>2. RunningIsOwned'
    BY <1>1, <1>2, <1>6 DEF RunningIsOwned
  <2> QED BY <2>1, <2>2
<1>13. InOrder'
  <2>1. ASSUME transport = "local", NEW h \in DOMAIN fans, NEW g \in DOMAIN fans, g < h
        PROVE  fans'[h].at <= fans'[g].at
    <3>1. fans[h].at <= fans[g].at /\ fans[h].at \in Nat /\ fans[g].at \in Nat
      BY <1>1, <1>3, <2>1 DEF InOrder
    <3>2. CASE h = f
      <4>1. g \in 1..(f - 1) /\ fans[g].via = "wire"
        BY <1>1, <1>3, <2>1, <3>2 DEF FansSound
      <4>2. fans[g].at > fans[f].at
        BY <1>2, <4>1 DEF InTurn
      <4> QED BY <1>3, <1>6, <2>1, <3>1, <3>2, <4>2
    <3>3. CASE g = f
      BY <1>3, <1>6, <2>1, <3>1, <3>3
    <3>4. CASE g # f /\ h # f
      BY <1>6, <3>1, <3>4
    <3> QED BY <3>2, <3>3, <3>4
  <2>2. ASSUME PagesIntact, NEW h \in DOMAIN fans
        PROVE  fans'[h].at <= Len(wsClients) + 1
    BY <1>1, <1>2, <1>3, <1>6, <2>2, SMTT(60) DEF InOrder
  <2> QED BY <1>2, <1>6, <1>8, <2>1, <2>2 DEF InOrder
<1>14. FreshLocal' /\ FreshRedis'
  BY <1>1, <1>2, <1>6, <1>9 DEF FreshLocal, FreshRedis
<1>15. Viewed'
  <2> SUFFICES ASSUME NEW d \in Clients, NEW k \in Jobs, socket[d] = "open",
                      k \notin Excused, <<d, k>> \notin missed', status[k] # "pending",
                      seen'[d][k] # status[k]
               PROVE  Coming(d, k)'
    BY <1>2, <1>9 DEF Viewed
  <2>1. ASSUME NEW g \in DOMAIN fans, g # f, fans[g].job = k, NEW p \in DOMAIN wsClients,
               wsClients[p] = d, fans[g].at <= p
        PROVE  Coming(d, k)'
    BY <1>2, <1>6, <2>1 DEF Coming
  <2>2. CASE \E m \in DOMAIN channel : channel[m].job = k
    BY <1>2, <2>2 DEF Coming
  <2>3. CASE d = c /\ k = fans[f].job
    <3>1. PICK p \in DOMAIN wsClients : wsClients[p] = d /\ p = fans[f].at
      BY <1>4, <2>3 DEF c
    <3>2. fans[f].shown # status[k]
      <4>1. seen'[c][fans[f].job] = fans[f].shown
        BY <1>1, <1>2, <1>3, <1>4, <2>3 DEF WebTypes
      <4> QED BY <2>3, <4>1
    <3>3. CASE transport = "local"
      <4>1. PICK g \in DOMAIN fans : f < g /\ fans[g].job = k
        BY <1>1, <2>3, <3>2, <3>3 DEF FreshLocal
      <4>2. fans[g].at <= p /\ g # f
        BY <1>1, <1>3, <3>1, <3>3, <4>1 DEF InOrder
      <4> QED BY <2>1, <3>1, <4>1, <4>2
    <3>4. CASE transport = "redis"
      <4>1. outages = 0
        BY <1>1, <3>4 DEF Excused, WebTypes
      <4>2. CASE k \in Direct
        <5>1. PICK g \in DOMAIN fans : fans[g].job = k /\ fans[g].owner # "relay"
          BY <4>2 DEF Direct
        <5>2. fans[g].via = "redis" /\ fans[g].at = 1 /\ g # f
          BY <1>1, <1>2, <3>4, <4>1, <5>1 DEF FansSound
        <5>3. fans[g].at <= p
          BY <1>3, <5>2
        <5> QED BY <2>1, <3>1, <5>1, <5>2, <5>3
      <4>3. CASE k \notin Direct
        BY <1>1, <2>2, <2>3, <3>2, <3>4, <4>3 DEF FreshRedis
      <4> QED BY <4>2, <4>3
    <3> QED BY <1>1, <3>3, <3>4 DEF WebTypes
  <2>4. CASE d # c \/ k # fans[f].job
    <3>1. seen'[d][k] = seen[d][k] /\ <<d, k>> \notin missed
      BY <1>1, <1>2, <1>3, <1>4, <2>4 DEF WebTypes
    <3>2. Coming(d, k)
      BY <1>1, <3>1 DEF Viewed
    <3>3. ASSUME NEW p \in DOMAIN wsClients, wsClients[p] = d, fans[f].at <= p, fans[f].job = k
          PROVE  Coming(d, k)'
      <4>1. p # fans[f].at
        BY <2>4, <3>3 DEF c
      <4>2. fans'[f].at <= p /\ fans'[f].job = k
        BY <1>3, <1>6, <3>3, <4>1
      <4> QED BY <1>2, <1>6, <3>3, <4>2 DEF Coming
    <3> QED BY <2>1, <2>2, <3>2, <3>3 DEF Coming
  <2> QED BY <2>3, <2>4
<1> QED BY <1>7, <1>10, <1>11, <1>12, <1>13, <1>14, <1>15 DEF WebInv

-------------------------------------------------------------------------------
(* A broadcast is over.                                                     *)

\* What its owner, which waited for the f-th fan about j, does; if the n-th
\* fan is there it is the failure the owner reports next.
Resumed(f, n, j, owner) ==
  /\ Gone(f, n)
  /\ \A k \in Jobs : k # j => Untouched(k)
  /\ task' \in [Jobs -> {"none", "ready", "opening", "running", "closing", "failing", "over"}]
  /\ knows' \subseteq Jobs /\ stumbled' \subseteq Jobs /\ stumbled \subseteq stumbled'
  /\ owner # "claim" => knows' = knows
  /\ owner = "claim" => knows \subseteq knows' /\ (j \in knows' \/ j \in stumbled')
  /\ owner = "open" => task'[j] = "running" \/ (task'[j] = "over" /\ j \in stumbled')
  /\ owner \in {"close", "fail"} => task'[j] \in {"failing", "over"}
  /\ owner \notin TaskSide => task'[j] = task[j]
  /\ \/ n \notin DOMAIN fans' /\ status' = status
     \/ /\ n \in DOMAIN fans' /\ fans'[n].owner = "fail" /\ fans'[n].job = j
        /\ fans'[n].shown = "error" /\ fans'[n].via = "wire" /\ fans'[n].at = 1
        /\ fans'[n].dead = <<>>
        /\ status' = [status EXCEPT ![j] = "error"] /\ task'[j] = "failing"
        /\ owner = "close" /\ transport = "local"

\* Resume does one of the two.
LEMMA Resumes ==
  ASSUME WebTypes, NEW f \in DOMAIN fans, NEW raised \in BOOLEAN, Resume(f, raised),
         UNCHANGED claimedBy,
         NEW j, j = fans[f].job, NEW owner, owner = fans[f].owner
  PROVE  \E n : Resumed(f, n, j, owner)
<1> DEFINE bad == raised /\ transport = "local"
           new == CASE owner = "open" /\ ~bad -> "running"
                    [] owner = "open" /\ bad -> "over"
                    [] owner \in {"close", "fail"} -> "over"
                    [] OTHER -> task[j]
           n == Len(fans)
<1>1. /\ j \in Jobs /\ owner \in TaskSide \cup WorkerSide \cup {"relay"} /\ n \in Nat
      /\ status \in [Jobs -> Statuses]
      /\ task \in [Jobs -> {"none", "ready", "opening", "running", "closing", "failing", "over"}]
      /\ knows \subseteq Jobs /\ stumbled \subseteq Jobs
  BY FanJobs DEF WebTypes
<1>2. /\ stumbled' = IF bad THEN stumbled \cup {j} ELSE stumbled
      /\ knows' = IF owner = "claim" /\ ~bad THEN knows \cup {j} ELSE knows
      /\ \/ /\ bad /\ owner = "close"
            /\ status' = [status EXCEPT ![j] = "error"]
            /\ task' = [task EXCEPT ![j] = "failing"]
            /\ fans' = Append(RemoveAt(fans, f), Fan("fail", j, "error", "wire"))
         \/ /\ task' = [task EXCEPT ![j] = new]
            /\ fans' = RemoveAt(fans, f)
            /\ status' = status
  <2>1. stumbled' = IF bad THEN stumbled \cup {j} ELSE stumbled
    BY DEF Resume
  <2>2. knows' = IF owner = "claim" /\ ~bad THEN knows \cup {j} ELSE knows
    BY DEF Resume
  <2>3. \/ /\ bad /\ owner = "close"
           /\ status' = [status EXCEPT ![j] = "error"]
           /\ task' = [task EXCEPT ![j] = "failing"]
           /\ fans' = Append(RemoveAt(fans, f), Fan("fail", j, "error", "wire"))
        \/ /\ task' = [task EXCEPT ![j] = new]
           /\ fans' = RemoveAt(fans, f)
           /\ status' = status
    <3>1. CASE bad /\ owner = "close"
      BY <3>1 DEF Resume
    <3>2. CASE ~(bad /\ owner = "close")
      BY <3>2 DEF Resume
    <3> QED BY <3>1, <3>2
  <2> QED BY <2>1, <2>2, <2>3
<1>3. /\ owner = "open" => new = "running" \/ (new = "over" /\ bad)
      /\ owner \in {"close", "fail"} => new = "over"
      /\ owner \notin TaskSide => new = task[j]
      /\ new \in {"none", "ready", "opening", "running", "closing", "failing", "over"}
  <2>1. CASE owner = "open"
    <3> HIDE DEF bad
    <3>1. CASE bad
      <4>1. new = "over"
        BY <2>1, <3>1
      <4> QED BY <2>1, <3>1, <4>1 DEF TaskSide
    <3>2. CASE ~bad
      <4>1. new = "running"
        BY <2>1, <3>2
      <4> QED BY <2>1, <4>1 DEF TaskSide
    <3> QED BY <3>1, <3>2
  <2>2. CASE owner \in {"close", "fail"}
    BY <1>1, <2>2 DEF TaskSide
  <2>3. CASE owner \notin TaskSide
    BY <1>1, <2>3 DEF TaskSide
  <2> QED BY <1>1, <2>1, <2>2, <2>3 DEF TaskSide
<1>4. bad => transport = "local"
  OBVIOUS
<1> HIDE DEF bad, new
<1>5. /\ knows' \subseteq Jobs /\ stumbled' \subseteq Jobs /\ stumbled \subseteq stumbled'
      /\ bad => j \in stumbled'
      /\ owner # "claim" => knows' = knows
      /\ owner = "claim" => knows \subseteq knows' /\ (j \in knows' \/ j \in stumbled')
  BY <1>1, <1>2
<1>6. \A k \in Jobs : k # j => Untouched(k)
  <2> SUFFICES ASSUME NEW k \in Jobs, k # j PROVE Untouched(k)
    OBVIOUS
  <2>1. k \in knows' <=> k \in knows
    BY <1>2
  <2>2. status'[k] = status[k] /\ task'[k] = task[k]
    BY <1>1, <1>2
  <2> QED BY <2>1, <2>2 DEF Untouched
<1>7. CASE /\ task' = [task EXCEPT ![j] = new]
           /\ fans' = RemoveAt(fans, f)
           /\ status' = status
  <2>1. Gone(f, n) /\ n \notin DOMAIN fans'
    BY <1>7, FanOver
  <2> HIDE DEF n
  <2>2. /\ task' \in [Jobs -> {"none", "ready", "opening", "running", "closing", "failing", "over"}]
        /\ task'[j] = new
    BY <1>1, <1>3, <1>7
  <2>3. /\ owner = "open" => task'[j] = "running" \/ (task'[j] = "over" /\ j \in stumbled')
        /\ owner \in {"close", "fail"} => task'[j] \in {"failing", "over"}
        /\ owner \notin TaskSide => task'[j] = task[j]
    BY <1>3, <1>5, <2>2
  <2>4. Resumed(f, n, j, owner)
    BY <1>5, <1>6, <1>7, <2>1, <2>2, <2>3 DEF Resumed
  <2> QED BY <2>4
<1>8. CASE /\ bad /\ owner = "close"
           /\ status' = [status EXCEPT ![j] = "error"]
           /\ task' = [task EXCEPT ![j] = "failing"]
           /\ fans' = Append(RemoveAt(fans, f), Fan("fail", j, "error", "wire"))
  <2>1. "error" \in Shown /\ "fail" \in TaskSide
    BY DEF Shown, Finished, TaskSide
  <2>2. /\ Gone(f, n) /\ n \in DOMAIN fans'
        /\ fans'[n] = Fan("fail", j, "error", "wire")
    BY <1>1, <1>8, <2>1, FanFollowed
  <2> HIDE DEF n
  <2>3. /\ fans'[n].owner = "fail" /\ fans'[n].job = j /\ fans'[n].shown = "error"
        /\ fans'[n].via = "wire" /\ fans'[n].at = 1 /\ fans'[n].dead = <<>>
    BY <1>1, <2>1, <2>2, FanFields
  <2>4. /\ task' \in [Jobs -> {"none", "ready", "opening", "running", "closing", "failing", "over"}]
        /\ task'[j] = "failing"
    BY <1>1, <1>8
  <2>5. "close" \in TaskSide
    BY DEF TaskSide
  <2>6. Resumed(f, n, j, owner)
    BY <1>4, <1>5, <1>6, <1>8, <2>2, <2>3, <2>4, <2>5 DEF Resumed
  <2> QED BY <2>6
<1> QED BY <1>2, <1>7, <1>8

\* What is left of the fans, and what was left of them before.
LEMMA Leftover ==
  ASSUME WebTypes, NEW f \in DOMAIN fans, NEW n, Gone(f, n)
  PROVE  /\ \A i \in DOMAIN fans' \ {n} : \E g \in DOMAIN fans : g # f /\ g = Before(i, f) /\ fans'[i] = fans[g]
         /\ \A g \in DOMAIN fans : g # f => \E i \in DOMAIN fans' \ {n} : g = Before(i, f) /\ fans'[i] = fans[g]
         /\ \A i, k \in DOMAIN fans' \ {n} : i < k <=> Before(i, f) < Before(k, f)
         /\ \A i, k \in DOMAIN fans' \ {n} : Before(i, f) = Before(k, f) => i = k
         /\ \A i \in DOMAIN fans' \ {n} : i < n /\ i \in Nat
<1>1. DOMAIN fans = 1..Len(fans) /\ Len(fans) \in Nat
  BY FanJobs
<1>2. DOMAIN fans' = 1..Len(fans') /\ Len(fans') \in Nat /\ n \in Nat
  BY LenProperties DEF Gone
<1>3. /\ \A i, k \in DOMAIN fans' \ {n} : i < k <=> Before(i, f) < Before(k, f)
      /\ \A i, k \in DOMAIN fans' \ {n} : Before(i, f) = Before(k, f) => i = k
  BY <1>1, <1>2 DEF Before
<1> QED BY <1>2, <1>3 DEF Gone

\* The jobs and what their broadcasts wait for.
LEMMA ResumeSound ==
  ASSUME WebInv, NEW f \in DOMAIN fans, NEW n, NEW j, NEW owner,
         j = fans[f].job, owner = fans[f].owner, Resumed(f, n, j, owner),
         UNCHANGED <<transport, created, claimedBy, subscribed, outages, raced>>,
         transport = "local" => channel' = <<>>,
         \A m \in DOMAIN channel' : channel'[m].job # j =>
           \E l \in DOMAIN channel : channel[l].job = channel'[m].job
  PROVE  FansSound' /\ JobsSound' /\ RunningIsOwned'
<1>1. /\ WebTypes /\ FansSound /\ JobsSound /\ RunningIsOwned
      /\ transport' = transport /\ created' = created /\ claimedBy' = claimedBy
      /\ subscribed' = subscribed /\ outages' = outages /\ raced' = raced
  BY DEF WebInv
<1>2. /\ \A g \in DOMAIN fans : fans[g].job \in Jobs
                                /\ fans[g].owner \in TaskSide \cup WorkerSide \cup {"relay"}
      /\ j \in Jobs /\ owner \in TaskSide \cup WorkerSide \cup {"relay"}
  BY <1>1, FanJobs
<1>3. /\ \A i \in DOMAIN fans' \ {n} : \E g \in DOMAIN fans : g # f /\ g = Before(i, f) /\ fans'[i] = fans[g]
      /\ \A g \in DOMAIN fans : g # f => \E i \in DOMAIN fans' \ {n} : g = Before(i, f) /\ fans'[i] = fans[g]
      /\ \A i, k \in DOMAIN fans' \ {n} : Before(i, f) = Before(k, f) => i = k
  BY <1>1, Leftover DEF Resumed
<1>4. /\ \A k \in Jobs : k # j => Untouched(k)
      /\ stumbled \subseteq stumbled'
      /\ owner # "claim" => knows' = knows
      /\ owner = "claim" => knows \subseteq knows' /\ (j \in knows' \/ j \in stumbled')
      /\ owner = "open" => task'[j] = "running" \/ (task'[j] = "over" /\ j \in stumbled')
      /\ owner \in {"close", "fail"} => task'[j] \in {"failing", "over"}
      /\ owner \notin TaskSide => task'[j] = task[j]
  BY DEF Resumed
<1>5. \/ n \notin DOMAIN fans' /\ status'[j] = status[j]
      \/ /\ n \in DOMAIN fans' /\ fans'[n].owner = "fail" /\ fans'[n].job = j
         /\ fans'[n].via = "wire" /\ fans'[n].at = 1
         /\ status'[j] = "error" /\ task'[j] = "failing" /\ owner = "close" /\ transport = "local"
  BY <1>1, <1>2 DEF Resumed, WebTypes
<1>6. Awaited(owner, j)
  BY <1>1 DEF FansSound
<1>7. status[j] \notin {"absent", "pending"} /\ JobSound(j)
  BY <1>1, <1>2 DEF JobsSound, JobSound
<1>8. ASSUME NEW g \in DOMAIN fans, g # f, NEW o, NEW k, o = fans[g].owner, k = fans[g].job
      PROVE  Awaited(o, k)'
  <2>1. Awaited(o, k)
    BY <1>1, <1>8 DEF FansSound
  <2>2. CASE k # j
    BY <1>2, <1>4, <1>8, <2>1, <2>2, AwaitedStays
  <2>3. CASE k = j
    <3>1. ~SameSide(o, owner)
      BY <1>1, <1>8, <2>3 DEF FansSound
    <3>2. CASE owner \in TaskSide
      <4>1. o \notin TaskSide /\ o # "open" /\ o # "close" /\ o # "fail" /\ owner # "claim"
        BY <3>1, <3>2 DEF SameSide, TaskSide
      <4>2. task'[j] \notin {"none", "ready"}
        BY <1>4, <3>2 DEF TaskSide
      <4> QED BY <1>1, <1>4, <2>1, <2>3, <4>1, <4>2 DEF Awaited
    <3>3. CASE owner \notin TaskSide
      <4>1. task'[j] = task[j] /\ status'[j] = status[j]
        BY <1>4, <1>5, <3>3 DEF TaskSide
      <4>2. o \in WorkerSide => owner # "claim"
        BY <3>1 DEF SameSide, WorkerSide
      <4>3. o \in WorkerSide => knows' = knows
        BY <1>4, <4>2
      <4> QED BY <1>1, <2>1, <2>3, <4>1, <4>3 DEF Awaited, WorkerSide
    <3> QED BY <3>2, <3>3
  <2> QED BY <2>2, <2>3
<1>9. \A i \in DOMAIN fans' : Awaited(fans[i].owner, fans[i].job)'
  <2>1. ASSUME NEW i \in DOMAIN fans', NEW o, NEW k, o = fans'[i].owner, k = fans'[i].job
        PROVE  Awaited(o, k)'
    <3>1. CASE i = n
      BY <1>5, <2>1, <3>1 DEF Awaited, WorkerSide
    <3>2. CASE i # n
      BY <1>3, <1>8, <2>1, <3>2
    <3> QED BY <3>1, <3>2
  <2> SUFFICES ASSUME NEW i \in DOMAIN fans'
               PROVE  Awaited(fans[i].owner, fans[i].job)'
    OBVIOUS
  <2>2. PICK o, k : o = fans'[i].owner /\ k = fans'[i].job
    OBVIOUS
  <2>3. Awaited(o, k)'
    BY <2>1, <2>2
  <2> QED BY <2>2, <2>3
<1>10. ASSUME NEW i \in DOMAIN fans', NEW k \in DOMAIN fans',
              SameSide(fans'[i].owner, fans'[k].owner),
              fans'[i].job = fans'[k].job \/ fans'[i].owner = "relay"
       PROVE  i = k
  <2>1. ASSUME NEW l \in DOMAIN fans' \ {n}, n \in DOMAIN fans', fans'[l].job = j
        PROVE  ~SameSide(fans'[l].owner, "fail") /\ ~SameSide("fail", fans'[l].owner)
    <3>1. PICK g \in DOMAIN fans : g # f /\ fans'[l] = fans[g]
      BY <1>3
    <3>2. owner = "close" /\ ~SameSide(fans[g].owner, owner)
      BY <1>1, <1>5, <2>1, <3>1 DEF FansSound
    <3> QED BY <3>1, <3>2 DEF SameSide, TaskSide, WorkerSide
  <2>2. CASE i # n /\ k # n
    <3>1. PICK g \in DOMAIN fans : g = Before(i, f) /\ fans'[i] = fans[g]
      BY <1>3, <2>2
    <3>2. PICK h \in DOMAIN fans : h = Before(k, f) /\ fans'[k] = fans[h]
      BY <1>3, <2>2
    <3>3. g = h
      BY <1>1, <1>10, <3>1, <3>2 DEF FansSound
    <3> QED BY <1>3, <2>2, <3>1, <3>2, <3>3
  <2>3. CASE i = n /\ k # n
    BY <1>5, <1>10, <2>1, <2>3
  <2>4. CASE k = n /\ i # n
    <3>1. fans'[i].owner # "relay"
      BY <1>5, <1>10, <2>4 DEF SameSide, TaskSide, WorkerSide
    <3> QED BY <1>5, <1>10, <2>1, <2>4, <3>1
  <2> QED BY <2>2, <2>3, <2>4
<1>11. \A i \in DOMAIN fans' : fans'[i].via = "redis" => fans'[i].at = 1 /\ fans'[i].owner # "relay"
  BY <1>1, <1>3, <1>5 DEF FansSound
<1>12. transport = "local" => \A i \in DOMAIN fans' : fans'[i].via = "wire" /\ fans'[i].owner # "relay"
  BY <1>1, <1>3, <1>5 DEF FansSound
<1>13. transport = "redis" /\ outages = 0 =>
         /\ created # <<>> => subscribed
         /\ \A i \in DOMAIN fans' : fans'[i].owner # "relay" => fans'[i].via = "redis"
  BY <1>1, <1>3, <1>5 DEF FansSound
<1>14. FansSound'
  BY <1>1, <1>9, <1>10, <1>11, <1>12, <1>13 DEF FansSound
<1>15. JobsSound'
  <2> SUFFICES ASSUME NEW k \in Jobs PROVE JobSound(k)'
    BY DEF JobsSound
  <2>1. CASE k = j
    <3>1. status'[j] \notin {"absent", "pending"}
      BY <1>5, <1>7
    <3>2. claimedBy[j] # Nobody /\ task'[j] \notin {"none", "ready"} => j \in raced
      <4>1. CASE owner \in TaskSide
        BY <1>6, <1>7, <4>1 DEF Awaited, JobSound, TaskSide
      <4>2. CASE owner \notin TaskSide
        BY <1>4, <1>7, <4>2 DEF JobSound
      <4> QED BY <4>1, <4>2
    <3>3. task'[j] \in {"opening", "running"} => status'[j] = "running" \/ j \in raced
      <4>1. CASE owner \in TaskSide
        BY <1>4, <1>5, <1>6, <1>7, <4>1 DEF Awaited, JobSound, TaskSide
      <4>2. CASE owner \notin TaskSide
        BY <1>4, <1>5, <1>7, <4>2 DEF JobSound, TaskSide
      <4> QED BY <4>1, <4>2
    <3>4. task'[j] = "ready" => task[j] = "ready"
      BY <1>2, <1>4 DEF TaskSide
    <3>5. task[j] = "ready" /\ claimedBy[j] = Nobody => status[j] = "pending"
      BY <1>7 DEF JobSound
    <3>6. j \in knows' => claimedBy[j] # Nobody
      <4>1. CASE owner = "claim"
        BY <1>6, <4>1 DEF Awaited, WorkerSide
      <4>2. CASE owner # "claim"
        BY <1>4, <1>7, <4>2 DEF JobSound
      <4> QED BY <4>1, <4>2
    <3>7. j \in knows' /\ task'[j] \in {"none", "ready"} => status'[j] = "running"
      <4>1. CASE owner = "claim"
        <5>1. task'[j] = task[j] /\ status'[j] = status[j]
          BY <1>4, <1>5, <4>1 DEF TaskSide
        <5> QED BY <1>6, <4>1, <5>1 DEF Awaited
      <4>2. CASE owner \in TaskSide
        BY <1>4, <4>2 DEF TaskSide
      <4>3. CASE owner \notin TaskSide /\ owner # "claim"
        <5>1. task'[j] = task[j] /\ status'[j] = status[j] /\ knows' = knows
          BY <1>4, <1>5, <4>3 DEF TaskSide
        <5> QED BY <1>7, <5>1 DEF JobSound
      <4> QED BY <4>1, <4>2, <4>3
    <3>8. created # <<>>
      BY <1>7 DEF JobSound
    <3> QED BY <1>1, <1>7, <2>1, <3>1, <3>2, <3>3, <3>4, <3>5, <3>6, <3>7, <3>8 DEF JobSound
  <2>2. CASE k # j
    <3>1. JobSound(k) /\ Untouched(k)
      BY <1>1, <1>4, <2>2 DEF JobsSound
    <3>2. \A i \in DOMAIN fans' : fans'[i].job = k => \E g \in DOMAIN fans : fans[g].job = k
      BY <1>3, <1>5, <2>2
    <3>3. \A m \in DOMAIN channel' : channel'[m].job = k => \E l \in DOMAIN channel : channel[l].job = k
      BY <2>2
    <3> QED BY <1>1, <3>1, <3>2, <3>3, JobStays
  <2> QED BY <2>1, <2>2
<1>16. RunningIsOwned'
  <2> SUFFICES ASSUME NEW k \in Jobs PROVE Owned(k)'
    BY DEF RunningIsOwned, Owned
  <2>1. Owned(k)
    BY <1>1 DEF RunningIsOwned, Owned
  <2>2. CASE k = j
    <3> SUFFICES ASSUME status'[j] = "running"
                 PROVE  \/ task'[j] \in {"opening", "running"}
                        \/ j \in knows'
                        \/ \E i \in DOMAIN fans' : fans'[i].owner = "claim" /\ fans'[i].job = j
                        \/ j \in stumbled'
      BY <2>2 DEF Owned
    <3>1. status[j] = "running"
      BY <1>5
    <3>2. CASE task[j] \in {"opening", "running"}
      BY <1>2, <1>4, <1>6, <3>2 DEF Awaited, TaskSide
    <3>3. CASE j \in knows
      BY <1>4, <3>3
    <3>4. ASSUME NEW g \in DOMAIN fans, fans[g].owner = "claim", fans[g].job = j
          PROVE  \/ j \in knows' \/ j \in stumbled'
                 \/ \E i \in DOMAIN fans' : fans'[i].owner = "claim" /\ fans'[i].job = j
      BY <1>3, <1>4, <3>4
    <3>5. CASE j \in stumbled
      BY <1>4, <3>5
    <3> QED BY <2>1, <2>2, <3>1, <3>2, <3>3, <3>4, <3>5 DEF Owned
  <2>3. CASE k # j
    <3>1. \A g \in DOMAIN fans : fans[g].owner = "claim" /\ fans[g].job = k =>
            \E i \in DOMAIN fans' : fans'[i].owner = "claim" /\ fans'[i].job = k
      BY <1>3, <2>3
    <3> QED BY <1>4, <2>1, <2>3, <3>1, OwnedStays
  <2> QED BY <2>2, <2>3
<1> QED BY <1>14, <1>15, <1>16

\* With the direct broadcaster a job that was not run twice has one update on
\* its way at a time.
LEMMA OneUnraced ==
  ASSUME WebTypes, FansSound, JobsSound, transport = "local",
         NEW f \in DOMAIN fans, NEW g \in DOMAIN fans, fans[f].job = fans[g].job, fans[f].job \notin raced
  PROVE  f = g
<1>1. PICK a, b, j : /\ a = fans[f].owner /\ b = fans[g].owner /\ j = fans[f].job
                     /\ a \in TaskSide \cup WorkerSide /\ b \in TaskSide \cup WorkerSide
                     /\ j \in Jobs
  BY FanJobs DEF FansSound
<1>2. Awaited(a, j) /\ Awaited(b, j) /\ JobSound(j)
  BY <1>1 DEF FansSound, JobsSound
<1>3. ~(a \in TaskSide /\ b \in WorkerSide) /\ ~(b \in TaskSide /\ a \in WorkerSide)
  BY <1>1, <1>2 DEF Awaited, JobSound, TaskSide
<1>4. SameSide(a, b)
  BY <1>1, <1>3 DEF SameSide
<1> QED BY <1>1, <1>4 DEF FansSound

\* A send is over: what is left of its job is not older than it.
LEMMA SendEndsStep ==
  ASSUME WebInv, NEW f \in DOMAIN fans, SendEnds(f)
  PROVE  WebInv'
<1>1. /\ WebTypes /\ PagesSound /\ FansSound /\ JobsSound /\ InOrder /\ FreshLocal /\ FreshRedis
      /\ Viewed
  BY DEF WebInv
<1>2. PICK j, owner, gone :
        /\ j = fans[f].job /\ owner = fans[f].owner /\ gone = Removable(fans[f])
        /\ fans[f].via = "wire" /\ fans[f].at > Len(wsClients) /\ InTurn(f)
        /\ wsClients' = Kept(wsClients, gone)
        /\ missed' = missed \cup SkippedBy(wsClients')
        /\ Resume(f, Raises(fans[f]))
        /\ transport' = transport /\ created' = created /\ claimedBy' = claimedBy
        /\ socket' = socket /\ seen' = seen /\ subscribed' = subscribed /\ channel' = channel
        /\ outages' = outages /\ raced' = raced
  BY DEF SendEnds
<1>3. PICK n : Resumed(f, n, j, owner)
  <2>1. Raises(fans[f]) \in BOOLEAN
    BY DEF Raises
  <2>2. PICK r \in BOOLEAN : r = Raises(fans[f])
    BY <2>1
  <2>3. Resume(f, r)
    BY <1>2, <2>2
  <2> QED BY <1>1, <1>2, <2>3, Resumes
<1>4. FansSound' /\ JobsSound' /\ RunningIsOwned'
  <2>1. transport = "local" => channel' = <<>>
    BY <1>1, <1>2 DEF FansSound
  <2> QED BY <1>2, <1>3, <2>1, ResumeSound
<1>5. /\ DOMAIN fans = 1..Len(fans) /\ Len(fans) \in Nat /\ j \in Jobs
      /\ \A g \in DOMAIN fans : /\ fans[g].job \in Jobs
                                /\ fans[g].at \in Nat /\ fans[g].at >= 1
                                /\ fans[g].via \in {"wire", "redis"}
                                /\ fans[g].dead \in Seq(Clients)
      /\ DOMAIN wsClients = 1..Len(wsClients) /\ Len(wsClients) \in Nat
      /\ \A p \in DOMAIN wsClients : wsClients[p] \in Clients
  BY <1>1, <1>2, FanJobs
<1>6. /\ \A i \in DOMAIN fans' \ {n} : \E g \in DOMAIN fans : g # f /\ g = Before(i, f) /\ fans'[i] = fans[g]
      /\ \A g \in DOMAIN fans : g # f => \E i \in DOMAIN fans' \ {n} : g = Before(i, f) /\ fans'[i] = fans[g]
      /\ \A i, k \in DOMAIN fans' \ {n} : i < k <=> Before(i, f) < Before(k, f)
      /\ \A i \in DOMAIN fans' \ {n} : i < n /\ i \in Nat
  BY <1>1, <1>3, Leftover DEF Resumed
<1>7. /\ fans' \in Seq(FanRecord) /\ n \in Nat
      /\ task' \in [Jobs -> {"none", "ready", "opening", "running", "closing", "failing", "over"}]
      /\ knows' \subseteq Jobs /\ stumbled' \subseteq Jobs
  BY <1>3 DEF Resumed, Gone
<1>8. \/ n \notin DOMAIN fans' /\ status' = status
      \/ /\ n \in DOMAIN fans' /\ fans'[n].job = j /\ fans'[n].shown = "error"
         /\ fans'[n].at = 1 /\ fans'[n].dead = <<>>
         /\ status' \in [Jobs -> Statuses] /\ status'[j] = "error"
         /\ \A k \in Jobs : k # j => status'[k] = status[k]
         /\ transport = "local"
  <2>1. status \in [Jobs -> Statuses] /\ "error" \in Statuses
    BY <1>1 DEF WebTypes, Statuses, Shown, Finished
  <2>2. CASE n \notin DOMAIN fans' /\ status' = status
    BY <2>2
  <2>3. CASE /\ n \in DOMAIN fans' /\ fans'[n].owner = "fail" /\ fans'[n].job = j
             /\ fans'[n].shown = "error" /\ fans'[n].via = "wire" /\ fans'[n].at = 1
             /\ fans'[n].dead = <<>>
             /\ status' = [status EXCEPT ![j] = "error"] /\ task'[j] = "failing"
             /\ owner = "close" /\ transport = "local"
    <3>1. status' \in [Jobs -> Statuses] /\ status'[j] = "error" /\ \A k \in Jobs : k # j => status'[k] = status[k]
      BY <1>5, <2>1, <2>3
    <3> QED BY <2>3, <3>1
  <2> QED BY <1>3, <2>2, <2>3 DEF Resumed
<1>9. \A c \in gone : socket[c] \in {"closed", "gone"}
  <2>1. ASSUME NEW c \in gone PROVE socket[c] \in {"closed", "gone"}
    <3>1. \E i \in DOMAIN fans[f].dead : c = fans[f].dead[i]
      BY <1>2, <2>1 DEF Removable
    <3> QED BY <1>1, <3>1 DEF PagesSound
  <2> QED BY <2>1
<1>10. /\ wsClients' \in Seq(Clients) /\ Len(wsClients') \in Nat
       /\ DOMAIN wsClients' = 1..Len(wsClients')
       /\ \A l, m \in DOMAIN wsClients' : wsClients'[l] = wsClients'[m] => l = m
       /\ \A m \in DOMAIN wsClients' : socket[wsClients'[m]] \in {"open", "closed"}
       /\ \A c \in Clients : socket[c] = "open" => \E m \in DOMAIN wsClients' : wsClients'[m] = c
       /\ (\A p \in DOMAIN wsClients : wsClients[p] \notin gone) => Len(wsClients') = Len(wsClients)
  <2>1. /\ wsClients' \in Seq(Clients) /\ Len(wsClients') \in Nat
        /\ \A l, m \in DOMAIN wsClients' : wsClients'[l] = wsClients'[m] => l = m
        /\ \A m \in DOMAIN wsClients' : wsClients'[m] \notin gone /\ wsClients'[m] \in Clients
                                        /\ socket[wsClients'[m]] \in {"open", "closed"}
        /\ \A c \in Clients : socket[c] = "open" /\ c \notin gone =>
             \E m \in DOMAIN wsClients' : wsClients'[m] = c
        /\ (\A p \in DOMAIN wsClients : wsClients[p] \notin gone) => Len(wsClients') = Len(wsClients)
    BY <1>1, <1>2, ListShrinks
  <2> QED BY <1>9, <2>1, LenProperties
<1>11. WebTypes'
  <2>1. status' \in [Jobs -> Statuses]
    BY <1>1, <1>8 DEF WebTypes
  <2>2. missed' \subseteq Clients \X Jobs
    BY <1>1, <1>2, SkippedTypes DEF WebTypes
  <2> QED BY <1>1, <1>2, <1>7, <1>10, <2>1, <2>2 DEF WebTypes
<1>12. PagesSound'
  <2>1. ASSUME NEW i \in DOMAIN fans', NEW l \in DOMAIN fans'[i].dead
        PROVE  socket[fans'[i].dead[l]] \in {"closed", "gone"}
    <3>1. i # n
      <4>1. DOMAIN << >> = {}
        OBVIOUS
      <4> QED BY <1>8, <2>1, <4>1
    <3> QED BY <1>1, <1>6, <2>1, <3>1 DEF PagesSound
  <2> QED BY <1>2, <1>10, <2>1 DEF PagesSound
<1>13. PagesIntact' = PagesIntact
  BY <1>2 DEF PagesIntact
<1>14. PagesIntact => Len(wsClients') = Len(wsClients)
  <2>1. ASSUME PagesIntact, NEW p \in DOMAIN wsClients PROVE wsClients[p] \notin gone
    <3>1. wsClients[p] \in Clients
      BY <1>5
    <3> QED BY <1>9, <2>1, <3>1 DEF PagesIntact
  <2> QED BY <1>10, <2>1
<1>15. Excused' = Excused
  BY <1>2, <1>13 DEF Excused
<1>16. \A i \in DOMAIN fans' : fans'[i].at \in Nat /\ fans'[i].at >= 1 /\ fans'[i].job \in Jobs
  BY <1>5, <1>6, <1>8
<1>17. InOrder'
  <2>1. ASSUME transport = "local", NEW h \in DOMAIN fans', NEW g \in DOMAIN fans', g < h
        PROVE  fans'[h].at <= fans'[g].at
    <3>1. CASE h = n
      BY <1>8, <1>16, <3>1
    <3>2. CASE h # n
      <4>1. g # n
        BY <1>6, <1>7, <2>1, <3>2
      <4>2. Before(g, f) < Before(h, f)
        BY <1>6, <2>1, <3>2, <4>1
      <4> QED BY <1>1, <1>6, <2>1, <3>2, <4>1, <4>2 DEF InOrder
    <3> QED BY <3>1, <3>2
  <2>2. ASSUME PagesIntact, NEW h \in DOMAIN fans'
        PROVE  fans'[h].at <= Len(wsClients') + 1
    <3>1. CASE h = n
      BY <1>8, <1>10, <2>2, <3>1
    <3>2. CASE h # n
      BY <1>1, <1>6, <1>14, <2>2, <3>2 DEF InOrder
    <3> QED BY <3>1, <3>2
  <2> QED BY <1>2, <1>13, <2>1, <2>2 DEF InOrder
\* With the direct broadcaster nothing older than f is left of its job.
<1>18. ASSUME transport = "local", NEW g \in DOMAIN fans, g < f, fans[g].job = j, j \notin Excused
       PROVE  FALSE
  <2>1. CASE PagesIntact
    <3>1. g \in 1..(f - 1) /\ fans[g].via = "wire"
      BY <1>1, <1>5, <1>18 DEF FansSound
    <3>2. fans[g].at > fans[f].at
      BY <1>2, <3>1 DEF InTurn
    <3>3. fans[g].at <= Len(wsClients) + 1
      BY <1>1, <2>1 DEF InOrder
    <3> QED BY <1>2, <1>5, <3>2, <3>3
  <2>2. CASE ~PagesIntact
    <3>1. j \notin raced
      BY <1>5, <1>18, <2>2 DEF Excused
    <3>2. g = f
      BY <1>1, <1>2, <1>18, <3>1, OneUnraced
    <3> QED BY <1>5, <1>18, <3>2
  <2> QED BY <2>1, <2>2
<1>19. FreshLocal'
  <2> SUFFICES ASSUME transport = "local", NEW i \in DOMAIN fans',
                      \A k \in DOMAIN fans' : i < k => fans'[k].job # fans'[i].job,
                      fans'[i].job \notin Excused
               PROVE  fans'[i].shown = status'[fans'[i].job]
    BY <1>2, <1>15 DEF FreshLocal
  <2>1. CASE i = n
    BY <1>8, <2>1
  <2>2. CASE i # n
    <3>1. PICK g \in DOMAIN fans : g # f /\ g = Before(i, f) /\ fans'[i] = fans[g]
      BY <1>6, <2>2
    <3>2. status'[fans[g].job] = status[fans[g].job]
      BY <1>5, <1>6, <1>8, <2>2, <3>1
    <3>3. ASSUME NEW h \in DOMAIN fans, g < h, fans[h].job = fans[g].job
          PROVE  FALSE
      <4>1. CASE h = f
        BY <1>2, <1>18, <3>1, <3>3, <4>1
      <4>2. CASE h # f
        <5>1. PICK k \in DOMAIN fans' \ {n} : h = Before(k, f) /\ fans'[k] = fans[h]
          BY <1>6, <4>2
        <5>2. i < k
          BY <1>6, <2>2, <3>1, <3>3, <5>1
        <5> QED BY <3>1, <3>3, <5>1, <5>2
      <4> QED BY <4>1, <4>2
    <3> QED BY <1>1, <3>1, <3>2, <3>3 DEF FreshLocal
  <2> QED BY <2>1, <2>2
<1>20. FreshRedis'
  <2> SUFFICES ASSUME transport = "redis" PROVE FreshRedis'
    BY <1>2 DEF FreshRedis
  <2>1. n \notin DOMAIN fans' /\ status' = status
    BY <1>8
  <2>2. outages = 0 => Direct \subseteq Direct'
    <3> SUFFICES ASSUME outages = 0, NEW k \in Direct PROVE k \in Direct'
      OBVIOUS
    <3>1. PICK g \in DOMAIN fans : fans[g].job = k /\ fans[g].owner # "relay"
      BY DEF Direct
    <3>2. g # f
      BY <1>1, <1>2, <3>1 DEF FansSound
    <3>3. k \in Jobs
      BY <1>5, <3>1
    <3> QED BY <1>6, <3>1, <3>2, <3>3 DEF Direct
  <2>3. outages # 0 => \A k \in Jobs : k \in Excused
    BY <1>1 DEF Excused, WebTypes
  <2>4. \A m \in DOMAIN channel : channel[m].job \in Jobs
    BY <1>1, FanJobs
  <2>5. ASSUME NEW i \in DOMAIN fans', fans'[i].owner # "relay", fans'[i].job \notin Excused
        PROVE  fans'[i].shown = status[fans'[i].job]
    BY <1>1, <1>6, <2>1, <2>5 DEF FreshRedis
  <2>6. ASSUME NEW m \in DOMAIN channel, channel[m].job \notin Direct', channel[m].job \notin Excused,
               \A l \in DOMAIN channel : m < l => channel[l].job # channel[m].job
        PROVE  channel[m].shown = status[channel[m].job]
    BY <1>1, <2>2, <2>3, <2>4, <2>6 DEF FreshRedis
  <2>7. ASSUME NEW i \in DOMAIN fans', fans'[i].job \notin Direct', fans'[i].job \notin Excused,
               \A m \in DOMAIN channel : channel[m].job # fans'[i].job
        PROVE  fans'[i].shown = status[fans'[i].job]
    <3>1. PICK g \in DOMAIN fans : fans'[i] = fans[g]
      BY <1>6, <2>1
    <3>2. fans[g].job \notin Direct
      BY <1>5, <2>2, <2>3, <2>7, <3>1
    <3> QED BY <1>1, <2>7, <3>1, <3>2 DEF FreshRedis
  <2> QED BY <1>2, <1>15, <2>1, <2>5, <2>6, <2>7 DEF FreshRedis
<1>21. Viewed'
  <2> SUFFICES ASSUME NEW d \in Clients, NEW k \in Jobs, socket[d] = "open",
                      k \notin Excused, <<d, k>> \notin missed', status'[k] # "pending",
                      seen[d][k] # status'[k]
               PROVE  Coming(d, k)'
    BY <1>2, <1>15 DEF Viewed
  <2>1. CASE n \in DOMAIN fans' /\ k = j
    <3>1. PICK q \in DOMAIN wsClients' : wsClients'[q] = d
      BY <1>10
    <3>2. fans'[n].job = k /\ fans'[n].at <= q
      BY <1>8, <1>10, <2>1
    <3> QED BY <2>1, <3>1, <3>2 DEF Coming
  <2>2. CASE ~(n \in DOMAIN fans' /\ k = j)
    <3>1. status'[k] = status[k] /\ <<d, k>> \notin missed /\ d \notin gone
      BY <1>2, <1>8, <1>9, <2>2
    <3>2. Coming(d, k)
      BY <1>1, <3>1 DEF Viewed
    <3>3. CASE \E m \in DOMAIN channel : channel[m].job = k
      BY <1>2, <3>3 DEF Coming
    <3>4. ASSUME NEW g \in DOMAIN fans, NEW p \in DOMAIN wsClients,
                 fans[g].job = k, wsClients[p] = d, fans[g].at <= p
          PROVE  Coming(d, k)'
      <4>1. g # f
        BY <1>2, <1>5, <3>4
      <4>2. \/ \E q \in DOMAIN wsClients' : wsClients'[q] = d /\ fans[g].at <= q
            \/ <<d, fans[g].job>> \in SkippedBy(wsClients')
        BY <1>1, <1>2, <3>1, <3>4, Skips
      <4>3. PICK i \in DOMAIN fans' : fans'[i] = fans[g]
        BY <1>6, <4>1
      <4> QED BY <1>2, <3>4, <4>2, <4>3 DEF Coming
    <3> QED BY <3>2, <3>3, <3>4 DEF Coming
  <2> QED BY <2>1, <2>2
<1> QED BY <1>4, <1>11, <1>12, <1>17, <1>19, <1>20, <1>21 DEF WebInv

-------------------------------------------------------------------------------
(* The way through Redis.                                                   *)

\* An update is handed to Redis: what it leaves behind it finds in the channel.
LEMMA PublishStep ==
  ASSUME WebInv, NEW f \in DOMAIN fans, Publish(f)
  PROVE  WebInv'
<1>1. /\ WebTypes /\ PagesSound /\ FansSound /\ JobsSound /\ InOrder /\ FreshLocal /\ FreshRedis
      /\ Viewed
  BY DEF WebInv
<1>2. PICK j, owner, message :
        /\ j = fans[f].job /\ owner = fans[f].owner
        /\ message = [job |-> fans[f].job, shown |-> fans[f].shown]
        /\ fans[f].via = "redis"
        /\ channel' = IF subscribed THEN Append(channel, message) ELSE channel
        /\ Resume(f, FALSE)
        /\ transport' = transport /\ created' = created /\ claimedBy' = claimedBy
        /\ wsClients' = wsClients /\ socket' = socket /\ seen' = seen /\ subscribed' = subscribed
        /\ outages' = outages /\ raced' = raced /\ missed' = missed
  BY DEF Publish
<1>3. PICK n : Resumed(f, n, j, owner)
  <2>1. PICK r \in BOOLEAN : r = FALSE
    OBVIOUS
  <2>2. Resume(f, r)
    BY <1>2, <2>1
  <2> QED BY <1>1, <1>2, <2>2, Resumes
<1>4. transport = "redis" /\ owner # "relay"
  BY <1>1, <1>2 DEF FansSound, WebTypes
<1>5. /\ DOMAIN fans = 1..Len(fans) /\ Len(fans) \in Nat /\ j \in Jobs /\ fans[f].shown \in Shown
      /\ \A g \in DOMAIN fans : fans[g].job \in Jobs /\ fans[g].at \in Nat
      /\ DOMAIN channel = 1..Len(channel) /\ Len(channel) \in Nat
      /\ \A m \in DOMAIN channel : channel[m].job \in Jobs
  BY <1>1, <1>2, FanJobs
<1>6. /\ message \in Message /\ message.job = j /\ message.shown = fans[f].shown
  BY <1>2, <1>5 DEF Message
<1>7. \/ /\ subscribed
         /\ channel' \in Seq(Message) /\ DOMAIN channel' = 1..(Len(channel) + 1)
         /\ channel'[Len(channel) + 1] = message
         /\ \A m \in DOMAIN channel : m \in DOMAIN channel' /\ channel'[m] = channel[m]
         /\ \A m \in DOMAIN channel' : m \in DOMAIN channel \/ m = Len(channel) + 1
      \/ ~subscribed /\ channel' = channel
  <2>1. CASE subscribed
    <3>1. channel \in Seq(Message) /\ channel' = Append(channel, message)
      BY <1>1, <1>2, <2>1 DEF WebTypes
    <3>2. /\ channel' \in Seq(Message) /\ Len(channel') = Len(channel) + 1
          /\ \A m \in 1..Len(channel) : channel'[m] = channel[m]
          /\ channel'[Len(channel) + 1] = message
      BY <1>6, <3>1, AppendProperties
    <3>3. DOMAIN channel' = 1..(Len(channel) + 1)
      BY <3>2, LenProperties
    <3> QED BY <1>5, <2>1, <3>2, <3>3
  <2>2. CASE ~subscribed
    BY <1>2, <2>2
  <2> QED BY <2>1, <2>2
<1>8. FansSound' /\ JobsSound' /\ RunningIsOwned'
  <2>1. \A m \in DOMAIN channel' : channel'[m].job # j =>
           \E l \in DOMAIN channel : channel[l].job = channel'[m].job
    <3> SUFFICES ASSUME NEW m \in DOMAIN channel', channel'[m].job # j
                 PROVE  \E l \in DOMAIN channel : channel[l].job = channel'[m].job
      OBVIOUS
    <3>1. CASE channel' = channel
      BY <3>1
    <3>2. CASE channel' # channel
      <4>1. m \in DOMAIN channel /\ channel'[m] = channel[m]
        BY <1>6, <1>7, <3>2
      <4> QED BY <4>1
    <3> QED BY <3>1, <3>2
  <2>2. /\ UNCHANGED <<transport, created, claimedBy, subscribed, outages, raced>>
        /\ j = fans[f].job /\ owner = fans[f].owner
    BY <1>2
  <2>3. transport = "local" => channel' = <<>>
    BY <1>4
  <2> QED BY <1>3, <2>1, <2>2, <2>3, ResumeSound
<1>9. /\ \A i \in DOMAIN fans' : \E g \in DOMAIN fans : g # f /\ g = Before(i, f) /\ fans'[i] = fans[g]
      /\ \A g \in DOMAIN fans : g # f => \E i \in DOMAIN fans' : fans'[i] = fans[g]
      /\ status' = status
      /\ fans' \in Seq(FanRecord)
      /\ task' \in [Jobs -> {"none", "ready", "opening", "running", "closing", "failing", "over"}]
      /\ knows' \subseteq Jobs /\ stumbled' \subseteq Jobs
  <2>1. n \notin DOMAIN fans' /\ status' = status
    BY <1>3, <1>4 DEF Resumed
  <2>2. /\ \A i \in DOMAIN fans' \ {n} : \E g \in DOMAIN fans : g # f /\ g = Before(i, f) /\ fans'[i] = fans[g]
        /\ \A g \in DOMAIN fans : g # f => \E i \in DOMAIN fans' \ {n} : g = Before(i, f) /\ fans'[i] = fans[g]
    BY <1>1, <1>3, Leftover DEF Resumed
  <2>3. /\ fans' \in Seq(FanRecord)
        /\ task' \in [Jobs -> {"none", "ready", "opening", "running", "closing", "failing", "over"}]
        /\ knows' \subseteq Jobs /\ stumbled' \subseteq Jobs
    BY <1>3 DEF Resumed, Gone
  <2> QED BY <2>1, <2>2, <2>3
<1>10. WebTypes'
  <2>1. channel' \in Seq(Message)
    BY <1>1, <1>7 DEF WebTypes
  <2> QED BY <1>1, <1>2, <1>9, <2>1 DEF WebTypes
<1>11. PagesSound'
  BY <1>1, <1>2, <1>9 DEF PagesSound
<1>12. PagesIntact' = PagesIntact
  BY <1>2 DEF PagesIntact
<1>13. InOrder'
  BY <1>1, <1>2, <1>4, <1>9, <1>12 DEF InOrder
<1>14. Excused' = Excused
  BY <1>2, <1>12 DEF Excused
<1>15. \A k \in Jobs : k \notin Excused => outages = 0 /\ subscribed
  <2>1. \A k \in Jobs : k \notin Excused => outages = 0
    BY <1>1, <1>4 DEF Excused, WebTypes
  <2>2. created # <<>>
    <3>1. JobSound(j) /\ status[j] # "absent"
      BY <1>1, <1>2, <1>5 DEF JobsSound, JobSound
    <3> QED BY <3>1 DEF JobSound
  <2> QED BY <1>1, <1>4, <2>1, <2>2 DEF FansSound
<1>16. \A k \in Jobs : k \in Direct /\ k # j => k \in Direct'
  <2> SUFFICES ASSUME NEW k \in Jobs, k \in Direct, k # j PROVE k \in Direct'
    OBVIOUS
  <2>1. PICK g \in DOMAIN fans : fans[g].job = k /\ fans[g].owner # "relay"
    BY DEF Direct
  <2>2. PICK i \in DOMAIN fans' : fans'[i] = fans[g]
    BY <1>2, <1>9, <2>1
  <2> QED BY <2>1, <2>2 DEF Direct
<1>17. FreshLocal'
  BY <1>2, <1>4 DEF FreshLocal
<1>18. FreshRedis'
  <2>1. ASSUME NEW i \in DOMAIN fans', fans'[i].owner # "relay", fans'[i].job \notin Excused
        PROVE  fans'[i].shown = status[fans'[i].job]
    BY <1>1, <1>4, <1>9, <2>1 DEF FreshRedis
  <2>2. ASSUME NEW m \in DOMAIN channel', channel'[m].job \notin Direct', channel'[m].job \notin Excused,
               \A l \in DOMAIN channel' : m < l => channel'[l].job # channel'[m].job
        PROVE  channel'[m].shown = status[channel'[m].job]
    <3>1. channel'[m].job \in Jobs /\ subscribed
      BY <1>5, <1>6, <1>7, <1>15, <2>2
    <3>2. CASE m = Len(channel) + 1
      BY <1>1, <1>2, <1>4, <1>6, <1>7, <2>2, <3>1, <3>2 DEF FreshRedis
    <3>3. CASE m # Len(channel) + 1
      <4>1. m \in DOMAIN channel /\ channel'[m] = channel[m] /\ m < Len(channel) + 1
        BY <1>5, <1>7, <3>1, <3>3
      <4>2. Len(channel) + 1 \in DOMAIN channel'
        BY <1>5, <1>7, <3>1
      <4>3. channel[m].job # j
        BY <1>6, <1>7, <2>2, <3>1, <4>1, <4>2
      <4>4. channel[m].job \notin Direct
        BY <1>16, <2>2, <3>1, <4>1, <4>3
      <4>5. \A l \in DOMAIN channel : m < l => channel[l].job # channel[m].job
        BY <1>7, <2>2, <3>1, <4>1
      <4> QED BY <1>1, <1>4, <2>2, <4>1, <4>4, <4>5 DEF FreshRedis
    <3> QED BY <3>2, <3>3
  <2>3. ASSUME NEW i \in DOMAIN fans', fans'[i].job \notin Direct', fans'[i].job \notin Excused,
               \A m \in DOMAIN channel' : channel'[m].job # fans'[i].job
        PROVE  fans'[i].shown = status[fans'[i].job]
    <3>1. PICK g \in DOMAIN fans : fans'[i] = fans[g]
      BY <1>9
    <3>2. fans[g].job \in Jobs /\ subscribed
      BY <1>5, <1>15, <2>3, <3>1
    <3>3. Len(channel) + 1 \in DOMAIN channel'
      BY <1>5, <1>7, <3>2
    <3>4. fans[g].job # j
      BY <1>6, <1>7, <2>3, <3>1, <3>2, <3>3
    <3>5. fans[g].job \notin Direct
      BY <1>16, <2>3, <3>1, <3>2, <3>4
    <3>6. \A m \in DOMAIN channel : channel[m].job # fans[g].job
      BY <1>7, <2>3, <3>1, <3>2
    <3> QED BY <1>1, <1>4, <2>3, <3>1, <3>5, <3>6 DEF FreshRedis
  <2> QED BY <1>2, <1>9, <1>14, <2>1, <2>2, <2>3 DEF FreshRedis
<1>19. Viewed'
  <2> SUFFICES ASSUME NEW d \in Clients, NEW k \in Jobs, socket[d] = "open",
                      k \notin Excused, <<d, k>> \notin missed, status[k] # "pending",
                      seen[d][k] # status[k]
               PROVE  Coming(d, k)'
    BY <1>2, <1>9, <1>14 DEF Viewed
  <2>1. Coming(d, k) /\ subscribed
    BY <1>1, <1>15 DEF Viewed
  <2>2. CASE \E m \in DOMAIN channel : channel[m].job = k
    BY <1>7, <2>1, <2>2 DEF Coming
  <2>3. CASE k = j
    <3>1. Len(channel) + 1 \in DOMAIN channel'
      BY <1>5, <1>7, <2>1
    <3> QED BY <1>6, <1>7, <2>1, <2>3, <3>1 DEF Coming
  <2>4. ASSUME NEW g \in DOMAIN fans, NEW p \in DOMAIN wsClients, k # j,
               fans[g].job = k, wsClients[p] = d, fans[g].at <= p
        PROVE  Coming(d, k)'
    BY <1>2, <1>9, <2>4 DEF Coming
  <2> QED BY <2>1, <2>2, <2>3, <2>4 DEF Coming
<1> QED BY <1>8, <1>10, <1>11, <1>13, <1>17, <1>18, <1>19 DEF WebInv

\* The f-th fan goes to this server's own pages instead.
LEMMA Redirected ==
  ASSUME WebTypes, NEW f \in DOMAIN fans, fans' = [fans EXCEPT ![f].via = "wire"]
  PROVE  /\ fans' \in Seq(FanRecord) /\ DOMAIN fans' = DOMAIN fans
         /\ \A g \in DOMAIN fans : g # f => fans'[g] = fans[g]
         /\ \A g \in DOMAIN fans : /\ fans'[g].owner = fans[g].owner /\ fans'[g].job = fans[g].job
                                   /\ fans'[g].shown = fans[g].shown /\ fans'[g].at = fans[g].at
                                   /\ fans'[g].dead = fans[g].dead
         /\ fans'[f].via = "wire"
<1>1. /\ fans \in Seq(FanRecord) /\ Len(fans) \in Nat /\ DOMAIN fans = 1..Len(fans)
      /\ \A g \in DOMAIN fans : fans[g] \in FanRecord
  BY LenProperties, ElementOfSeq DEF WebTypes
<1> DEFINE fan == [fans[f] EXCEPT !.via = "wire"]
<1>2. fan \in FanRecord
  BY <1>1 DEF FanRecord
<1>3. fans' = [fans EXCEPT ![f] = fan]
  BY <1>1
<1>4. /\ fan.owner = fans[f].owner /\ fan.job = fans[f].job
      /\ fan.shown = fans[f].shown /\ fan.via = "wire"
      /\ fan.at = fans[f].at /\ fan.dead = fans[f].dead
  BY <1>1 DEF FanRecord
<1> HIDE DEF fan
<1>5. fans' \in Seq(FanRecord) /\ DOMAIN fans' = DOMAIN fans
  BY <1>1, <1>2, <1>3, ExceptSeq
<1>6. fans'[f] = fan /\ \A g \in DOMAIN fans : g # f => fans'[g] = fans[g]
  BY <1>1, <1>3
<1> QED BY <1>4, <1>5, <1>6

\* With Redis, once it has been out of reach nothing is claimed of the pages.
LEMMA OutOfReach ==
  ASSUME WebTypes, transport = "redis", UNCHANGED transport, outages' = outages + 1,
         WebTypes'
  PROVE  FreshLocal' /\ FreshRedis' /\ Viewed'
<1>1. \A k \in Jobs : k \in Excused'
  BY DEF Excused, WebTypes
<1>2. Viewed'
  BY <1>1 DEF Viewed
<1>3. FreshLocal'
  BY DEF FreshLocal
<1>4. /\ \A f \in DOMAIN fans' : fans'[f] \in FanRecord
      /\ \A m \in DOMAIN channel' : channel'[m] \in Message
  BY ElementOfSeq, LenProperties DEF WebTypes
<1>5. /\ \A f \in DOMAIN fans' : fans'[f].job \in Jobs
      /\ \A m \in DOMAIN channel' : channel'[m].job \in Jobs
  BY <1>4 DEF FanRecord, Message
<1>6. FreshRedis'
  BY <1>1, <1>5 DEF FreshRedis
<1> QED BY <1>2, <1>3, <1>6

\* A publish fails.
LEMMA PublishFailsStep ==
  ASSUME WebInv, NEW f \in DOMAIN fans, PublishFails(f)
  PROVE  WebInv'
<1>1. WebTypes /\ PagesSound /\ FansSound /\ JobsSound /\ InOrder /\ RunningIsOwned
  BY DEF WebInv
<1>2. /\ fans[f].via = "redis" /\ outages' = outages + 1
      /\ fans' = [fans EXCEPT ![f].via = "wire"]
      /\ transport' = transport /\ status' = status /\ created' = created
      /\ claimedBy' = claimedBy /\ task' = task /\ knows' = knows
      /\ wsClients' = wsClients /\ socket' = socket /\ seen' = seen
      /\ subscribed' = subscribed /\ channel' = channel
      /\ raced' = raced /\ stumbled' = stumbled /\ missed' = missed
  BY DEF PublishFails, jobVars, wireVars, history
<1>3. /\ fans' \in Seq(FanRecord) /\ DOMAIN fans' = DOMAIN fans
      /\ \A g \in DOMAIN fans : g # f => fans'[g] = fans[g]
      /\ \A g \in DOMAIN fans : /\ fans'[g].owner = fans[g].owner /\ fans'[g].job = fans[g].job
                                /\ fans'[g].shown = fans[g].shown /\ fans'[g].at = fans[g].at
                                /\ fans'[g].dead = fans[g].dead
      /\ fans'[f].via = "wire"
  BY <1>1, <1>2, Redirected
<1>4. transport = "redis" /\ outages' # 0
  BY <1>1, <1>2 DEF FansSound, WebTypes
<1>5. WebTypes'
  BY <1>1, <1>2, <1>3 DEF WebTypes
<1>6. FreshLocal' /\ FreshRedis' /\ Viewed'
  BY <1>1, <1>2, <1>4, <1>5, OutOfReach
<1>7. PagesSound' /\ InOrder'
  <2>1. PagesIntact' = PagesIntact
    BY <1>2 DEF PagesIntact
  <2>2. InOrder'
    BY <1>1, <1>2, <1>3, <2>1 DEF InOrder
  <2>3. PagesSound'
    BY <1>1, <1>2, <1>3 DEF PagesSound
  <2> QED BY <2>2, <2>3
<1>8. FansSound'
  <2>1. \A g \in DOMAIN fans : Awaited(fans[g].owner, fans[g].job)'
    <3> SUFFICES ASSUME NEW g \in DOMAIN fans
                 PROVE  Awaited(fans[g].owner, fans[g].job)'
      OBVIOUS
    <3>1. PICK o, k : o = fans[g].owner /\ k = fans[g].job
      OBVIOUS
    <3>2. Awaited(o, k)
      BY <1>1, <3>1 DEF FansSound
    <3>3. Awaited(o, k)'
      BY <1>2, <3>2 DEF Awaited
    <3> QED BY <1>3, <3>1, <3>3
  <2>2. \A g, h \in DOMAIN fans :
          SameSide(fans'[g].owner, fans'[h].owner)
            /\ (fans'[g].job = fans'[h].job \/ fans'[g].owner = "relay") => g = h
    BY <1>1, <1>3 DEF FansSound
  <2>3. \A g \in DOMAIN fans : fans'[g].via = "redis" => fans'[g].at = 1 /\ fans'[g].owner # "relay"
    BY <1>1, <1>3 DEF FansSound
  <2> QED BY <1>2, <1>3, <1>4, <2>1, <2>2, <2>3 DEF FansSound
<1>9. JobsSound' /\ RunningIsOwned'
  <2>1. JobsSound'
    BY <1>1, <1>2, <1>3 DEF JobsSound, JobSound
  <2>2. RunningIsOwned'
    BY <1>1, <1>2, <1>3 DEF RunningIsOwned
  <2> QED BY <2>1, <2>2
<1> QED BY <1>5, <1>6, <1>7, <1>8, <1>9 DEF WebInv

\* The subscriber forwards the oldest message.
LEMMA RelayStep ==
  ASSUME WebInv, Relay
  PROVE  WebInv'
<1>1. /\ WebTypes /\ PagesSound /\ FansSound /\ JobsSound /\ InOrder /\ FreshLocal /\ FreshRedis
      /\ Viewed /\ RunningIsOwned
  BY DEF WebInv
<1>2. PICK j, shown :
        /\ j = Head(channel).job /\ shown = Head(channel).shown
        /\ channel # <<>> /\ \A g \in DOMAIN fans : fans[g].owner # "relay"
        /\ channel' = Tail(channel)
        /\ fans' = Append(fans, Fan("relay", j, shown, "wire"))
        /\ transport' = transport /\ status' = status /\ created' = created
        /\ claimedBy' = claimedBy /\ task' = task /\ knows' = knows
        /\ wsClients' = wsClients /\ socket' = socket /\ seen' = seen
        /\ subscribed' = subscribed /\ outages' = outages
        /\ raced' = raced /\ stumbled' = stumbled /\ missed' = missed
  BY DEF Relay, jobVars, history
<1>3. /\ DOMAIN channel = 1..Len(channel) /\ Len(channel) \in Nat /\ channel \in Seq(Message)
      /\ \A m \in DOMAIN channel : channel[m].job \in Jobs /\ channel[m].shown \in Shown
      /\ \A g \in DOMAIN fans : fans[g].job \in Jobs /\ fans[g].at \in Nat
      /\ DOMAIN fans = 1..Len(fans) /\ Len(fans) \in Nat
      /\ DOMAIN wsClients = 1..Len(wsClients) /\ Len(wsClients) \in Nat
  BY <1>1, FanJobs DEF WebTypes
<1>4. /\ 1 \in DOMAIN channel /\ j = channel[1].job /\ shown = channel[1].shown
      /\ channel' \in Seq(Message) /\ DOMAIN channel' = 1..(Len(channel) - 1)
      /\ \A m \in DOMAIN channel' : m + 1 \in DOMAIN channel /\ channel'[m] = channel[m + 1]
      /\ \A m \in DOMAIN channel : m # 1 => m - 1 \in DOMAIN channel' /\ channel'[m - 1] = channel[m]
  <2>1. Len(channel) # 0
    BY <1>2, <1>3, EmptySeq
  <2>2. /\ Head(channel) = channel[1]
        /\ Tail(channel) \in Seq(Message) /\ Len(Tail(channel)) = Len(channel) - 1
        /\ \A m \in 1..Len(Tail(channel)) : Tail(channel)[m] = channel[m + 1]
    BY <1>2, <1>3, HeadTailProperties
  <2>3. DOMAIN channel' = 1..(Len(channel) - 1)
    BY <1>2, <2>2, LenProperties
  <2> QED BY <1>2, <1>3, <2>1, <2>2, <2>3
<1>5. j \in Jobs /\ shown \in Shown
  BY <1>3, <1>4
<1>6. PICK n : Grown(n, "relay", j, shown, "wire")
  BY <1>1, <1>2, <1>5, Appended
<1>7. /\ n \in Nat /\ n \notin DOMAIN fans /\ n \in DOMAIN fans' /\ fans' \in Seq(FanRecord)
      /\ \A f \in DOMAIN fans : f \in DOMAIN fans' /\ fans'[f] = fans[f] /\ f < n
      /\ \A f \in DOMAIN fans' : f \in DOMAIN fans \/ f = n
      /\ fans'[n].owner = "relay" /\ fans'[n].job = j /\ fans'[n].shown = shown
      /\ fans'[n].via = "wire" /\ fans'[n].at = 1 /\ fans'[n].dead = <<>>
  BY <1>6 DEF Grown
<1>8. transport = "redis"
  BY <1>1, <1>2 DEF FansSound, WebTypes
<1>9. WebTypes'
  BY <1>1, <1>2, <1>4, <1>7 DEF WebTypes
<1>10. PagesSound'
  <2>1. ASSUME NEW i \in DOMAIN fans', NEW l \in DOMAIN fans'[i].dead
        PROVE  socket[fans'[i].dead[l]] \in {"closed", "gone"}
    <3>1. i # n
      <4>1. DOMAIN << >> = {}
        OBVIOUS
      <4> QED BY <1>7, <2>1, <4>1
    <3> QED BY <1>1, <1>7, <2>1, <3>1 DEF PagesSound
  <2> QED BY <1>1, <1>2, <2>1 DEF PagesSound
<1>11. PagesIntact' = PagesIntact
  BY <1>2 DEF PagesIntact
<1>12. InOrder'
  <2>1. ASSUME PagesIntact, NEW h \in DOMAIN fans'
        PROVE  fans'[h].at <= Len(wsClients) + 1
    BY <1>1, <1>3, <1>7, <2>1 DEF InOrder
  <2> QED BY <1>2, <1>8, <1>11, <2>1 DEF InOrder
<1>13. Excused' = Excused
  BY <1>2, <1>11 DEF Excused
<1>14. Direct' = Direct
  <2>1. \A k \in Jobs : k \in Direct' <=> k \in Direct
    BY <1>7 DEF Direct
  <2> QED BY <2>1 DEF Direct
<1>15. FansSound'
  <2>1. \A g \in DOMAIN fans' : Awaited(fans[g].owner, fans[g].job)'
    <3> SUFFICES ASSUME NEW g \in DOMAIN fans'
                 PROVE  Awaited(fans[g].owner, fans[g].job)'
      OBVIOUS
    <3>1. PICK o, k : o = fans'[g].owner /\ k = fans'[g].job
      OBVIOUS
    <3>2. Awaited(o, k)'
      <4>1. CASE g = n
        BY <1>7, <3>1, <4>1 DEF Awaited, WorkerSide
      <4>2. CASE g # n
        <5>1. Awaited(o, k)
          BY <1>1, <1>7, <3>1, <4>2 DEF FansSound
        <5> QED BY <1>2, <5>1 DEF Awaited
      <4> QED BY <4>1, <4>2
    <3> QED BY <3>1, <3>2
  <2>2. ASSUME NEW g \in DOMAIN fans', NEW h \in DOMAIN fans',
               SameSide(fans'[g].owner, fans'[h].owner),
               fans'[g].job = fans'[h].job \/ fans'[g].owner = "relay"
        PROVE  g = h
    <3>1. CASE g # n /\ h # n
      BY <1>1, <1>7, <2>2, <3>1 DEF FansSound
    <3>2. CASE g = n \/ h = n
      BY <1>2, <1>7, <2>2, <3>2 DEF SameSide, TaskSide, WorkerSide
    <3> QED BY <3>1, <3>2
  <2>3. \A g \in DOMAIN fans' : fans'[g].via = "redis" => fans'[g].at = 1 /\ fans'[g].owner # "relay"
    BY <1>1, <1>7 DEF FansSound
  <2>4. transport = "redis" /\ outages = 0 =>
          /\ created # <<>> => subscribed
          /\ \A g \in DOMAIN fans' : fans'[g].owner # "relay" => fans'[g].via = "redis"
    BY <1>1, <1>7 DEF FansSound
  <2> QED BY <1>2, <1>8, <2>1, <2>2, <2>3, <2>4 DEF FansSound
<1>16. JobsSound' /\ RunningIsOwned'
  <2> SUFFICES ASSUME NEW k \in Jobs PROVE JobSound(k)' /\ Owned(k)'
    BY DEF JobsSound, RunningIsOwned, Owned
  <2>1. JobSound(k) /\ Owned(k) /\ Untouched(k)
    BY <1>1, <1>2 DEF JobsSound, RunningIsOwned, Owned, Untouched
  <2>2. \A i \in DOMAIN fans' : fans'[i].job = k =>
          \/ \E m \in DOMAIN channel : channel[m].job = k
          \/ \E g \in DOMAIN fans : fans[g].job = k
    BY <1>4, <1>7
  <2>3. \A m \in DOMAIN channel' : channel'[m].job = k => \E l \in DOMAIN channel : channel[l].job = k
    BY <1>4
  <2>4. \A g \in DOMAIN fans : fans[g].owner = "claim" /\ fans[g].job = k =>
          \E i \in DOMAIN fans' : fans'[i].owner = "claim" /\ fans'[i].job = k
    BY <1>7
  <2>5. JobSound(k)'
    BY <1>2, <2>1, <2>2, <2>3, JobStays
  <2>6. Owned(k)'
    BY <1>2, <2>1, <2>4, OwnedStays
  <2> QED BY <2>5, <2>6
<1>17. FreshRedis'
  <2>1. ASSUME NEW i \in DOMAIN fans', fans'[i].owner # "relay", fans'[i].job \notin Excused
        PROVE  fans'[i].shown = status[fans'[i].job]
    BY <1>1, <1>7, <1>8, <2>1 DEF FreshRedis
  <2>2. ASSUME NEW m \in DOMAIN channel', channel'[m].job \notin Direct, channel'[m].job \notin Excused,
               \A l \in DOMAIN channel' : m < l => channel'[l].job # channel'[m].job
        PROVE  channel'[m].shown = status[channel'[m].job]
    <3>1. m + 1 \in DOMAIN channel /\ channel'[m] = channel[m + 1] /\ m \in Nat
      BY <1>3, <1>4
    <3>2. ASSUME NEW l \in DOMAIN channel, m + 1 < l
          PROVE  channel[l].job # channel[m + 1].job
      <4>1. l - 1 \in DOMAIN channel' /\ channel'[l - 1] = channel[l] /\ m < l - 1
        BY <1>3, <1>4, <3>1, <3>2
      <4> QED BY <2>2, <3>1, <4>1
    <3> QED BY <1>1, <1>8, <2>2, <3>1, <3>2 DEF FreshRedis
  <2>3. ASSUME NEW i \in DOMAIN fans', fans'[i].job \notin Direct, fans'[i].job \notin Excused,
               \A m \in DOMAIN channel' : channel'[m].job # fans'[i].job
        PROVE  fans'[i].shown = status[fans'[i].job]
    <3>1. CASE i = n
      <4>1. \A l \in DOMAIN channel : 1 < l => channel[l].job # channel[1].job
        BY <1>3, <1>4, <1>7, <2>3, <3>1
      <4>2. channel[1].shown = status[channel[1].job]
        BY <1>1, <1>4, <1>7, <1>8, <2>3, <3>1, <4>1 DEF FreshRedis
      <4> QED BY <1>4, <1>7, <3>1, <4>2
    <3>2. CASE i # n
      <4>1. fans[i].job \in Direct
        BY <1>2, <1>3, <1>7, <3>2 DEF Direct
      <4> QED BY <1>7, <2>3, <3>2, <4>1
    <3> QED BY <3>1, <3>2
  <2> QED BY <1>2, <1>13, <1>14, <2>1, <2>2, <2>3 DEF FreshRedis
<1>18. FreshLocal'
  BY <1>2, <1>8 DEF FreshLocal
<1>19. Viewed'
  <2> SUFFICES ASSUME NEW d \in Clients, NEW k \in Jobs, socket[d] = "open",
                      k \notin Excused, <<d, k>> \notin missed, status[k] # "pending",
                      seen[d][k] # status[k]
               PROVE  Coming(d, k)'
    BY <1>2, <1>13 DEF Viewed
  <2>1. Coming(d, k)
    BY <1>1 DEF Viewed
  <2>2. ASSUME NEW m \in DOMAIN channel, channel[m].job = k
        PROVE  Coming(d, k)'
    <3>1. CASE m = 1
      <4>1. PICK p \in DOMAIN wsClients : wsClients[p] = d
        BY <1>1 DEF PagesSound
      <4>2. fans'[n].job = k /\ fans'[n].at <= p
        BY <1>3, <1>4, <1>7, <2>2, <3>1
      <4> QED BY <1>2, <1>7, <4>1, <4>2 DEF Coming
    <3>2. CASE m # 1
      BY <1>4, <2>2, <3>2 DEF Coming
    <3> QED BY <3>1, <3>2
  <2>3. ASSUME NEW g \in DOMAIN fans, NEW p \in DOMAIN wsClients,
               fans[g].job = k, wsClients[p] = d, fans[g].at <= p
        PROVE  Coming(d, k)'
    BY <1>2, <1>7, <2>3 DEF Coming
  <2> QED BY <2>1, <2>2, <2>3 DEF Coming
<1> QED BY <1>9, <1>10, <1>12, <1>15, <1>16, <1>17, <1>18, <1>19 DEF WebInv

\* The subscription is lost with what was in the channel.
LEMMA SubscriptionLostStep ==
  ASSUME WebInv, SubscriptionLost
  PROVE  WebInv'
<1>1. /\ WebTypes /\ PagesSound /\ FansSound /\ JobsSound /\ InOrder /\ FreshLocal
      /\ Viewed /\ RunningIsOwned
  BY DEF WebInv
<1>2. /\ outages' = outages + 1 /\ subscribed' = FALSE /\ channel' = <<>>
      /\ transport' = transport /\ status' = status /\ created' = created
      /\ claimedBy' = claimedBy /\ task' = task /\ knows' = knows /\ fans' = fans
      /\ wsClients' = wsClients /\ socket' = socket /\ seen' = seen
      /\ raced' = raced /\ stumbled' = stumbled /\ missed' = missed
  BY DEF SubscriptionLost, jobVars, history
<1>3. channel' \in Seq(Message) /\ DOMAIN channel' = {}
  BY <1>2, EmptySeq
<1>4. outages' \in Nat /\ outages' # 0
  BY <1>1, <1>2 DEF WebTypes
<1>5. WebTypes'
  BY <1>1, <1>2, <1>3, <1>4 DEF WebTypes
<1>6. PagesSound' /\ InOrder' /\ RunningIsOwned'
  <2>1. InOrder'
    BY <1>1, <1>2 DEF InOrder, PagesIntact
  <2> QED BY <1>1, <1>2, <2>1 DEF PagesSound, RunningIsOwned
<1>7. JobsSound'
  BY <1>1, <1>2, <1>3 DEF JobsSound, JobSound
<1>8. FansSound'
  BY <1>1, <1>2, <1>4 DEF FansSound, Awaited, SameSide
<1>9. FreshLocal' /\ FreshRedis' /\ Viewed'
  <2>1. CASE transport = "redis"
    BY <1>1, <1>2, <1>5, <2>1, OutOfReach
  <2>2. CASE transport = "local"
    <3>1. channel = <<>> /\ Excused' = Excused
      BY <1>1, <1>2, <2>2 DEF FansSound, Excused, PagesIntact
    <3>2. FreshLocal' /\ FreshRedis'
      BY <1>1, <1>2, <2>2, <3>1 DEF FreshLocal, FreshRedis
    <3>3. Viewed'
      BY <1>1, <1>2, <3>1 DEF Viewed, Coming
    <3> QED BY <3>2, <3>3
  <2> QED BY <1>1, <2>1, <2>2 DEF WebTypes
<1> QED BY <1>5, <1>6, <1>7, <1>8, <1>9 DEF WebInv

\* The subscriber is back.
LEMMA ResubscribeStep ==
  ASSUME WebInv, Resubscribe
  PROVE  WebInv'
<1>1. /\ WebTypes /\ PagesSound /\ FansSound /\ JobsSound /\ InOrder /\ FreshLocal /\ FreshRedis
      /\ Viewed /\ RunningIsOwned
  BY DEF WebInv
<1>2. /\ subscribed' = TRUE
      /\ transport' = transport /\ status' = status /\ created' = created
      /\ claimedBy' = claimedBy /\ task' = task /\ knows' = knows /\ fans' = fans
      /\ wsClients' = wsClients /\ socket' = socket /\ seen' = seen
      /\ channel' = channel /\ outages' = outages
      /\ raced' = raced /\ stumbled' = stumbled /\ missed' = missed
  BY DEF Resubscribe, jobVars, history
<1>3. WebTypes'
  BY <1>1, <1>2 DEF WebTypes
<1>4. PagesSound' /\ InOrder' /\ RunningIsOwned' /\ JobsSound'
  <2>1. InOrder'
    BY <1>1, <1>2 DEF InOrder, PagesIntact
  <2>2. JobsSound'
    BY <1>1, <1>2 DEF JobsSound, JobSound
  <2> QED BY <1>1, <1>2, <2>1, <2>2 DEF PagesSound, RunningIsOwned
<1>5. FansSound'
  BY <1>1, <1>2 DEF FansSound, Awaited, SameSide
<1>6. Excused' = Excused
  BY <1>2 DEF Excused, PagesIntact
<1>7. FreshLocal' /\ FreshRedis'
  BY <1>1, <1>2, <1>6, StaysFresh
<1>8. Viewed'
  BY <1>1, <1>2, <1>6 DEF Viewed, Coming
<1> QED BY <1>3, <1>4, <1>5, <1>7, <1>8 DEF WebInv

-------------------------------------------------------------------------------
(* The theorems.                                                            *)

\* Every step keeps the invariant.
LEMMA WebStep == WebInv /\ [Next]_vars => WebInv'
<1> SUFFICES ASSUME WebInv, [Next]_vars PROVE WebInv'
  OBVIOUS
<1>1. ASSUME NEW j \in Jobs, NEW federated \in BOOLEAN, Query(j, federated) PROVE WebInv'
  BY <1>1, QueryStep
<1>2. ASSUME NEW j \in Jobs, TaskStep(j) PROVE WebInv'
  BY <1>2, TaskBeginsStep, RunEndsStep DEF TaskStep
<1>3. ASSUME NEW j \in Jobs, NEW w \in Workers, Claim(w, j) PROVE WebInv'
  BY <1>3, ClaimStep
<1>4. ASSUME NEW j \in Jobs, NEW o \in Finished, Complete(j, o) PROVE WebInv'
  BY <1>4, CompleteStep
<1>5. ASSUME NEW c \in Clients, Connect(c) \/ Hangup(c) \/ EndpointEnds(c) PROVE WebInv'
  BY <1>5, ConnectStep, HangupStep, EndpointEndsStep
<1>6. ASSUME FanStep PROVE WebInv'
  BY <1>6, DeliverStep, SendEndsStep, PublishStep, PublishFailsStep DEF FanStep
<1>7. ASSUME Relay \/ SubscriptionLost \/ Resubscribe PROVE WebInv'
  BY <1>7, RelayStep, SubscriptionLostStep, ResubscribeStep
<1>8. CASE UNCHANGED vars
  <2>1. /\ transport' = transport /\ fans' = fans /\ outages' = outages
        /\ UNCHANGED jobVars /\ UNCHANGED wireVars /\ UNCHANGED history
    BY <1>8 DEF vars
  <2>2. FansSound' /\ JobsSound' /\ RunningIsOwned'
    BY <2>1, OnlyPages DEF wireVars, history
  <2>3. /\ status' = status /\ created' = created
        /\ claimedBy' = claimedBy /\ task' = task /\ knows' = knows
        /\ wsClients' = wsClients /\ socket' = socket /\ seen' = seen
        /\ channel' = channel /\ subscribed' = subscribed
        /\ raced' = raced /\ stumbled' = stumbled /\ missed' = missed
    BY <2>1 DEF jobVars, wireVars, history
  <2>4. WebTypes' /\ PagesSound' /\ InOrder'
    BY <2>1, <2>3 DEF WebInv, WebTypes, PagesSound, InOrder, PagesIntact
  <2>5. Excused' = Excused
    BY <2>1, <2>3 DEF Excused, PagesIntact
  <2>6. FreshLocal' /\ FreshRedis' /\ Viewed'
    <3>1. FreshLocal' /\ FreshRedis'
      BY <2>1, <2>3, <2>5, StaysFresh DEF WebInv
    <3> QED BY <2>1, <2>3, <2>5, <3>1 DEF WebInv, Viewed, Coming
  <2> QED BY <2>2, <2>4, <2>6 DEF WebInv
<1> QED BY <1>1, <1>2, <1>3, <1>4, <1>5, <1>6, <1>7, <1>8 DEF Next

\* What is said of the pages when nothing is on its way follows.
LEMMA QuietPages == WebInv => ShownIsSo
<1> SUFFICES ASSUME WebInv PROVE ShownIsSo
  OBVIOUS
<1>1. WebTypes /\ RunningIsOwned /\ Viewed
  BY DEF WebInv
<1>2. TypeOK
  <2>1. ToSet(wsClients) \subseteq Clients
    BY <1>1, FanJobs DEF ToSet
  <2> QED BY <1>1, <2>1 DEF WebTypes, TypeOK, Statuses, Shown
<1>3. ASSUME Quiet, NEW c \in Clients, NEW j \in Jobs, socket[c] = "open"
      PROVE  \/ seen[c][j] = status[j]
             \/ status[j] = "pending"
             \/ <<c, j>> \in missed
             \/ transport = "redis" /\ outages > 0
             \/ j \in raced /\ (transport = "redis" \/ ~PagesIntact)
  <2>1. ~Coming(c, j)
    <3>1. DOMAIN fans = {} /\ DOMAIN channel = {}
      BY <1>3 DEF Quiet
    <3> QED BY <3>1 DEF Coming
  <2> QED BY <1>1, <1>3, <2>1 DEF Viewed, Excused
<1> QED BY <1>1, <1>2, <1>3 DEF ShownIsSo, ClientsUpToDate

\* Whatever the jobs, pages and workers and with either broadcaster: when no
\* update is on its way every connected page shows every job as it is, but for
\* the named excuses, and a job shown as running is being run (web/app.py,
\* _send_to_local_clients, ws_endpoint, _run_job, api_jobs_claim).
THEOREM PagesShowWhatIs == Spec => []ShownIsSo
<1>1. Spec => Init /\ [][Next]_vars
  BY DEF Spec
<1> QED BY <1>1, WebInit, WebStep, QuietPages, PTL

\* A finished job is overwritten by nobody else: the task and the worker that
\* write the status without looking find it unfinished, unless the job was
\* begun here after it was claimed or its last broadcast raised.
LEMMA OutcomeStep ==
  ASSUME WebInv, Next, NEW j \in Jobs, status[j] \in Finished, status'[j] # status[j]
  PROVE  j \in raced' \/ j \in stumbled'
<1>1. /\ WebTypes /\ FansSound /\ JobSound(j) /\ status \in [Jobs -> Statuses]
  BY DEF WebInv, JobsSound, WebTypes
<1>2. status[j] \notin {"absent", "pending", "running"}
  BY DEF Finished
<1>3. ASSUME NEW k \in Jobs, NEW federated \in BOOLEAN, Query(k, federated)
      PROVE  FALSE
  BY <1>1, <1>2, <1>3 DEF Query, Known
<1>4. ASSUME NEW k \in Jobs, TaskBegins(k)
      PROVE  j \in raced'
  <2>1. k = j /\ task[j] = "ready" /\ raced' = IF claimedBy[j] = Nobody THEN raced ELSE raced \cup {j}
    BY <1>1, <1>4 DEF TaskBegins
  <2> QED BY <1>1, <1>2, <2>1 DEF JobSound
<1>5. ASSUME NEW k \in Jobs, NEW o \in Finished, RunEnds(k, o)
      PROVE  j \in raced'
  <2>1. k = j /\ task[j] = "running" /\ raced' = raced
    BY <1>1, <1>5 DEF RunEnds, history
  <2> QED BY <1>1, <1>2, <2>1 DEF JobSound
<1>6. ASSUME NEW k \in Jobs, NEW w \in Workers, Claim(w, k)
      PROVE  FALSE
  BY <1>1, <1>2, <1>6 DEF Claim, OldestPending
<1>7. ASSUME NEW k \in Jobs, NEW o \in Finished, Complete(k, o)
      PROVE  j \in raced'
  <2>1. k = j /\ j \in knows /\ task[j] # "ready" /\ raced' = raced
    BY <1>1, <1>7 DEF Complete, history
  <2> QED BY <1>1, <1>2, <2>1 DEF JobSound
<1>8. ASSUME NEW c \in Clients, Connect(c) \/ Hangup(c) \/ EndpointEnds(c)
      PROVE  FALSE
  BY <1>8 DEF Connect, Hangup, EndpointEnds, jobVars
<1>9. ASSUME FanStep
      PROVE  j \in stumbled'
  <2>1. PICK f \in DOMAIN fans : Deliver(f) \/ SendEnds(f) \/ Publish(f) \/ PublishFails(f)
    BY <1>9 DEF FanStep
  <2>2. ~Deliver(f) /\ ~PublishFails(f)
    BY DEF Deliver, PublishFails, jobVars
  <2>3. \E raised \in BOOLEAN : Resume(f, raised)
    <3>1. CASE SendEnds(f)
      <4>1. Raises(fans[f]) \in BOOLEAN /\ Resume(f, Raises(fans[f]))
        BY <3>1 DEF SendEnds, Raises
      <4> QED BY <4>1
    <3>2. CASE Publish(f)
      BY <3>2 DEF Publish
    <3> QED BY <2>1, <2>2, <3>1, <3>2
  <2>4. PICK raised \in BOOLEAN : Resume(f, raised)
    BY <2>3
  <2>5. fans[f].job = j /\ raised /\ transport = "local"
    BY <1>1, <2>4 DEF Resume
  <2>6. stumbled' = stumbled \cup {j}
    BY <2>4, <2>5 DEF Resume
  <2> QED BY <2>6
<1>10. ASSUME Relay \/ SubscriptionLost \/ Resubscribe
       PROVE  FALSE
  BY <1>10 DEF Relay, SubscriptionLost, Resubscribe, jobVars
<1> QED BY <1>3, <1>4, <1>5, <1>6, <1>7, <1>8, <1>9, <1>10 DEF Next, TaskStep

\* A finished job keeps its outcome, whatever claims, completions and tasks
\* interleave, unless it was run twice or its last broadcast raised
\* (api_jobs_complete and _run_job, which overwrite it without looking).
THEOREM OutcomesStand == Spec => OutcomeStands
<1>1. Spec => Init /\ [][Next]_vars
  BY DEF Spec
<1> DEFINE Stand == \A j \in Jobs : status[j] \in Finished /\ status'[j] # status[j] =>
                                     j \in raced' \/ j \in stumbled'
<1>2. WebInv /\ [Next]_vars => [Stand]_vars
  <2> SUFFICES ASSUME WebInv, [Next]_vars, ~UNCHANGED vars PROVE Stand
    OBVIOUS
  <2> QED BY OutcomeStep
<1> QED BY <1>1, <1>2, WebInit, WebStep, PTL DEF OutcomeStands
===============================================================================
