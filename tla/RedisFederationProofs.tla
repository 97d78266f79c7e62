------------------------ MODULE RedisFederationProofs -------------------------
(***************************************************************************)
(* Theorems about RedisFederation, for all values of its constants: any     *)
(* number of jobs, workers, coordinators and requests.                      *)
(***************************************************************************)
EXTENDS RedisFederation, TLAPS, FiniteSetTheorems, SequenceTheorems

(***************************************************************************)
(* The inductive invariant.                                                 *)
(***************************************************************************)

\* The bound on claims.
RunsBounded == Len(runs) <= MaxRuns

\* A pass re-queues with a created_at it has read from a hash that exists: a
\* job it has still to read was submitted, and no hash is ever deleted.
PassReadsHash ==
  \A c \in Coordinators :
    /\ \A j \in reaper[c].todo : stamp[j] # 0
    /\ reaper[c].found # NoJob => reaper[c].stamp # 0

IInv == PendingIsClaimable /\ RunsBounded /\ PassReadsHash

\* What holds in addition until something of `disturbed' happens.
Worked(j) == \E i \in DOMAIN runs : Live(i) /\ runs[i].job = j

FreshIsAbsent == \A j \in Jobs : arrived[j] = 0 => status[j] = "absent"

\* A job has at most one member, and only while it is pending.
MembersPending ==
  \A m \in pending : status[m[2]] = "pending" /\ m[1] = stamp[m[2]]

\* A worker at work is the one the hash names, and the only one.
LiveHolds == \A i \in DOMAIN runs : Live(i) => Holds(i)
Exclusive ==
  \A i, k \in DOMAIN runs : i # k /\ Live(i) /\ Live(k) => runs[i].job # runs[k].job

\* What a reaper finds, or is about to re-queue, nobody works on.
StaleUnworked == \A j \in stale : status[j] = "claimed" /\ ~Worked(j)
PassAlone ==
  /\ \A c \in Coordinators :
       reaper[c].found # NoJob =>
         /\ reaper[c].active
         /\ status[reaper[c].found] = "claimed"
         /\ ~Worked(reaper[c].found)
         /\ reaper[c].stamp = stamp[reaper[c].found]
  /\ \A c, d \in Coordinators : reaper[c].active /\ reaper[d].active => c = d

\* What a claim without script watches is still there.
WatchKept == \A w \in Workers : watch[w] # Unwatched => watch[w] \in pending

Quiet == /\ FreshIsAbsent /\ MembersPending /\ LiveHolds /\ Exclusive
         /\ StaleUnworked /\ PassAlone /\ WatchKept

(***************************************************************************)
(* Lemmas.                                                                  *)
(***************************************************************************)

\* The clock of submissions: a submission that arrives has a number, because
\* it is not among those that have arrived.
LEMMA NowIsStamp ==
  ASSUME TypeOK, NEW j \in Jobs, arrived[j] < MaxPublish
  PROVE  Now \in Stamps /\ Now # 0
<1>1. IsFiniteSet(1..MaxPublish)
  BY FS_Interval, RedisFederationAssumption
<1>2. IsFiniteSet(Submissions)
  BY <1>1, FS_Product, RedisFederationAssumption DEF Submissions
<1>3. Arrived \in SUBSET Submissions
  BY DEF Arrived
<1>4. /\ IsFiniteSet(Arrived)
      /\ Cardinality(Arrived) <= Cardinality(Submissions)
      /\ Cardinality(Submissions) = Cardinality(Arrived) => Submissions = Arrived
  BY <1>2, <1>3, FS_Subset
<1>5. Cardinality(Arrived) \in Nat /\ Cardinality(Submissions) \in Nat
  BY <1>2, <1>4, FS_CardinalityType
<1>6. Submissions # Arrived
  <2>1. arrived[j] \in Nat /\ arrived[j] + 1 \in 1..MaxPublish
    BY RedisFederationAssumption, SMTT(60) DEF TypeOK
  <2>2. <<j, arrived[j] + 1>> \in Submissions
    BY <2>1 DEF Submissions
  <2>3. <<j, arrived[j] + 1>> \notin Arrived
    BY <2>1 DEF Arrived
  <2> QED BY <2>2, <2>3
<1> QED BY <1>4, <1>5, <1>6 DEF Now, Stamps

\* Runs are appended or changed one at a time, or all those of a worker end.
LEMMA RunsChange ==
  ASSUME runs \in Seq(Run)
  PROVE  /\ DOMAIN runs = 1..Len(runs) /\ Len(runs) \in Nat
         /\ \A i \in DOMAIN runs : runs[i] \in Run
         /\ \A r \in Run : /\ Append(runs, r) \in Seq(Run)
                           /\ Len(Append(runs, r)) = Len(runs) + 1
         /\ \A i \in DOMAIN runs, r \in Run :
              /\ [runs EXCEPT ![i] = r] \in Seq(Run)
              /\ Len([runs EXCEPT ![i] = r]) = Len(runs)
<1>1. DOMAIN runs = 1..Len(runs) /\ Len(runs) \in Nat
  BY LenProperties
<1>2. \A i \in DOMAIN runs : runs[i] \in Run
  BY <1>1, ElementOfSeq
<1>3. ASSUME NEW r \in Run
      PROVE  Append(runs, r) \in Seq(Run) /\ Len(Append(runs, r)) = Len(runs) + 1
  BY AppendProperties
<1>4. ASSUME NEW i \in DOMAIN runs, NEW r \in Run
      PROVE  /\ [runs EXCEPT ![i] = r] \in Seq(Run)
             /\ Len([runs EXCEPT ![i] = r]) = Len(runs)
  BY <1>1, ExceptSeq
<1> QED BY <1>1, <1>2, <1>3, <1>4

\* Whoever watches the set, a change of it leaves a member or nothing watched.
LEMMA WatchTyped ==
  ASSUME TypeOK, Noticed
  PROVE  watch' \in [Workers -> (Stamps \X Jobs) \cup {Unwatched}]
BY DEF TypeOK, Noticed

(***************************************************************************)
(* The steps that change the two stores, the runs or a pass.                *)
(***************************************************************************)

\* A submission writes a hash with a number and the member of that number.
LEMMA SubmitStep ==
  ASSUME IInv, Noticed, NEW j \in Jobs, Submit(j)
  PROVE  IInv'
<1> USE RedisFederationAssumption DEF IInv, PendingIsClaimable
<1>1. Now \in Stamps /\ Now # 0
  BY NowIsStamp DEF Submit
<1>2. watch' \in [Workers -> (Stamps \X Jobs) \cup {Unwatched}]
  BY WatchTyped
<1>3. TypeOK'
  <2>1. stamp' \in [Jobs -> Stamps \cup {0}] /\ pending' \subseteq Stamps \X Jobs
    BY <1>1 DEF TypeOK, Submit
  <2>2. arrived' \in [Jobs -> 0..MaxPublish]
    BY SMTT(60) DEF TypeOK, Submit
  <2>3. /\ status' \in [Jobs -> {"absent", "pending", "claimed", "finished"}]
        /\ claimedBy' \in [Jobs -> Workers \cup {NoWorker}]
        /\ result' \in [Jobs -> 0..MaxRuns]
        /\ stale' \subseteq Jobs
        /\ disturbed' \in BOOLEAN
    BY DEF TypeOK, Submit
  <2> QED BY <1>2, <2>1, <2>2, <2>3 DEF TypeOK, Submit
<1>4. ASSUME NEW k \in Jobs, status'[k] = "pending" PROVE Claimable(k)'
  <2>1. CASE k = j
    <3>1. <<Now, j>> \in pending' /\ <<Now, j>>[2] = k
      BY <2>1 DEF Submit
    <3> QED BY <3>1 DEF Claimable
  <2>2. CASE k # j
    BY <1>4, <2>2 DEF Submit, TypeOK, Claimable
  <2> QED BY <2>1, <2>2
<1>5. RunsBounded' /\ PassReadsHash'
  <2>1. ASSUME NEW k \in Jobs, stamp[k] # 0 PROVE stamp'[k] # 0
    BY <1>1, <2>1 DEF TypeOK, Submit
  <2>2. \A c \in Coordinators : reaper[c].todo \subseteq Jobs
    BY DEF TypeOK, Pass
  <2> QED BY <2>1, <2>2 DEF Submit, RunsBounded, PassReadsHash
<1> QED BY <1>3, <1>4, <1>5

\* A claim removes a member only together with the status "pending".
LEMMA TakeStep ==
  ASSUME IInv, Noticed, NEW w \in Workers, NEW m \in Stamps \X Jobs, Take(w, m)
  PROVE  IInv'
<1> USE RedisFederationAssumption DEF IInv, PendingIsClaimable
<1>1. m[2] \in Jobs
  OBVIOUS
<1>2. watch' \in [Workers -> (Stamps \X Jobs) \cup {Unwatched}]
  BY WatchTyped
<1>3. /\ runs' \in Seq(Run)
      /\ Len(runs') <= MaxRuns
      /\ DOMAIN runs \subseteq DOMAIN runs'
      /\ lost' \in 0..MaxLost
  <2>1. runs \in Seq(Run) /\ Len(runs) \in Nat /\ DOMAIN runs = 1..Len(runs)
    BY RunsChange DEF TypeOK
  <2>2. CASE runs' = Append(runs, NewRun(w, m[2])) /\ UNCHANGED lost
    <3>1. NewRun(w, m[2]) \in Run
      BY <1>1 DEF NewRun, Run
    <3>2. runs' \in Seq(Run) /\ Len(runs') = Len(runs) + 1
      BY <2>1, <2>2, <3>1, RunsChange
    <3>3. DOMAIN runs' = 1..Len(runs')
      BY <3>2, LenProperties
    <3> QED BY <2>1, <2>2, <3>2, <3>3, SMTT(60) DEF Take, TypeOK
  <2>3. CASE Loss /\ UNCHANGED runs
    <3>1. lost' \in 0..MaxLost
      BY <2>3 DEF TypeOK, Loss
    <3>2. Len(runs') <= MaxRuns /\ runs' = runs
      BY <2>3 DEF RunsBounded
    <3> QED BY <2>1, <3>1, <3>2
  <2> QED BY <2>2, <2>3 DEF Take
<1>4. TypeOK'
  <2>1. /\ status' \in [Jobs -> {"absent", "pending", "claimed", "finished"}]
        /\ claimedBy' \in [Jobs -> Workers \cup {NoWorker}]
        /\ pending' \subseteq Stamps \X Jobs
        /\ stale' \subseteq Jobs
    BY <1>1 DEF TypeOK, Take
  <2>2. beat' \subseteq DOMAIN runs'
    BY <1>3 DEF TypeOK, Take
  <2> QED BY <1>2, <1>3, <2>1, <2>2 DEF TypeOK, Take
<1>5. ASSUME NEW k \in Jobs, status'[k] = "pending" PROVE Claimable(k)'
  <2>1. k # m[2] /\ status[k] = "pending"
    BY <1>1, <1>5 DEF Take, TypeOK
  <2>2. PICK n \in pending : n[2] = k
    BY <2>1 DEF Claimable
  <2>3. n \in pending'
    BY <2>1, <2>2 DEF Take
  <2> QED BY <2>2, <2>3 DEF Claimable
<1>6. RunsBounded' /\ PassReadsHash'
  BY <1>3 DEF Take, RunsBounded, PassReadsHash
<1> QED BY <1>4, <1>5, <1>6

\* The steps of a run change that run alone; complete() never writes "pending".
LEMMA RunStep ==
  ASSUME IInv, Noticed, NEW i \in DOMAIN runs,
         \/ JobEnds(i) \/ TimesOut(i) \/ EndsUnheard(i)
         \/ CompleteRead(i) \/ CompleteWrite(i)
  PROVE  IInv'
<1> USE RedisFederationAssumption DEF IInv, PendingIsClaimable
<1>1. /\ runs \in Seq(Run) /\ Len(runs) \in Nat /\ DOMAIN runs = 1..Len(runs)
      /\ runs[i] \in Run
  BY RunsChange DEF TypeOK
<1>2. watch' \in [Workers -> (Stamps \X Jobs) \cup {Unwatched}]
  BY WatchTyped
<1>3. \E r \in Run : runs' = [runs EXCEPT ![i] = r]
  <2>1. Over(runs[i]) \in Run
    BY <1>1 DEF Over, Run
  <2>2. \A p \in {"reporting", "writing"} : [runs[i] EXCEPT !.phase = p] \in Run
    BY <1>1 DEF Run
  <2>3. /\ [runs[i] EXCEPT !.phase = "reporting", !.executing = FALSE] \in Run
        /\ [runs[i] EXCEPT !.executing = FALSE] \in Run
    BY <1>1 DEF Run
  <2>4. CASE JobEnds(i) \/ TimesOut(i) \/ EndsUnheard(i)
    <3>1. CASE JobEnds(i)
      BY <2>3, <3>1, <1>1 DEF JobEnds
    <3>2. CASE TimesOut(i)
      BY <2>2, <3>2, <1>1 DEF TimesOut
    <3>3. CASE EndsUnheard(i)
      BY <2>3, <3>3, <1>1 DEF EndsUnheard
    <3> QED BY <2>4, <3>1, <3>2, <3>3
  <2>5. CASE CompleteRead(i)
    BY <2>1, <2>2, <2>5, <1>1 DEF CompleteRead
  <2>6. CASE CompleteWrite(i)
    BY <2>1, <2>6 DEF CompleteWrite
  <2> QED BY <2>4, <2>5, <2>6
<1>4. /\ runs' \in Seq(Run)
      /\ Len(runs') = Len(runs)
      /\ DOMAIN runs' = DOMAIN runs
  <2>1. PICK r \in Run : runs' = [runs EXCEPT ![i] = r]
    BY <1>3
  <2> QED BY <1>1, <2>1, RunsChange
<1>5. TypeOK'
  <2>1. CASE CompleteWrite(i)
    <3>1. runs[i].job \in Jobs /\ i \in 0..MaxRuns
      BY <1>1 DEF Run, RunsBounded
    <3>2. /\ status' \in [Jobs -> {"absent", "pending", "claimed", "finished"}]
          /\ result' \in [Jobs -> 0..MaxRuns]
          /\ stale' \subseteq Jobs
      BY <2>1, <3>1 DEF TypeOK, CompleteWrite
    <3> QED BY <1>2, <1>4, <2>1, <3>2 DEF TypeOK, CompleteWrite
  <2>2. CASE CompleteRead(i)
    BY <1>2, <1>4, <2>2, SMTT(60) DEF TypeOK, CompleteRead, hashVars, Loss
  <2>3. CASE JobEnds(i) \/ TimesOut(i) \/ EndsUnheard(i)
    BY <1>2, <1>4, <2>3 DEF TypeOK, JobEnds, TimesOut, EndsUnheard, hashVars
  <2> QED BY <2>1, <2>2, <2>3
<1>6. ASSUME NEW k \in Jobs, status'[k] = "pending" PROVE Claimable(k)'
  <2>1. status[k] = "pending" /\ pending' = pending
    <3>1. CASE CompleteWrite(i)
      BY <1>1, <1>6, <3>1 DEF CompleteWrite, TypeOK
    <3>2. CASE JobEnds(i) \/ TimesOut(i) \/ EndsUnheard(i) \/ CompleteRead(i)
      BY <1>6, <3>2 DEF JobEnds, TimesOut, EndsUnheard, CompleteRead, hashVars
    <3> QED BY <3>1, <3>2
  <2> QED BY <2>1 DEF Claimable
<1>7. RunsBounded' /\ PassReadsHash'
  BY <1>4 DEF JobEnds, TimesOut, EndsUnheard, CompleteRead, CompleteWrite, hashVars,
              RunsBounded, PassReadsHash
<1> QED BY <1>5, <1>6, <1>7

\* A crash ends runs of the worker and nothing else.
LEMMA CrashStep ==
  ASSUME IInv, Noticed, NEW w \in Workers, WorkerCrash(w)
  PROVE  IInv'
<1> USE RedisFederationAssumption DEF IInv, PendingIsClaimable
<1>1. /\ runs \in Seq(Run) /\ Len(runs) \in Nat /\ DOMAIN runs = 1..Len(runs)
      /\ \A i \in DOMAIN runs : runs[i] \in Run
  BY RunsChange DEF TypeOK
<1>2. \A i \in DOMAIN runs : Dead(runs[i]) \in Run
  BY <1>1 DEF Dead, Run
<1>3. runs' \in [1..Len(runs) -> Run]
  BY <1>1, <1>2 DEF WorkerCrash
<1>4. /\ runs' \in Seq(Run)
      /\ Len(runs') = Len(runs)
      /\ DOMAIN runs' = DOMAIN runs
  BY <1>1, <1>3
<1>5. watch' \in [Workers -> (Stamps \X Jobs) \cup {Unwatched}]
  BY WatchTyped
<1>6. TypeOK'
  <2>1. crashes' \in 0..MaxCrashes
    BY DEF TypeOK, WorkerCrash
  <2> QED BY <1>4, <1>5, <2>1 DEF TypeOK, WorkerCrash, hashVars
<1>7. RunsBounded' /\ PassReadsHash' /\ \A k \in Jobs : status'[k] = "pending" => Claimable(k)'
  BY <1>4 DEF WorkerCrash, hashVars, RunsBounded, PassReadsHash, Claimable
<1> QED BY <1>6, <1>7

\* A pass looks at a job: it remembers created_at of a hash that exists.
LEMMA ReapReadStep ==
  ASSUME IInv, Noticed, NEW c \in Coordinators, ReapRead(c)
  PROVE  IInv'
<1> USE RedisFederationAssumption DEF IInv, PendingIsClaimable
<1>1. PICK j \in reaper[c].todo :
        LET rest == [reaper[c] EXCEPT !.todo = @ \ {j}] IN
        reaper' = [reaper EXCEPT ![c] =
          IF status[j] = "claimed" /\ j \in stale
          THEN [rest EXCEPT !.found = j, !.stamp = stamp[j]]
          ELSE IF rest.todo = {} THEN Resting ELSE rest]
  BY DEF ReapRead
<1>2. reaper[c] \in Pass /\ j \in Jobs /\ stamp[j] \in Stamps \cup {0} /\ stamp[j] # 0
  BY DEF TypeOK, Pass, PassReadsHash
<1>3. /\ reaper'[c] \in Pass
      /\ reaper'[c].todo \subseteq reaper[c].todo
      /\ reaper'[c].found # NoJob => reaper'[c].stamp # 0
  <2>1. reaper \in [Coordinators -> Pass]
    BY DEF TypeOK
  <2>2. reaper[c].found = NoJob
    BY DEF ReapRead
  <2>3. Resting \in Pass
    BY DEF Resting, Pass
  <2> QED BY <1>1, <1>2, <2>1, <2>2, <2>3 DEF Pass, Resting
<1>4. \A d \in Coordinators : d # c => reaper'[d] = reaper[d]
  BY <1>1 DEF TypeOK
<1>5. reaper' \in [Coordinators -> Pass]
  BY <1>1, <1>3, <1>4 DEF TypeOK
<1>6. watch' \in [Workers -> (Stamps \X Jobs) \cup {Unwatched}]
  BY WatchTyped
<1>7. TypeOK'
  BY <1>5, <1>6 DEF TypeOK, ReapRead, hashVars
<1>8. PassReadsHash'
  BY <1>3, <1>4 DEF ReapRead, hashVars, PassReadsHash
<1>9. RunsBounded' /\ \A k \in Jobs : status'[k] = "pending" => Claimable(k)'
  BY DEF ReapRead, hashVars, RunsBounded, Claimable
<1> QED BY <1>7, <1>8, <1>9

\* A pass writes hash and member together.
LEMMA ReapWriteStep ==
  ASSUME IInv, Noticed, NEW c \in Coordinators, ReapWrite(c)
  PROVE  IInv'
<1> USE RedisFederationAssumption DEF IInv, PendingIsClaimable
<1> DEFINE j == reaper[c].found
<1>1. /\ reaper[c] \in Pass /\ j \in Jobs
      /\ reaper[c].stamp \in Stamps
  BY DEF TypeOK, Pass, PassReadsHash, ReapWrite
<1>2. /\ reaper'[c] \in Pass
      /\ reaper'[c].todo \subseteq reaper[c].todo
      /\ reaper'[c].found = NoJob
      /\ \A d \in Coordinators : d # c => reaper'[d] = reaper[d]
      /\ reaper' \in [Coordinators -> Pass]
  <2>1. reaper \in [Coordinators -> Pass]
    BY DEF TypeOK
  <2>2. Resting \in Pass /\ Resting.todo = {} /\ Resting.found = NoJob
    BY DEF Resting, Pass
  <2>3. /\ Requeued(c) \in Pass /\ Requeued(c).todo = reaper[c].todo
        /\ Requeued(c).found = NoJob
    BY <1>1 DEF Requeued, Pass
  <2> QED BY <2>1, <2>2, <2>3 DEF ReapWrite
<1>3. watch' \in [Workers -> (Stamps \X Jobs) \cup {Unwatched}]
  BY WatchTyped
<1>4. TypeOK'
  <2>1. /\ status' \in [Jobs -> {"absent", "pending", "claimed", "finished"}]
        /\ claimedBy' \in [Jobs -> Workers \cup {NoWorker}]
        /\ pending' \subseteq Stamps \X Jobs
        /\ stale' \subseteq Jobs
    BY <1>1, SMTT(60) DEF TypeOK, ReapWrite
  <2> QED BY <1>2, <1>3, <2>1 DEF TypeOK, ReapWrite
<1>5. ASSUME NEW k \in Jobs, status'[k] = "pending" PROVE Claimable(k)'
  <2>1. CASE k = j
    <3>1. <<reaper[c].stamp, j>> \in pending' /\ <<reaper[c].stamp, j>>[2] = k
      BY <2>1 DEF ReapWrite
    <3> QED BY <3>1 DEF Claimable
  <2>2. CASE k # j
    BY <1>1, <1>5, <2>2 DEF ReapWrite, TypeOK, Claimable
  <2> QED BY <2>1, <2>2
<1>6. RunsBounded' /\ PassReadsHash'
  BY <1>2 DEF ReapWrite, RunsBounded, PassReadsHash
<1> QED BY <1>4, <1>5, <1>6

\* The other steps change neither the set nor what a hash says of its job.
LEMMA OtherStep ==
  ASSUME IInv, Noticed,
         \/ \E j \in Jobs : BecomesStale(j)
         \/ \E i \in DOMAIN runs : HeartbeatRead(i) \/ HeartbeatWrite(i)
         \/ \E c \in Coordinators : ReapStart(c) \/ ReapInterrupted(c)
  PROVE  IInv'
<1> USE RedisFederationAssumption
<1> USE DEF IInv, PendingIsClaimable, Claimable, RunsBounded, PassReadsHash
<1>1. TypeOK
  OBVIOUS
<1>2. watch' \in [Workers -> (Stamps \X Jobs) \cup {Unwatched}]
  BY <1>1, WatchTyped
<1>3. ASSUME NEW j \in Jobs, BecomesStale(j) PROVE IInv'
  BY <1>1, <1>2, <1>3 DEF TypeOK, BecomesStale, hashVars
<1>4. ASSUME NEW i \in DOMAIN runs, HeartbeatRead(i) PROVE IInv'
  BY <1>1, <1>2, <1>4 DEF TypeOK, HeartbeatRead, hashVars
<1>5. ASSUME NEW i \in DOMAIN runs, HeartbeatWrite(i) PROVE IInv'
  BY <1>1, <1>2, <1>5 DEF TypeOK, HeartbeatWrite, hashVars
<1>6. ASSUME NEW c \in Coordinators, ReapStart(c) PROVE IInv'
  BY <1>1, <1>2, <1>6 DEF TypeOK, ReapStart, hashVars, Pass, Resting
<1>7. ASSUME NEW c \in Coordinators, ReapInterrupted(c) PROVE IInv'
  BY <1>1, <1>2, <1>7, SMTT(60) DEF TypeOK, ReapInterrupted, hashVars, Loss, Pass, Resting
<1> QED BY <1>3, <1>4, <1>5, <1>6, <1>7

(***************************************************************************)
(* The theorem.                                                             *)
(***************************************************************************)

LEMMA IInvInit == Init => IInv
<1> SUFFICES ASSUME Init PROVE IInv
  OBVIOUS
<1> USE RedisFederationAssumption DEF Init
<1>1. runs \in Seq(Run) /\ Len(runs) = 0
  OBVIOUS
<1>2. reaper \in [Coordinators -> Pass]
  BY DEF Pass, Resting
<1>3. TypeOK
  <2>1. \A n \in {MaxPublish, MaxRuns, MaxLost, MaxCrashes} : 0 \in 0..n
    OBVIOUS
  <2>2. /\ status \in [Jobs -> {"absent", "pending", "claimed", "finished"}]
        /\ claimedBy \in [Jobs -> Workers \cup {NoWorker}]
        /\ stamp \in [Jobs -> Stamps \cup {0}]
        /\ result \in [Jobs -> 0..MaxRuns]
        /\ arrived \in [Jobs -> 0..MaxPublish]
        /\ watch \in [Workers -> (Stamps \X Jobs) \cup {Unwatched}]
    BY <2>1
  <2>3. lost \in 0..MaxLost /\ crashes \in 0..MaxCrashes /\ disturbed \in BOOLEAN
    BY <2>1
  <2>4. pending \subseteq Stamps \X Jobs /\ stale \subseteq Jobs /\ beat \subseteq DOMAIN runs
    OBVIOUS
  <2> QED BY <1>1, <1>2, <2>2, <2>3, <2>4 DEF TypeOK
<1>4. RunsBounded
  <2>1. MaxRuns \in Nat
    OBVIOUS
  <2> QED BY <1>1, <2>1 DEF RunsBounded
<1>5. \A j \in Jobs : status[j] # "pending"
  OBVIOUS
<1>6. PassReadsHash
  BY DEF PassReadsHash, Resting
<1> QED BY <1>3, <1>4, <1>5, <1>6 DEF IInv, PendingIsClaimable

LEMMA IInvStep == IInv /\ [Next]_vars => IInv'
<1> SUFFICES ASSUME IInv, [Next]_vars PROVE IInv'
  OBVIOUS
<1>1. CASE Command /\ Noticed
  <2>1. ASSUME NEW j \in Jobs, Submit(j) PROVE IInv'
    BY <1>1, <2>1, SubmitStep
  <2>2. ASSUME NEW w \in Workers, Claim(w) PROVE IInv'
    <3>1. PICK m \in pending : Take(w, m)
      BY <2>2 DEF Claim
    <3>2. m \in Stamps \X Jobs
      BY DEF IInv, PendingIsClaimable, TypeOK
    <3> QED BY <1>1, <3>1, <3>2, TakeStep
  <2>3. ASSUME NEW w \in Workers, WatchExec(w) PROVE IInv'
    <3>1. watch[w] \in Stamps \X Jobs
      BY <2>3 DEF WatchExec, IInv, PendingIsClaimable, TypeOK
    <3>2. Take(w, watch[w])
      BY <2>3 DEF WatchExec
    <3> QED BY <1>1, <3>1, <3>2, TakeStep
  <2>4. ASSUME NEW w \in Workers, WorkerCrash(w) PROVE IInv'
    BY <1>1, <2>4, CrashStep
  <2>5. ASSUME NEW i \in DOMAIN runs,
               \/ JobEnds(i) \/ TimesOut(i) \/ EndsUnheard(i)
               \/ CompleteRead(i) \/ CompleteWrite(i)
        PROVE  IInv'
    BY <1>1, <2>5, RunStep
  <2>6. ASSUME NEW c \in Coordinators, ReapRead(c) PROVE IInv'
    BY <1>1, <2>6, ReapReadStep
  <2>7. ASSUME NEW c \in Coordinators, ReapWrite(c) PROVE IInv'
    BY <1>1, <2>7, ReapWriteStep
  <2> QED BY <1>1, <2>1, <2>2, <2>3, <2>4, <2>5, <2>6, <2>7, OtherStep DEF Command
<1>2. ASSUME NEW w \in Workers, WatchRead(w) PROVE IInv'
  BY <1>2, SMTT(60) DEF WatchRead, hashVars, IInv, PendingIsClaimable, Claimable, TypeOK,
              RunsBounded, PassReadsHash
<1>3. CASE UNCHANGED vars
  BY <1>3 DEF vars, IInv, PendingIsClaimable, Claimable, TypeOK, RunsBounded,
              PassReadsHash
<1> QED BY <1>1, <1>2, <1>3 DEF Next

\* However the commands of the coordinators interleave, whatever is lost and
\* whoever crashes, a job whose hash says pending is in the sorted set, and
\* every variable keeps its type.
THEOREM PendingStaysClaimable == Spec => []PendingIsClaimable
<1>1. IInv => PendingIsClaimable
  BY DEF IInv
<1> QED BY <1>1, IInvInit, IInvStep, PTL DEF Spec

(***************************************************************************)
(* One worker per job.                                                      *)
(***************************************************************************)

\* A change of the set is noticed by everybody who watches it.
LEMMA WatchStaysKept ==
  ASSUME TypeOK, WatchKept, Noticed
  PROVE  WatchKept'
BY DEF TypeOK, WatchKept, Noticed

LEMMA QuietSubmit ==
  ASSUME IInv, Quiet, Noticed, NEW j \in Jobs, Submit(j), ~disturbed'
  PROVE  Quiet'
<1> USE DEF Quiet
<1>1. TypeOK /\ runs' = runs /\ reaper' = reaper
  BY DEF IInv, PendingIsClaimable, Submit
<1>2. arrived[j] = 0 /\ status[j] = "absent"
  <2>1. disturbed' = (disturbed \/ arrived[j] > 0)
    BY DEF Submit
  <2>2. ~(arrived[j] > 0)
    BY <2>1, Zenon
  <2>3. arrived[j] \in 0..MaxPublish /\ MaxPublish \in Nat
    BY RedisFederationAssumption DEF IInv, PendingIsClaimable, TypeOK
  <2>4. arrived[j] = 0
    BY <2>2, <2>3
  <2> QED BY <2>4 DEF FreshIsAbsent
<1>3. /\ \A k \in Jobs : k # j => /\ status'[k] = status[k] /\ stamp'[k] = stamp[k]
                                 /\ claimedBy'[k] = claimedBy[k]
                                 /\ arrived'[k] = arrived[k]
      /\ status'[j] = "pending" /\ stamp'[j] = Now /\ arrived'[j] = 1
      /\ pending' = pending \cup {<<Now, j>>}
      /\ stale' = stale \ {j}
  BY <1>1, <1>2 DEF TypeOK, Submit
<1>4. \A i \in DOMAIN runs : runs[i].job \in Jobs
  BY <1>1, RunsChange DEF TypeOK, Run
<1>5. ~Worked(j)
  BY <1>2 DEF Worked, LiveHolds, Holds
<1>6. FreshIsAbsent' /\ LiveHolds' /\ Exclusive'
  BY <1>1, <1>3, <1>4, <1>5 DEF FreshIsAbsent, LiveHolds, Exclusive, Live, Holds, Worked
<1>7. MembersPending'
  <2>1. \A m \in pending : m[2] \in Jobs /\ m[2] # j
    BY <1>1, <1>2 DEF TypeOK, MembersPending
  <2> QED BY <1>3, <2>1 DEF MembersPending
<1>8. StaleUnworked'
  BY <1>1, <1>3 DEF TypeOK, StaleUnworked, Worked, Live
<1>9. PassAlone'
  <2>1. \A c \in Coordinators : reaper[c].found # NoJob =>
                                   reaper[c].found \in Jobs /\ reaper[c].found # j
    BY <1>1, <1>2 DEF TypeOK, Pass, PassAlone
  <2> QED BY <1>1, <1>3, <2>1 DEF PassAlone, Worked, Live
<1> QED BY <1>1, <1>6, <1>7, <1>8, <1>9, WatchStaysKept

\* The member is in the set, so nobody works on its job and no other member
\* stands for it.
LEMMA QuietTake ==
  ASSUME IInv, Quiet, Noticed, NEW w \in Workers, NEW m \in pending, Take(w, m)
  PROVE  Quiet'
<1> USE DEF Quiet
<1> DEFINE j == m[2]
<1>1. /\ TypeOK
      /\ j \in Jobs
      /\ m \in Stamps \X Jobs
      /\ status[j] = "pending"
      /\ m[1] = stamp[j]
  BY DEF IInv, PendingIsClaimable, TypeOK, MembersPending
<1>2. /\ \A k \in Jobs : k # j => status'[k] = status[k] /\ claimedBy'[k] = claimedBy[k]
      /\ status'[j] = "claimed" /\ claimedBy'[j] = w
      /\ pending' = pending \ {m} /\ stale' = stale \ {j}
      /\ stamp' = stamp /\ arrived' = arrived /\ reaper' = reaper
  BY <1>1 DEF TypeOK, Take
<1>3. /\ runs \in Seq(Run) /\ DOMAIN runs = 1..Len(runs) /\ Len(runs) \in Nat
      /\ \A i \in DOMAIN runs : runs[i].job \in Jobs
  BY <1>1, RunsChange DEF TypeOK, Run
<1>4. ~Worked(j)
  BY <1>1 DEF Worked, LiveHolds, Holds
<1>5. /\ DOMAIN runs \subseteq DOMAIN runs'
      /\ \A i \in DOMAIN runs : runs'[i] = runs[i]
      /\ \A i, k \in DOMAIN runs' \ DOMAIN runs : i = k
      /\ \A i \in DOMAIN runs' \ DOMAIN runs : runs'[i].job = j /\ runs'[i].worker = w
  <2>1. CASE runs' = Append(runs, NewRun(w, j))
    <3>1. NewRun(w, j) \in Run
      BY <1>1 DEF NewRun, Run
    <3>2. /\ runs' \in Seq(Run) /\ Len(runs') = Len(runs) + 1
          /\ \A i \in 1..Len(runs) : runs'[i] = runs[i]
          /\ runs'[Len(runs) + 1] = NewRun(w, j)
      BY <1>3, <2>1, <3>1, AppendProperties
    <3>3. DOMAIN runs' = 1..(Len(runs) + 1)
      BY <3>2, LenProperties
    <3>4. \A i \in DOMAIN runs' \ DOMAIN runs : i = Len(runs) + 1
      BY <1>3, <3>3
    <3>5. NewRun(w, j).job = j /\ NewRun(w, j).worker = w
      BY DEF NewRun
    <3> QED BY <1>3, <3>2, <3>3, <3>4, <3>5
  <2>2. CASE runs' = runs
    BY <2>2
  <2> QED BY <2>1, <2>2 DEF Take
<1>6. FreshIsAbsent'
  BY <1>1, <1>2 DEF FreshIsAbsent
<1>7. MembersPending'
  <2>1. ASSUME NEW n \in pending, n # m PROVE n[2] # j /\ n[2] \in Jobs
    <3>1. n \in Stamps \X Jobs /\ n[1] = stamp[n[2]]
      BY <1>1 DEF TypeOK, MembersPending
    <3> QED BY <1>1, <2>1, <3>1
  <2> QED BY <1>2, <2>1 DEF MembersPending
<1>8. LiveHolds'
  <2>1. ASSUME NEW i \in DOMAIN runs, Live(i) PROVE Holds(i)'
    <3>1. runs[i].job # j
      BY <1>4, <2>1 DEF Worked
    <3> QED BY <1>2, <1>3, <1>5, <2>1, <3>1 DEF LiveHolds, Holds
  <2>2. ASSUME NEW i \in DOMAIN runs' \ DOMAIN runs PROVE Holds(i)'
    BY <1>2, <1>5 DEF Holds
  <2> QED BY <1>5, <2>1, <2>2 DEF LiveHolds, Live
<1>9. Exclusive'
  BY <1>4, <1>5 DEF Exclusive, Worked, Live
<1>10. ASSUME NEW k \in Jobs, k # j, ~Worked(k) PROVE ~Worked(k)'
  BY <1>5, <1>10 DEF Worked, Live
<1>11. StaleUnworked'
  BY <1>1, <1>2, <1>10 DEF TypeOK, StaleUnworked
<1>12. PassAlone'
  <2>1. \A c \in Coordinators : reaper[c].found # NoJob =>
                                   reaper[c].found \in Jobs /\ reaper[c].found # j
    BY <1>1 DEF TypeOK, Pass, PassAlone
  <2> QED BY <1>2, <1>10, <2>1 DEF PassAlone
<1> QED BY <1>1, <1>6, <1>7, <1>8, <1>9, <1>11, <1>12, WatchStaysKept

\* Runs that go on or end, and reports of the one run there is of a job.
LEMMA QuietRun ==
  ASSUME IInv, Quiet, Noticed,
         \/ \E i \in DOMAIN runs : \/ JobEnds(i) \/ TimesOut(i) \/ EndsUnheard(i)
                                   \/ CompleteRead(i)
         \/ \E w \in Workers : WorkerCrash(w)
  PROVE  Quiet'
<1> USE DEF Quiet
<1>1. /\ TypeOK
      /\ \A i \in DOMAIN runs : runs[i] \in Run
  BY RunsChange DEF IInv, PendingIsClaimable, TypeOK
<1>2. UNCHANGED <<hashVars, pending, stale, arrived, reaper>>
  BY DEF JobEnds, TimesOut, EndsUnheard, CompleteRead, WorkerCrash, hashVars
<1>3. /\ DOMAIN runs' = DOMAIN runs
      /\ \A i \in DOMAIN runs :
           /\ runs'[i].worker = runs[i].worker
           /\ runs'[i].job = runs[i].job
           /\ Live(i)' => Live(i)
  <2>1. ASSUME NEW i \in DOMAIN runs, JobEnds(i) \/ TimesOut(i) \/ EndsUnheard(i)
        PROVE  <1>3
    <3>1. \/ runs' = [runs EXCEPT ![i] = [runs[i] EXCEPT !.phase = "reporting",
                                                        !.executing = FALSE]] /\ Live(i)
          \/ runs' = [runs EXCEPT ![i] = [runs[i] EXCEPT !.phase = "reporting"]] /\ Live(i)
          \/ runs' = [runs EXCEPT ![i] = [runs[i] EXCEPT !.executing = FALSE]]
      BY <2>1 DEF JobEnds, TimesOut, EndsUnheard, Live
    <3>2. PICK r : /\ runs' = [runs EXCEPT ![i] = r]
                   /\ r.worker = runs[i].worker /\ r.job = runs[i].job
                   /\ r.phase # "over" => Live(i)
      BY <1>1, <3>1 DEF Run, Live
    <3> QED BY <3>2 DEF Live
  <2>2. ASSUME NEW i \in DOMAIN runs, CompleteRead(i) PROVE <1>3
    <3>1. Live(i)
      BY <2>2 DEF CompleteRead, Live
    <3>2. \/ runs' = [runs EXCEPT ![i] = [runs[i] EXCEPT !.phase = "writing"]]
          \/ runs' = [runs EXCEPT ![i] = Over(runs[i])]
      BY <2>2 DEF CompleteRead
    <3>3. PICK r : /\ runs' = [runs EXCEPT ![i] = r]
                   /\ r.worker = runs[i].worker /\ r.job = runs[i].job
      BY <1>1, <3>2 DEF Run, Over
    <3> QED BY <3>1, <3>3 DEF Live
  <2>3. ASSUME NEW w \in Workers, WorkerCrash(w) PROVE <1>3
    BY <1>1, <2>3, ZenonT(60) DEF WorkerCrash, Live, Run, Dead
  <2> QED BY <2>1, <2>2, <2>3
<1>4. FreshIsAbsent' /\ MembersPending'
  BY <1>2 DEF hashVars, FreshIsAbsent, MembersPending
<1>5. LiveHolds' /\ Exclusive'
  BY <1>2, <1>3 DEF hashVars, LiveHolds, Exclusive, Holds
<1>6. \A j : ~Worked(j) => ~Worked(j)'
  BY <1>3 DEF Worked
<1>7. StaleUnworked' /\ PassAlone'
  BY <1>2, <1>6 DEF hashVars, StaleUnworked, PassAlone
<1> QED BY <1>1, <1>4, <1>5, <1>7, WatchStaysKept

LEMMA QuietComplete ==
  ASSUME IInv, Quiet, Noticed, NEW i \in DOMAIN runs, CompleteWrite(i)
  PROVE  Quiet'
<1> USE DEF Quiet
<1> DEFINE j == runs[i].job
<1>1. /\ TypeOK
      /\ \A k \in DOMAIN runs : runs[k] \in Run
  BY RunsChange DEF IInv, PendingIsClaimable, TypeOK
<1>2. j \in Jobs /\ Live(i) /\ Worked(j) /\ status[j] = "claimed"
  BY <1>1 DEF Run, CompleteWrite, Live, Worked, LiveHolds, Holds
<1>3. /\ \A k \in Jobs : k # j => status'[k] = status[k]
      /\ UNCHANGED <<claimedBy, stamp, pending, arrived, reaper>>
      /\ stale' = stale \ {j}
  BY <1>1, <1>2 DEF TypeOK, CompleteWrite
<1>4. /\ DOMAIN runs' = DOMAIN runs
      /\ \A k \in DOMAIN runs : k # i => runs'[k] = runs[k]
      /\ ~Live(i)'
      /\ runs'[i].job = j
  BY <1>1 DEF CompleteWrite, Live, Run, Over
<1>5. \A k \in DOMAIN runs : Live(k)' => Live(k) /\ runs'[k] = runs[k] /\ runs[k].job # j
  BY <1>2, <1>4 DEF Exclusive, Live
<1>6. \A k \in DOMAIN runs : runs[k].job \in Jobs
  BY <1>1 DEF Run
<1>7. FreshIsAbsent'
  BY <1>2, <1>3 DEF FreshIsAbsent
<1>8. MembersPending'
  <2>1. \A m \in pending : m[2] \in Jobs /\ m[2] # j
    BY <1>1, <1>2 DEF TypeOK, MembersPending
  <2> QED BY <1>3, <2>1 DEF MembersPending
<1>9. LiveHolds' /\ Exclusive'
  BY <1>3, <1>4, <1>5, <1>6 DEF LiveHolds, Exclusive, Holds
<1>10. \A k \in Jobs : ~Worked(k) => ~Worked(k)'
  BY <1>4, <1>5 DEF Worked
<1>11. StaleUnworked'
  BY <1>1, <1>3, <1>10 DEF TypeOK, StaleUnworked
<1>12. PassAlone'
  <2>1. \A c \in Coordinators : reaper[c].found # NoJob =>
                                   reaper[c].found \in Jobs /\ reaper[c].found # j
    BY <1>1, <1>2 DEF TypeOK, Pass, PassAlone
  <2> QED BY <1>3, <1>10, <2>1 DEF PassAlone
<1> QED BY <1>1, <1>7, <1>8, <1>9, <1>11, <1>12, WatchStaysKept

\* A claim goes stale only when nobody works on the job; a heartbeat that was
\* on its way may still arrive.
LEMMA QuietTime ==
  ASSUME IInv, Quiet, Noticed, ~disturbed',
         \/ \E j \in Jobs : BecomesStale(j)
         \/ \E i \in DOMAIN runs : HeartbeatRead(i) \/ HeartbeatWrite(i)
  PROVE  Quiet'
<1> USE DEF Quiet
<1>1. TypeOK
  BY DEF IInv, PendingIsClaimable
<1>2. UNCHANGED <<hashVars, pending, arrived, runs, reaper>>
  BY DEF BecomesStale, HeartbeatRead, HeartbeatWrite, hashVars
<1>3. /\ FreshIsAbsent' /\ MembersPending' /\ LiveHolds' /\ Exclusive' /\ PassAlone'
      /\ \A j : ~Worked(j) => ~Worked(j)'
  BY <1>2 DEF hashVars, FreshIsAbsent, MembersPending, LiveHolds, Exclusive, PassAlone,
              Worked, Live, Holds
<1>4. StaleUnworked'
  <2>1. ASSUME NEW j \in Jobs, BecomesStale(j) PROVE StaleUnworked'
    <3>1. status[j] = "claimed" /\ ~Attended(j) /\ stale' = stale \cup {j}
      BY <2>1 DEF BecomesStale
    <3>2. ~Worked(j)
      BY <3>1 DEF Attended, Worked, LiveHolds, Holds
    <3> QED BY <1>2, <1>3, <3>1, <3>2 DEF hashVars, StaleUnworked
  <2>2. ASSUME stale' \subseteq stale PROVE StaleUnworked'
    BY <1>2, <1>3, <2>2 DEF hashVars, StaleUnworked
  <2> QED BY <2>1, <2>2 DEF HeartbeatRead, HeartbeatWrite
<1> QED BY <1>1, <1>3, <1>4, WatchStaysKept

\* The only pass under way re-queues what nobody works on.
LEMMA QuietReaper ==
  ASSUME IInv, Quiet, Noticed, ~disturbed', NEW c \in Coordinators,
         ReapStart(c) \/ ReapRead(c) \/ ReapWrite(c) \/ ReapInterrupted(c)
  PROVE  Quiet'
<1> USE DEF Quiet
<1>1. /\ TypeOK
      /\ runs' = runs
      /\ reaper \in [Coordinators -> Pass]
      /\ \A i \in DOMAIN runs : runs[i].job \in Jobs
  BY RunsChange DEF IInv, PendingIsClaimable, TypeOK, Run, ReapStart, ReapRead, ReapWrite,
                    ReapInterrupted
<1>2. \A j : Worked(j)' <=> Worked(j)
  BY <1>1 DEF Worked, Live
<1>3. \A d \in Coordinators \ {c} :
        reaper'[d] = reaper[d] /\ ~reaper[d].active /\ reaper[d].found = NoJob
  <2>1. \A d \in Coordinators \ {c} : reaper'[d] = reaper[d]
    BY <1>1 DEF ReapStart, ReapRead, ReapWrite, ReapInterrupted
  <2>2. CASE ReapStart(c)
    <3>1. disturbed' = (disturbed \/ \E d \in Coordinators : reaper[d].active)
      BY <2>2 DEF ReapStart
    <3>2. \A d \in Coordinators : ~reaper[d].active
      BY <3>1, Zenon
    <3> QED BY <2>1, <3>2 DEF PassAlone
  <2>3. CASE reaper[c].active
    BY <2>1, <2>3 DEF PassAlone
  <2>4. ReapWrite(c) => reaper[c].active
    BY DEF ReapWrite, PassAlone
  <2> QED BY <2>1, <2>2, <2>3, <2>4, <1>1 DEF ReapRead, ReapInterrupted, PassAlone
<1>4. CASE ReapStart(c) \/ ReapInterrupted(c)
  <2>1. UNCHANGED <<hashVars, pending, stale, arrived>> /\ reaper'[c].found = NoJob
    <3>1. CASE ReapStart(c)
      BY <1>1, <3>1 DEF ReapStart, Resting
    <3>2. CASE ReapInterrupted(c)
      BY <1>1, <3>2 DEF ReapInterrupted, Resting
    <3> QED BY <1>4, <3>1, <3>2
  <2>2. FreshIsAbsent' /\ MembersPending' /\ LiveHolds' /\ Exclusive' /\ StaleUnworked'
    BY <1>1, <1>2, <2>1 DEF hashVars, FreshIsAbsent, MembersPending, LiveHolds, Exclusive,
                           StaleUnworked, Live, Holds
  <2>3. PassAlone'
    BY <1>3, <2>1 DEF PassAlone
  <2> QED BY <1>1, <2>2, <2>3, WatchStaysKept
<1>5. CASE ReapRead(c)
  <2>1. UNCHANGED <<hashVars, pending, stale, arrived>>
    BY <1>5 DEF ReapRead, hashVars
  <2>2. FreshIsAbsent' /\ MembersPending' /\ LiveHolds' /\ Exclusive' /\ StaleUnworked'
    BY <1>1, <1>2, <2>1 DEF hashVars, FreshIsAbsent, MembersPending, LiveHolds, Exclusive,
                           StaleUnworked, Live, Holds
  <2>3. reaper'[c].found # NoJob =>
          /\ reaper'[c].active
          /\ reaper'[c].found \in stale
          /\ reaper'[c].stamp = stamp[reaper'[c].found]
    <3>1. PICK j \in reaper[c].todo :
            LET rest == [reaper[c] EXCEPT !.todo = @ \ {j}] IN
            reaper' = [reaper EXCEPT ![c] =
              IF status[j] = "claimed" /\ j \in stale
              THEN [rest EXCEPT !.found = j, !.stamp = stamp[j]]
              ELSE IF rest.todo = {} THEN Resting ELSE rest]
      BY <1>5 DEF ReapRead
    <3>2. reaper[c].active /\ reaper[c].found = NoJob /\ reaper[c] \in Pass
      BY <1>1, <1>5 DEF ReapRead
    <3> QED BY <1>1, <3>1, <3>2 DEF Pass, Resting
  <2>4. PassAlone'
    BY <1>2, <1>3, <2>1, <2>3 DEF hashVars, PassAlone, StaleUnworked
  <2> QED BY <1>1, <2>2, <2>4, WatchStaysKept
<1>6. CASE ReapWrite(c)
  <2> DEFINE j == reaper[c].found
  <2>1. /\ j \in Jobs /\ status[j] = "claimed" /\ ~Worked(j)
        /\ reaper[c].stamp = stamp[j]
    BY <1>1, <1>6 DEF Pass, PassAlone, ReapWrite
  <2>2. /\ \A k \in Jobs : k # j => status'[k] = status[k] /\ claimedBy'[k] = claimedBy[k]
        /\ status'[j] = "pending"
        /\ pending' = pending \cup {<<stamp[j], j>>}
        /\ stale' = stale \ {j}
        /\ stamp' = stamp /\ arrived' = arrived
    BY <1>1, <1>6, <2>1 DEF TypeOK, ReapWrite
  <2>3. FreshIsAbsent'
    BY <2>1, <2>2 DEF FreshIsAbsent
  <2>4. MembersPending'
    <3>1. \A m \in pending : m[2] \in Jobs /\ m[2] # j
      BY <1>1, <2>1 DEF TypeOK, MembersPending
    <3> QED BY <2>2, <3>1 DEF MembersPending
  <2>5. LiveHolds' /\ Exclusive'
    BY <1>1, <2>1, <2>2 DEF LiveHolds, Exclusive, Live, Holds, Worked
  <2>6. StaleUnworked'
    BY <1>1, <1>2, <2>2 DEF TypeOK, StaleUnworked
  <2>7. reaper'[c].found = NoJob
    BY <1>1, <1>6 DEF ReapWrite, Requeued, Resting, Pass
  <2>8. PassAlone'
    BY <1>3, <2>7 DEF PassAlone
  <2> QED BY <1>1, <2>3, <2>4, <2>5, <2>6, <2>8, WatchStaysKept
<1> QED BY <1>4, <1>5, <1>6

\* What is quiet was quiet before, and stays so.
QInv == IInv /\ (~disturbed => Quiet)

LEMMA QuietStep ==
  ASSUME IInv, Quiet, Next, ~disturbed'
  PROVE  Quiet'
<1>1. CASE Command /\ Noticed
  <2>1. ASSUME NEW j \in Jobs, Submit(j) PROVE Quiet'
    BY <1>1, <2>1, QuietSubmit
  <2>2. ASSUME NEW w \in Workers, Claim(w) PROVE Quiet'
    <3>1. PICK m \in pending : Take(w, m)
      BY <2>2 DEF Claim
    <3> QED BY <1>1, <3>1, QuietTake
  <2>3. ASSUME NEW w \in Workers, WatchExec(w) PROVE Quiet'
    <3>1. watch[w] \in pending /\ Take(w, watch[w])
      BY <2>3 DEF WatchExec, Quiet, WatchKept
    <3> QED BY <1>1, <3>1, QuietTake
  <2>4. ASSUME NEW i \in DOMAIN runs, CompleteWrite(i) PROVE Quiet'
    BY <1>1, <2>4, QuietComplete
  <2>5. ASSUME NEW c \in Coordinators,
               ReapStart(c) \/ ReapRead(c) \/ ReapWrite(c) \/ ReapInterrupted(c)
        PROVE  Quiet'
    BY <1>1, <2>5, QuietReaper
  <2>6. ASSUME \/ \E i \in DOMAIN runs : \/ JobEnds(i) \/ TimesOut(i) \/ EndsUnheard(i)
                                         \/ CompleteRead(i)
               \/ \E w \in Workers : WorkerCrash(w)
        PROVE  Quiet'
    BY <1>1, <2>6, QuietRun
  <2>7. ASSUME \/ \E j \in Jobs : BecomesStale(j)
               \/ \E i \in DOMAIN runs : HeartbeatRead(i) \/ HeartbeatWrite(i)
        PROVE  Quiet'
    BY <1>1, <2>7, QuietTime
  <2> QED BY <1>1, <2>1, <2>2, <2>3, <2>4, <2>5, <2>6, <2>7 DEF Command
<1>2. ASSUME NEW w \in Workers, WatchRead(w) PROVE Quiet'
  <2>1. PICK m \in pending : watch' = [watch EXCEPT ![w] = m]
    BY <1>2 DEF WatchRead
  <2>2. watch \in [Workers -> (Stamps \X Jobs) \cup {Unwatched}]
    BY DEF IInv, PendingIsClaimable, TypeOK
  <2>3. UNCHANGED <<hashVars, pending, stale, arrived, runs, reaper>>
    BY <1>2 DEF WatchRead
  <2>4. WatchKept'
    BY <2>1, <2>2, <2>3 DEF Quiet, WatchKept
  <2> QED BY <2>3, <2>4 DEF hashVars, Quiet, FreshIsAbsent, MembersPending, LiveHolds,
                            Exclusive, StaleUnworked, PassAlone, Worked, Live, Holds
<1> QED BY <1>1, <1>2 DEF Next

LEMMA DisturbedStays ==
  ASSUME Next, ~disturbed'
  PROVE  ~disturbed
BY DEF Next, Command, Submit, Claim, WatchExec, Take, WatchRead, BecomesStale, WorkerCrash,
       HeartbeatRead, HeartbeatWrite, JobEnds, TimesOut, EndsUnheard, CompleteRead,
       CompleteWrite, ReapStart, ReapRead, ReapWrite, ReapInterrupted

LEMMA QInvInit == Init => QInv
<1>1. Init => Quiet
  BY DEF Init, Quiet, FreshIsAbsent, MembersPending, LiveHolds, Exclusive, StaleUnworked,
         PassAlone, WatchKept, Resting
<1> QED BY <1>1, IInvInit DEF QInv

LEMMA QInvStep == QInv /\ [Next]_vars => QInv'
<1> SUFFICES ASSUME QInv, [Next]_vars PROVE QInv'
  OBVIOUS
<1>1. IInv /\ IInv'
  BY IInvStep DEF QInv
<1>2. CASE Next
  BY <1>1, <1>2, DisturbedStays, QuietStep DEF QInv
<1>3. CASE UNCHANGED vars
  <2>1. Quiet => Quiet'
    BY <1>3 DEF vars, Quiet, FreshIsAbsent, MembersPending, LiveHolds, Exclusive,
                StaleUnworked, PassAlone, WatchKept, Worked, Live, Holds
  <2>2. disturbed' = disturbed
    BY <1>3 DEF vars
  <2> QED BY <1>1, <2>1, <2>2 DEF QInv
<1> QED BY <1>2, <1>3

\* What the hash holds of a job.
Kept(j) == status'[j] = status[j] /\ result'[j] = result[j]

\* A finished job is left alone: only complete() of the one run there is writes
\* it, and neither a claim nor a reaper touches the job again.
LEMMA FinishedKept ==
  ASSUME QInv, [Next]_vars, ~disturbed', NEW j \in Jobs, status[j] = "finished"
  PROVE  Kept(j)
<1> USE DEF Kept
<1>1. CASE UNCHANGED vars
  BY <1>1, SMTT(60) DEF vars
<1>2. CASE Next
  <2>1. Quiet /\ Quiet' /\ TypeOK
    BY <1>2, DisturbedStays, QuietStep DEF QInv, IInv, PendingIsClaimable
  <2>2. status[j] # "pending" /\ status[j] # "claimed" /\ status[j] # "absent"
    OBVIOUS
  <2>3. ASSUME NEW k \in Jobs, Submit(k) PROVE k # j
    <3>1. disturbed' = (disturbed \/ arrived[k] > 0)
      BY <2>3 DEF Submit
    <3>2. ~(arrived[k] > 0)
      BY <3>1, Zenon
    <3>3. arrived[k] \in 0..MaxPublish /\ MaxPublish \in Nat
      BY <2>1, RedisFederationAssumption DEF TypeOK
    <3>4. arrived[k] = 0
      BY <3>2, <3>3
    <3> QED BY <2>1, <2>2, <3>4 DEF Quiet, FreshIsAbsent
  <2>4. ASSUME NEW w \in Workers, NEW m \in pending, Take(w, m) PROVE m[2] # j
    BY <2>1, <2>2 DEF Quiet, MembersPending
  <2>5. ASSUME NEW w \in Workers, Claim(w) \/ WatchExec(w)
        PROVE  \E m \in pending : Take(w, m)
    BY <2>1, <2>5 DEF Claim, WatchExec, Quiet, WatchKept
  <2>6. ASSUME NEW i \in DOMAIN runs, CompleteWrite(i) PROVE runs[i].job # j
    BY <2>1, <2>2, <2>6 DEF CompleteWrite, Live, Quiet, LiveHolds, Holds
  <2>7. ASSUME NEW c \in Coordinators, ReapWrite(c) PROVE reaper[c].found # j
    BY <2>1, <2>2, <2>7 DEF ReapWrite, Quiet, PassAlone
  <2>8. ASSUME NEW k \in Jobs, Submit(k) PROVE Kept(j)
    BY <2>1, <2>3, <2>8 DEF Submit, TypeOK
  <2>9. ASSUME NEW w \in Workers, Claim(w) \/ WatchExec(w) PROVE Kept(j)
    <3>1. PICK m \in pending : Take(w, m)
      BY <2>5, <2>9
    <3>2. m[2] # j
      BY <2>4, <3>1
    <3> QED BY <2>1, <3>1, <3>2 DEF Take, TypeOK
  <2>10. ASSUME NEW i \in DOMAIN runs, CompleteWrite(i) PROVE Kept(j)
    BY <2>1, <2>6, <2>10 DEF CompleteWrite, TypeOK
  <2>11. ASSUME NEW c \in Coordinators, ReapWrite(c) PROVE Kept(j)
    BY <2>1, <2>7, <2>11 DEF ReapWrite, TypeOK
  <2>12. ASSUME UNCHANGED hashVars PROVE Kept(j)
    BY <2>12 DEF hashVars
  <2> QED BY <1>2, <2>8, <2>9, <2>10, <2>11, <2>12 DEF Next, Command, BecomesStale,
             WorkerCrash, HeartbeatRead, HeartbeatWrite, JobEnds, TimesOut, EndsUnheard,
             CompleteRead, ReapStart,
             ReapRead, ReapInterrupted, WatchRead
<1> QED BY <1>1, <1>2

\* The report of a run that was given up has been heard while nothing is lost.
Reported ==
  lost = 0 => \A i \in DOMAIN runs : LeftBehind(i) => status[runs[i].job] = "finished"

\* A run keeps its job, starts executing once, and is not waited for again; it
\* is left behind only by its report.
RunsGoOn ==
  \A i \in DOMAIN runs :
    /\ i \in DOMAIN runs' /\ runs'[i].job = runs[i].job
    /\ runs'[i].executing => runs[i].executing
    /\ LeftBehind(i) /\ runs'[i].executing => LeftBehind(i)'
    /\ LeftBehind(i)' => LeftBehind(i) \/ CompleteRead(i) \/ CompleteWrite(i)

\* Every step lets the runs go on.  Only a claim of a pending job adds one.
LEMMA RunsStep ==
  ASSUME QInv, [Next]_vars, ~disturbed'
  PROVE  /\ RunsGoOn
         /\ \/ DOMAIN runs' = DOMAIN runs
            \/ \E w \in Workers, m \in pending : Take(w, m)
<1> USE DEF LeftBehind, RunsGoOn
<1>1. /\ TypeOK
      /\ ~disturbed => WatchKept
      /\ \A i \in DOMAIN runs : runs[i] \in Run
      /\ runs \in Seq(Run)
  BY RunsChange DEF QInv, Quiet, IInv, PendingIsClaimable, TypeOK
<1>2. CASE runs' = runs
  BY <1>2
<1>3. ASSUME NEW w \in Workers, NEW m \in pending, Take(w, m)
      PROVE  RunsGoOn
  <2>1. CASE runs' = Append(runs, NewRun(w, m[2]))
    <3>1. NewRun(w, m[2]) \in Run
      BY <1>1 DEF NewRun, Run, TypeOK
    <3>2. /\ Len(runs) \in Nat /\ DOMAIN runs = 1..Len(runs)
          /\ Len(runs') = Len(runs) + 1 /\ runs' \in Seq(Run)
          /\ \A i \in 1..Len(runs) : runs'[i] = runs[i]
      BY <1>1, <2>1, <3>1, AppendProperties, LenProperties
    <3>3. DOMAIN runs' = 1..(Len(runs) + 1)
      BY <3>2, LenProperties
    <3>4. \A i \in DOMAIN runs : i \in DOMAIN runs' /\ runs'[i] = runs[i]
      BY <3>2, <3>3
    <3> QED BY <3>4
  <2> QED BY <1>2, <2>1, <1>3 DEF Take
<1>4. ASSUME NEW i \in DOMAIN runs, JobEnds(i) \/ TimesOut(i) \/ EndsUnheard(i)
      PROVE  RunsGoOn /\ DOMAIN runs' = DOMAIN runs
  <2>1. \/ /\ runs' = [runs EXCEPT ![i] = [runs[i] EXCEPT !.phase = "reporting",
                                                        !.executing = FALSE]]
           /\ runs[i].phase = "working"
        \/ /\ runs' = [runs EXCEPT ![i] = [runs[i] EXCEPT !.phase = "reporting"]]
           /\ runs[i].phase = "working"
        \/ runs' = [runs EXCEPT ![i] = [runs[i] EXCEPT !.executing = FALSE]]
    BY <1>4 DEF JobEnds, TimesOut, EndsUnheard
  <2>2. PICK r : /\ runs' = [runs EXCEPT ![i] = r]
                 /\ r.job = runs[i].job
                 /\ r.executing => runs[i].executing
                 /\ r.executing => r.phase # "over" /\ runs[i].phase # "over"
    <3>1. [runs[i] EXCEPT !.executing = FALSE].executing = FALSE
      BY <1>1 DEF Run
    <3> QED BY <1>1, <2>1, <3>1 DEF Run
  <2> QED BY <2>2
<1>5. ASSUME NEW i \in DOMAIN runs, CompleteRead(i) \/ CompleteWrite(i)
      PROVE  RunsGoOn /\ DOMAIN runs' = DOMAIN runs
  <2>1. PICK r : /\ runs' = [runs EXCEPT ![i] = r]
                 /\ r.job = runs[i].job /\ r.executing = runs[i].executing
    <3>1. \/ runs' = [runs EXCEPT ![i] = [runs[i] EXCEPT !.phase = "writing"]]
          \/ runs' = [runs EXCEPT ![i] = Over(runs[i])]
      BY <1>5 DEF CompleteRead, CompleteWrite
    <3> QED BY <1>1, <3>1 DEF Over, Run
  <2>2. runs[i].phase # "over"
    BY <1>5 DEF CompleteRead, CompleteWrite
  <2> QED BY <1>5, <2>1, <2>2
<1>6. ASSUME NEW w \in Workers, WorkerCrash(w)
      PROVE  RunsGoOn /\ DOMAIN runs' = DOMAIN runs
  <2>1. /\ DOMAIN runs' = DOMAIN runs
        /\ \A i \in DOMAIN runs : \/ runs'[i] = runs[i]
                                  \/ runs'[i] = Dead(runs[i])
    BY <1>6 DEF WorkerCrash
  <2>2. \A i \in DOMAIN runs : /\ Dead(runs[i]).job = runs[i].job
                               /\ Dead(runs[i]).executing = FALSE
    BY <1>1 DEF Dead, Run
  <2> QED BY <2>1, <2>2
<1> HIDE DEF RunsGoOn, LeftBehind
<1>7. CASE Command /\ Noticed
  <2>1. ASSUME NEW w \in Workers, Claim(w) \/ WatchExec(w)
        PROVE  \E m \in pending : Take(w, m)
    <3>1. WatchKept
      BY <1>1, <1>7, DisturbedStays DEF Next
    <3> QED BY <2>1, <3>1 DEF Claim, WatchExec, WatchKept
  <2>2. CASE \/ \E j \in Jobs : Submit(j) \/ BecomesStale(j)
             \/ \E i \in DOMAIN runs : HeartbeatRead(i) \/ HeartbeatWrite(i)
             \/ \E c \in Coordinators : \/ ReapStart(c) \/ ReapRead(c) \/ ReapWrite(c)
                                        \/ ReapInterrupted(c)
    BY <1>2, <2>2 DEF Submit, BecomesStale, HeartbeatRead, HeartbeatWrite, ReapStart,
                      ReapRead, ReapWrite, ReapInterrupted
  <2> QED BY <1>3, <1>4, <1>5, <1>6, <1>7, <2>1, <2>2 DEF Command
<1>8. CASE UNCHANGED vars \/ \E w \in Workers : WatchRead(w)
  BY <1>2, <1>8 DEF vars, WatchRead
<1> QED BY <1>7, <1>8 DEF Next

\* Losses are counted.
LEMMA LossesGrow ==
  ASSUME QInv, [Next]_vars
  PROVE  lost \in Nat /\ lost' \in Nat /\ lost <= lost'
<1>1. lost \in Nat
  BY RedisFederationAssumption DEF QInv, IInv, PendingIsClaimable, TypeOK
<1>2. lost' = lost \/ lost' = lost + 1
  <2>1. CASE UNCHANGED vars
    BY <2>1 DEF vars
  <2>2. CASE Next
    BY <2>2 DEF Next, Command, Submit, Claim, WatchExec, Take, WatchRead, BecomesStale,
       WorkerCrash, HeartbeatRead, HeartbeatWrite, JobEnds, TimesOut, EndsUnheard,
       CompleteRead, CompleteWrite, ReapStart, ReapRead, ReapWrite, ReapInterrupted, Loss
  <2> QED BY <2>1, <2>2
<1> QED BY <1>1, <1>2

\* The report of a run that is left behind while nothing has been lost finished
\* the job, and finished it stays.
LEMMA ReportedStep ==
  ASSUME QInv, Reported, [Next]_vars, ~disturbed'
  PROVE  Reported'
<1> SUFFICES ASSUME lost' = 0, NEW i \in DOMAIN runs', LeftBehind(i)'
             PROVE  status'[runs'[i].job] = "finished"
  BY DEF Reported, LeftBehind
<1>1. lost = 0 /\ TypeOK /\ RunsGoOn
  BY LossesGrow, RunsStep DEF QInv, IInv, PendingIsClaimable
<1>2. ASSUME NEW k \in DOMAIN runs, NEW j \in Jobs, j = runs[k].job,
             LeftBehind(k) \/ CompleteRead(k) \/ CompleteWrite(k)
      PROVE  CompleteWrite(k) \/ status[j] = "finished" \/ runs'[k].phase = "writing"
  <2>1. ~Loss
    BY <1>1 DEF Loss
  <2>2. runs[k] \in Run
    BY <1>1, RunsChange DEF TypeOK
  <2> QED BY <1>1, <1>2, <2>1, <2>2 DEF Reported, CompleteRead, Run
<1>3. CASE i \in DOMAIN runs
  <2>1. PICK j \in Jobs : j = runs[i].job
    BY <1>1, <1>3, RunsChange DEF TypeOK, Run
  <2>2. runs'[i].job = j /\ (LeftBehind(i) \/ CompleteRead(i) \/ CompleteWrite(i))
    BY <1>1, <1>3, <2>1 DEF RunsGoOn
  <2>3. runs'[i].phase # "writing"
    BY DEF LeftBehind
  <2>4. CASE CompleteWrite(i)
    BY <1>1, <2>1, <2>2, <2>4 DEF CompleteWrite, TypeOK
  <2>5. CASE status[j] = "finished"
    BY <2>2, <2>5, FinishedKept DEF Kept
  <2> QED BY <1>2, <1>3, <2>1, <2>2, <2>3, <2>4, <2>5
<1>4. CASE i \notin DOMAIN runs
  <2>1. PICK w \in Workers, m \in pending : Take(w, m)
    BY <1>4, RunsStep
  <2>2. runs'[i] = NewRun(w, m[2])
    <3>1. runs' = Append(runs, NewRun(w, m[2])) /\ NewRun(w, m[2]) \in Run
      BY <1>1, <1>4, <2>1 DEF Take, NewRun, Run, TypeOK
    <3>2. /\ Len(runs) \in Nat /\ DOMAIN runs = 1..Len(runs)
          /\ Len(runs') = Len(runs) + 1 /\ runs' \in Seq(Run)
          /\ runs'[Len(runs) + 1] = NewRun(w, m[2])
      BY <1>1, <3>1, AppendProperties, LenProperties DEF TypeOK
    <3>3. DOMAIN runs' = 1..(Len(runs) + 1)
      BY <3>2, LenProperties
    <3> QED BY <1>4, <3>2, <3>3
  <2> QED BY <2>2 DEF LeftBehind, NewRun
<1> QED BY <1>3, <1>4

\* Two executions of a job are of a run that was given up and another, after a
\* loss.
Paired ==
  \A i, k \in DOMAIN runs :
    i # k /\ runs[i].executing /\ runs[k].executing /\ runs[i].job = runs[k].job
      => lost > 0 /\ (LeftBehind(i) \/ LeftBehind(k))

LEMMA PairedStep ==
  ASSUME QInv, Quiet, Reported, Paired, [Next]_vars, ~disturbed'
  PROVE  Paired'
<1> SUFFICES ASSUME NEW i \in DOMAIN runs', NEW k \in DOMAIN runs', i # k,
                    runs'[i].executing, runs'[k].executing, runs'[i].job = runs'[k].job
             PROVE  lost' > 0 /\ (LeftBehind(i)' \/ LeftBehind(k)')
  BY DEF Paired, LeftBehind
<1>1. /\ TypeOK /\ RunsGoOn /\ lost \in Nat /\ lost' \in Nat /\ lost <= lost'
      /\ \A m \in DOMAIN runs : runs[m] \in Run
  BY LossesGrow, RunsStep, RunsChange DEF QInv, IInv, PendingIsClaimable, TypeOK
<1>2. CASE i \in DOMAIN runs /\ k \in DOMAIN runs
  <2>1. /\ runs[i].executing /\ runs[k].executing /\ runs[i].job = runs[k].job
    BY <1>1, <1>2 DEF RunsGoOn
  <2>2. lost > 0 /\ (LeftBehind(i) \/ LeftBehind(k))
    BY <1>2, <2>1 DEF Paired
  <2>3. lost' > 0
    BY <1>1, <2>2
  <2> QED BY <1>1, <1>2, <2>2, <2>3 DEF RunsGoOn
<1>3. CASE i \notin DOMAIN runs \/ k \notin DOMAIN runs
  <2>1. PICK w \in Workers, m \in pending : Take(w, m)
    BY <1>3, RunsStep
  <2>2. /\ Len(runs) \in Nat
        /\ \A n \in DOMAIN runs' : \/ n \in DOMAIN runs
                                   \/ (n = Len(runs) + 1 /\ runs'[n].job = m[2])
    <3>1. runs' = Append(runs, NewRun(w, m[2])) /\ NewRun(w, m[2]) \in Run
      BY <1>1, <1>3, <2>1 DEF Take, NewRun, Run, TypeOK
    <3>2. /\ Len(runs) \in Nat /\ DOMAIN runs = 1..Len(runs)
          /\ Len(runs') = Len(runs) + 1 /\ runs' \in Seq(Run)
          /\ runs'[Len(runs) + 1] = NewRun(w, m[2])
      BY <1>1, <3>1, AppendProperties, LenProperties DEF TypeOK
    <3>3. DOMAIN runs' = 1..(Len(runs) + 1)
      BY <3>2, LenProperties
    <3>4. NewRun(w, m[2]).job = m[2]
      BY DEF NewRun
    <3>5. \A n \in DOMAIN runs' : n \in DOMAIN runs \/ n = Len(runs) + 1
      BY <3>2, <3>3
    <3>6. runs'[Len(runs) + 1].job = m[2]
      BY <3>2, <3>4
    <3>7. ASSUME NEW n \in DOMAIN runs', n = Len(runs) + 1
          PROVE  runs'[n].job = m[2]
      BY <3>6, <3>7
    <3>8. Len(runs) \in Nat
      BY <3>2
    <3> QED BY <3>5, <3>7, <3>8
  <2>3. ASSUME NEW n \in DOMAIN runs, runs'[n].executing, runs'[n].job = m[2]
        PROVE  lost' > 0 /\ LeftBehind(n)'
    <3>1. runs[n].executing /\ runs[n].job = m[2]
      BY <1>1, <2>3 DEF RunsGoOn
    <3>2. status[m[2]] = "pending"
      BY DEF Quiet, MembersPending
    <3>3. ~Live(n)
      BY <3>1, <3>2 DEF Quiet, LiveHolds, Holds
    <3>4. LeftBehind(n)
      BY <3>1, <3>3 DEF LeftBehind, Live
    <3>5. lost # 0
      BY <3>1, <3>2, <3>4 DEF Reported
    <3>6. LeftBehind(n)'
      BY <1>1, <2>3, <3>4 DEF RunsGoOn
    <3>7. lost' > 0
      BY <1>1, <3>5
    <3> QED BY <3>6, <3>7
  <2>4. CASE i \in DOMAIN runs
    <3>1. runs'[k].job = m[2]
      BY <1>3, <2>2, <2>4
    <3> QED BY <2>3, <2>4, <3>1
  <2>5. CASE k \in DOMAIN runs
    <3>1. runs'[i].job = m[2]
      BY <1>3, <2>2, <2>5
    <3> QED BY <2>3, <2>5, <3>1
  <2> QED BY <2>2, <2>4, <2>5
<1> QED BY <1>2, <1>3

\* Two coordinators never let two workers wait for the same job, with scripts
\* and without, whatever is lost and whoever crashes, until a submission is
\* repeated, the claim of a waiting worker goes stale or two passes overlap;
\* and until then two local queues execute a job only if one of them was given
\* up at the execution timeout and a message, in fact its report, was lost.
THEOREM ClaimedOnce == Spec => []OneRunPerJob
<1> DEFINE EInv == ~disturbed => Reported /\ Paired
<1>1. Init => EInv
  BY DEF Init, Reported, Paired
<1>2. QInv /\ EInv /\ [Next]_vars => EInv'
  <2> SUFFICES ASSUME QInv, EInv, [Next]_vars, ~disturbed'
               PROVE  (Reported /\ Paired)'
    OBVIOUS
  <2>1. ~disturbed
    BY DisturbedStays DEF vars
  <2>2. Quiet /\ Reported /\ Paired
    BY <2>1 DEF QInv
  <2> QED BY <2>2, ReportedStep, PairedStep
<1>3. EInv => OneRunPerJob
  BY DEF OneRunPerJob, Paired
<1>4. Spec => []QInv
  BY QInvInit, QInvStep, PTL DEF Spec
<1> HIDE DEF EInv
<1> QED BY <1>1, <1>2, <1>3, <1>4, PTL DEF Spec

\* Until then the outcome a hash holds stays: only complete() of the one run
\* there is writes it, and neither a claim nor a reaper touches the job again.
THEOREM OutcomeStays == Spec => FinishedIsFinal
<1>1. QInv /\ [Next]_vars =>
        [~disturbed' => \A j \in Jobs : status[j] = "finished" =>
                          status'[j] = status[j] /\ result'[j] = result[j]]_vars
  BY FinishedKept DEF Kept
<1> QED BY <1>1, QInvInit, QInvStep, PTL DEF Spec, FinishedIsFinal
===============================================================================
