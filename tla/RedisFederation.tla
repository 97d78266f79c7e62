--------------------------- MODULE RedisFederation ----------------------------
(***************************************************************************)
(* Several federation coordinators over one Redis (federation_server:       *)
(* RedisFederationState) and the workers that claim through any of them.    *)
(*                                                                          *)
(* Redis executes one command, script or transaction at a time, and between *)
(* two of them anything may happen: submit and claim are one step (a claim  *)
(* without scripting two), complete and heartbeat read the job's hash in    *)
(* one step and write it in another, a reaper pass re-queues job after job. *)
(* Timers are left out here (module Federation has them): a claim may       *)
(* become STALE at any time, for any job when SlowWorkers holds and         *)
(* otherwise only when no living run of the claiming worker sends           *)
(* heartbeats for it and none is under way.  A worker that gives up waiting *)
(* for its local queue reports an error and leaves the job running there.   *)
(*                                                                          *)
(* The definitions named Slip_... are plausible slips in the definition     *)
(* that follows them; with each of them one of the properties must fail.    *)
(***************************************************************************)
EXTENDS Naturals, Sequences, FiniteSets

CONSTANTS Jobs, Workers,
          Coordinators,   \* the servers that share the Redis, one reaper each
          Priority,       \* priority of each job
          MaxPublish,     \* how often the /submit of one job may arrive
          MaxRuns,        \* bound: claims answered to a worker
          MaxLost,        \* bound: lost requests, answers, interrupted passes
          MaxCrashes,     \* bound: worker crashes
          SlowWorkers,    \* may a living worker's heartbeats stay out?
          NoWorker, NoJob

ASSUME RedisFederationAssumption ==
  /\ IsFiniteSet(Jobs)
  /\ Priority \in [Jobs -> Nat]
  /\ {MaxPublish, MaxRuns, MaxLost, MaxCrashes} \subseteq Nat
  /\ SlowWorkers \in BOOLEAN
  /\ NoWorker \notin Workers
  /\ NoJob \notin Jobs

VARIABLES
  status,    \* field status of the hash vt:fed:job:<id>; "finished": done, error
  claimedBy, \* field claimed_by
  stamp,     \* field created_at: the number of the submission (0: no hash)
  pending,   \* the members <<created_at, job>> of the sorted set
  stale,     \* the jobs whose heartbeat_at is older than the timeout
  result,    \* history: the run whose report the hash holds (0: none)
  arrived,   \* how often the /submit of a job has arrived
  watch,     \* the member a claim without script has read and is to take
  runs,      \* the workers' runs, in the order of their claims
  beat,      \* the heartbeat requests between their read and their write
  reaper,    \* each coordinator's pass: jobs still to read, job to re-queue
  disturbed, \* history: see the property OneRunPerJob
  lost, crashes

vars == <<status, claimedBy, stamp, pending, stale, result, arrived, watch, runs,
          beat, reaper, disturbed, lost, crashes>>
hashVars == <<status, claimedBy, stamp, result>>

Submissions == Jobs \X (1..MaxPublish)
Stamps == 1..Cardinality(Submissions)

\* "writing" is a /complete request that has passed the status check.
Run == [worker : Workers, job : Jobs,
        phase : {"working", "reporting", "writing", "over"},
        executing : BOOLEAN]

\* A pass over the jobs todo; found is the stale job it has just read, with
\* the created_at it read.
Pass == [active : BOOLEAN, todo : SUBSET Jobs, found : Jobs \cup {NoJob},
         stamp : Stamps \cup {0}]
Resting == [active |-> FALSE, todo |-> {}, found |-> NoJob, stamp |-> 0]

Live(i) == runs[i].phase # "over"
\* The local queue still executes the job of a run whose waiting is over.
LeftBehind(i) == runs[i].executing /\ runs[i].phase = "over"
Over(r) == [r EXCEPT !.phase = "over"]
Unwatched == <<0, NoJob>>
Loss == lost < MaxLost /\ lost' = lost + 1

-------------------------------------------------------------------------------
Init ==
  /\ status = [j \in Jobs |-> "absent"]
  /\ claimedBy = [j \in Jobs |-> NoWorker]
  /\ stamp = [j \in Jobs |-> 0]
  /\ pending = {}
  /\ stale = {}
  /\ result = [j \in Jobs |-> 0]
  /\ arrived = [j \in Jobs |-> 0]
  /\ watch = [w \in Workers |-> Unwatched]
  /\ runs = <<>>
  /\ beat = {}
  /\ reaper = [c \in Coordinators |-> Resting]
  /\ disturbed = FALSE
  /\ lost = 0
  /\ crashes = 0

Arrived == {s \in Submissions : s[2] <= arrived[s[1]]}
Now == 1 + Cardinality(Arrived)

\* submit(): one transaction writes the hash, whatever it held, and adds a
\* member with its created_at.  The publisher tries its URLs in turn, so the
\* request may arrive once more after an answer was late.
Submit(j) ==
  /\ arrived[j] < MaxPublish
  /\ arrived' = [arrived EXCEPT ![j] = @ + 1]
  /\ stamp' = [stamp EXCEPT ![j] = Now]
  /\ status' = [status EXCEPT ![j] = "pending"]
  /\ claimedBy' = [claimedBy EXCEPT ![j] = NoWorker]
  /\ result' = [result EXCEPT ![j] = 0]
  /\ pending' = pending \cup {<<Now, j>>}
  /\ stale' = stale \ {j}
  /\ disturbed' = (disturbed \/ arrived[j] > 0)
  /\ UNCHANGED <<runs, beat, reaper, lost, crashes>>

\* ZRANGE 0 0 with score -priority and members ordered by created_at.
First(m) ==
  /\ m \in pending
  /\ \A n \in pending \ {m} :
       \/ Priority[m[2]] > Priority[n[2]]
       \/ Priority[m[2]] = Priority[n[2]] /\ m[1] < n[1]

NewRun(w, j) == [worker |-> w, job |-> j, phase |-> "working", executing |-> TRUE]

\* A claim takes the member m: the hash of its job is marked claimed, whatever
\* its status; the answer may get lost.
Take(w, m) ==
  LET j == m[2] IN
  /\ Len(runs) < MaxRuns
  /\ pending' = pending \ {m}
  /\ status' = [status EXCEPT ![j] = "claimed"]
  /\ claimedBy' = [claimedBy EXCEPT ![j] = w]
  /\ stale' = stale \ {j}
  /\ \/ runs' = Append(runs, NewRun(w, j)) /\ UNCHANGED lost
     \/ Loss /\ UNCHANGED runs
  /\ UNCHANGED <<stamp, result, arrived, beat, reaper, disturbed, crashes>>

\* claim(): the script pops the first member.
Claim(w) ==
  /\ watch[w] = Unwatched
  /\ \E m \in pending : First(m) /\ Take(w, m)

\* claim() when the script is refused (scripting unsupported, or flushed):
\* _claim_via_watch() watches the set and reads its first member ...
WatchRead(w) ==
  /\ watch[w] = Unwatched
  /\ \E m \in pending : First(m) /\ watch' = [watch EXCEPT ![w] = m]
  /\ UNCHANGED <<hashVars, pending, stale, arrived, runs, beat, reaper, disturbed,
                 lost, crashes>>

\* The slip: the change is noticed by one claim at most.
Slip_NotWatched ==
  \E w \in Workers : watch' = [watch EXCEPT ![w] = Unwatched]

\* ... and whoever changes the set makes the EXEC of those who watch it fail:
\* they start over (at most _CLAIM_RETRIES times, then with the next poll).
Noticed ==
  watch' = IF pending' = pending THEN watch ELSE [w \in Workers |-> Unwatched]

\* ... EXEC: hash and member in one transaction.
WatchExec(w) == watch[w] # Unwatched /\ Take(w, watch[w])

\* A living run of the claiming worker, or a request of it, is under way.
Attended(j) ==
  \E i \in DOMAIN runs :
    runs[i].job = j /\ runs[i].worker = claimedBy[j] /\ (Live(i) \/ i \in beat)

\* Time passes without a heartbeat.  A pass is short against the timeout:
\* nothing becomes stale during one.
BecomesStale(j) ==
  /\ status[j] = "claimed"
  /\ j \notin stale
  /\ SlowWorkers \/ ~Attended(j)
  /\ disturbed' = (disturbed \/ Attended(j))
  /\ \A c \in Coordinators : ~reaper[c].active
  /\ stale' = stale \cup {j}
  /\ UNCHANGED <<hashVars, pending, arrived, runs, beat, reaper, lost, crashes>>

\* The check of heartbeat(): claimed, and by the sender.
Holds(i) == /\ status[runs[i].job] = "claimed"
            /\ claimedBy[runs[i].job] = runs[i].worker

\* heartbeat() reads the hash ...
HeartbeatRead(i) ==
  /\ Live(i)
  /\ i \notin beat
  /\ Holds(i)
  /\ beat' = beat \cup {i}
  /\ UNCHANGED <<hashVars, pending, stale, arrived, runs, reaper, disturbed, lost, crashes>>

Slip_WritesWholeHash(i) ==
  /\ i \in beat
  /\ beat' = beat \ {i}
  /\ status' = [status EXCEPT ![runs[i].job] = "claimed"]
  /\ claimedBy' = [claimedBy EXCEPT ![runs[i].job] = runs[i].worker]
  /\ stale' = stale \ {runs[i].job}
  /\ UNCHANGED <<stamp, result, pending, arrived, runs, reaper, disturbed, lost, crashes>>

\* ... and writes heartbeat_at.
HeartbeatWrite(i) ==
  /\ i \in beat
  /\ beat' = beat \ {i}
  /\ stale' = stale \ {runs[i].job}
  /\ UNCHANGED <<hashVars, pending, arrived, runs, reaper, disturbed, lost, crashes>>

\* The worker's local queue has finished the job.
JobEnds(i) ==
  /\ runs[i].phase = "working"
  /\ runs' = [runs EXCEPT ![i].phase = "reporting", ![i].executing = FALSE]
  /\ UNCHANGED <<hashVars, pending, stale, arrived, beat, reaper, disturbed, lost, crashes>>

\* wait_for() is given up after the execution timeout, which is reported as an
\* error.  Nobody cancels the local job.
TimesOut(i) ==
  /\ runs[i].phase = "working"
  /\ runs' = [runs EXCEPT ![i].phase = "reporting"]
  /\ UNCHANGED <<hashVars, pending, stale, arrived, beat, reaper, disturbed, lost, crashes>>

\* The local queue finishes a job nobody waits for.
EndsUnheard(i) ==
  /\ runs[i].executing /\ runs[i].phase # "working"
  /\ runs' = [runs EXCEPT ![i].executing = FALSE]
  /\ UNCHANGED <<hashVars, pending, stale, arrived, beat, reaper, disturbed, lost, crashes>>

\* complete() reads the status and refuses a finished job ...
CompleteRead(i) ==
  /\ runs[i].phase = "reporting"
  /\ \/ /\ status[runs[i].job] # "finished"
        /\ runs' = [runs EXCEPT ![i].phase = "writing"]
        /\ UNCHANGED lost
     \/ /\ status[runs[i].job] = "finished"
        /\ runs' = [runs EXCEPT ![i] = Over(@)]
        /\ UNCHANGED lost
     \/ Loss /\ runs' = [runs EXCEPT ![i] = Over(@)]
  /\ UNCHANGED <<hashVars, pending, stale, arrived, beat, reaper, disturbed, crashes>>

\* ... and writes status and result.  The sorted set is left alone.
CompleteWrite(i) ==
  /\ runs[i].phase = "writing"
  /\ runs' = [runs EXCEPT ![i] = Over(@)]
  /\ status' = [status EXCEPT ![runs[i].job] = "finished"]
  /\ result' = [result EXCEPT ![runs[i].job] = i]
  /\ stale' = stale \ {runs[i].job}
  /\ UNCHANGED <<claimedBy, stamp, pending, arrived, beat, reaper, disturbed, lost, crashes>>

\* A reaper pass starts: SMEMBERS of all job ids.
ReapStart(c) ==
  /\ ~reaper[c].active
  /\ stale # {}
  /\ reaper' = [reaper EXCEPT ![c] = [Resting EXCEPT
                  !.active = TRUE, !.todo = {j \in Jobs : stamp[j] # 0}]]
  /\ disturbed' = (disturbed \/ \E d \in Coordinators : reaper[d].active)
  /\ UNCHANGED <<hashVars, pending, stale, arrived, runs, beat, lost, crashes>>

\* It reads the hash of the next job ...
ReapRead(c) ==
  /\ reaper[c].active
  /\ reaper[c].found = NoJob
  /\ \E j \in reaper[c].todo :
       LET rest == [reaper[c] EXCEPT !.todo = @ \ {j}] IN
       reaper' = [reaper EXCEPT ![c] =
         IF status[j] = "claimed" /\ j \in stale
         THEN [rest EXCEPT !.found = j, !.stamp = stamp[j]]
         ELSE IF rest.todo = {} THEN Resting ELSE rest]
  /\ UNCHANGED <<hashVars, pending, stale, arrived, runs, beat, disturbed, lost, crashes>>

Requeued(c) == [reaper[c] EXCEPT !.found = NoJob, !.stamp = 0]

Slip_ReapWithoutMember(c) ==
  /\ reaper[c].found # NoJob
  /\ LET j == reaper[c].found IN
     /\ status' = [status EXCEPT ![j] = "pending"]
     /\ claimedBy' = [claimedBy EXCEPT ![j] = NoWorker]
     /\ stale' = stale \ {j}
  /\ reaper' = [reaper EXCEPT ![c] =
                  IF reaper[c].todo = {} THEN Resting ELSE Requeued(c)]
  /\ UNCHANGED <<stamp, pending, result, arrived, runs, beat, disturbed, lost, crashes>>

\* ... and re-queues a stale one: hash and member in one transaction, from
\* what it read.
ReapWrite(c) ==
  /\ reaper[c].found # NoJob
  /\ LET j == reaper[c].found IN
     /\ status' = [status EXCEPT ![j] = "pending"]
     /\ claimedBy' = [claimedBy EXCEPT ![j] = NoWorker]
     /\ pending' = pending \cup {<<reaper[c].stamp, j>>}
     /\ stale' = stale \ {j}
  /\ reaper' = [reaper EXCEPT ![c] =
                  IF reaper[c].todo = {} THEN Resting ELSE Requeued(c)]
  /\ UNCHANGED <<stamp, result, arrived, runs, beat, disturbed, lost, crashes>>

\* The coordinator dies in the middle of a pass, or Redis refuses a command.
ReapInterrupted(c) ==
  /\ reaper[c].active
  /\ Loss
  /\ reaper' = [reaper EXCEPT ![c] = Resting]
  /\ UNCHANGED <<hashVars, pending, stale, arrived, runs, beat, disturbed, crashes>>

\* What the death of its worker leaves of a run: a /complete request that has
\* passed its check goes on.
Dead(r) ==
  [r EXCEPT !.executing = FALSE,
            !.phase = IF r.phase = "writing" THEN "writing" ELSE "over"]

\* A worker process dies; a request it has sent may still be executed.
WorkerCrash(w) ==
  /\ crashes < MaxCrashes
  /\ crashes' = crashes + 1
  /\ \E i \in DOMAIN runs : runs[i].worker = w /\ Dead(runs[i]) # runs[i]
  /\ runs' = [i \in DOMAIN runs |->
                IF runs[i].worker = w THEN Dead(runs[i]) ELSE runs[i]]
  /\ UNCHANGED <<hashVars, pending, stale, arrived, beat, reaper, disturbed, lost>>

Command ==
  \/ \E j \in Jobs : Submit(j) \/ BecomesStale(j)
  \/ \E w \in Workers : Claim(w) \/ WatchExec(w) \/ WorkerCrash(w)
  \/ \E i \in DOMAIN runs : \/ HeartbeatRead(i) \/ HeartbeatWrite(i)
                            \/ JobEnds(i) \/ TimesOut(i) \/ EndsUnheard(i)
                            \/ CompleteRead(i) \/ CompleteWrite(i)
  \/ \E c \in Coordinators : \/ ReapStart(c) \/ ReapRead(c) \/ ReapWrite(c)
                             \/ ReapInterrupted(c)

Next == (Command /\ Noticed) \/ \E w \in Workers : WatchRead(w)

Spec == Init /\ [][Next]_vars

-------------------------------------------------------------------------------
(***************************************************************************)
(* Properties.                                                              *)
(***************************************************************************)

\* Type invariant.
TypeOK ==
  /\ status \in [Jobs -> {"absent", "pending", "claimed", "finished"}]
  /\ claimedBy \in [Jobs -> Workers \cup {NoWorker}]
  /\ stamp \in [Jobs -> Stamps \cup {0}]
  /\ pending \subseteq Stamps \X Jobs
  /\ stale \subseteq Jobs
  /\ result \in [Jobs -> 0..MaxRuns]
  /\ arrived \in [Jobs -> 0..MaxPublish]
  /\ watch \in [Workers -> (Stamps \X Jobs) \cup {Unwatched}]
  /\ runs \in Seq(Run)
  /\ beat \subseteq DOMAIN runs
  /\ reaper \in [Coordinators -> Pass]
  /\ disturbed \in BOOLEAN
  /\ lost \in 0..MaxLost
  /\ crashes \in 0..MaxCrashes

\* A job whose hash says pending has a member in the sorted set, so a claim
\* will find it: the two stores a job lives in cannot drift apart in the
\* direction that would lose it, whatever the coordinators do at once.
Claimable(j) == \E m \in pending : m[2] = j
PendingIsClaimable ==
  /\ TypeOK
  /\ \A j \in Jobs : status[j] = "pending" => Claimable(j)

\* "two coordinators can never claim the same job": as long as no submission
\* arrived twice, no waiting worker's heartbeats stayed out and no two reapers
\* passed at the same time, two local queues execute one job only after a
\* message was lost, and one of the two was given up at the execution timeout.
OneRunPerJob ==
  ~disturbed =>
    \A i, k \in DOMAIN runs :
      i # k /\ runs[i].executing /\ runs[k].executing /\ runs[i].job = runs[k].job
        => lost > 0 /\ (LeftBehind(i) \/ LeftBehind(k))

\* A finished job stays as it was reported ("reject completions for jobs
\* already done or errored (prevents stale workers from overwriting results)"),
\* under the same conditions.
FinishedIsFinal ==
  [][~disturbed' =>
     \A j \in Jobs :
       status[j] = "finished" => status'[j] = status[j] /\ result'[j] = result[j]]_vars
===============================================================================
