------------------------------ MODULE Federation ------------------------------
(***************************************************************************)
(* One federation coordinator with its in-memory state (federation_server:  *)
(* InMemoryFederationState, the endpoints /submit /claim /heartbeat         *)
(* /complete and the reaper task) and the workers that claim from it        *)
(* (federated_queue: _claim_loop, _claim_and_report, its heartbeat loop).   *)
(*                                                                          *)
(* Every endpoint runs under one asyncio.Lock and is one step.  A worker's  *)
(* RUN is what one successful /claim starts: the job runs in the worker's   *)
(* local queue, heartbeats are posted meanwhile, and at the end, or when    *)
(* the execution timeout has passed, a report is posted once.  The timeout  *)
(* ends the waiting, not the job: it goes on in the local queue.  Requests  *)
(* and answers may be lost; time is counted in units, and the timers of the *)
(* code are constants.                                                      *)
(*                                                                          *)
(* The definitions named Slip_... are plausible slips in the definition     *)
(* that follows them; with each of them one of the properties must fail.    *)
(***************************************************************************)
EXTENDS Wire, Sequences, FiniteSets

CONSTANTS Workers,
          Priority,          \* priority of each job
          HeartbeatInterval, \* time between two heartbeats of a run
          PostTimeout,       \* time after which a heartbeat POST is given up
          ClaimTimeout,      \* age at which the reaper takes a claim back
          ReaperPeriod,      \* time between two reaper passes
          MaxRuns,           \* bound: claims answered to a worker
          MaxCrashes,        \* bound: worker and coordinator crashes
          NoWorker           \* no worker (claimed_by is None)

ASSUME FederationAssumption ==
  /\ Priority \in [Jobs -> Nat]
  /\ HeartbeatInterval \in Nat \ {0}
  /\ PostTimeout \in Nat
  /\ ClaimTimeout \in Nat
  /\ ReaperPeriod \in Nat \ {0}
  /\ MaxRuns \in Nat
  /\ MaxLost \in Nat
  /\ MaxCrashes \in Nat
  /\ NoWorker \notin Workers

VARIABLES
  status,     \* status of the coordinator's job records ("absent": no record)
  claimedBy,  \* claimed_by
  contact,    \* age of heartbeat_at while claimed (0 otherwise)
  created,    \* the jobs in the order of created_at
  published,  \* the jobs whose /submit has been sent
  result,     \* history: the run whose report the record holds (0: none)
  sinceReap,  \* age of the last reaper pass
  runs,       \* the workers' runs, in the order of their claims
  crashes     \* crashes so far

vars == <<status, claimedBy, contact, created, published, result, sinceReap,
          runs, lost, crashes>>
recordVars == <<status, claimedBy, contact, created, result>>

Finished == {"done", "error"}

Run == [worker : Workers, job : Jobs,
        phase : {"working", "reporting", "over"},
        executing : BOOLEAN, outcome : Finished,
        beat : 0..(HeartbeatInterval + PostTimeout),
        misses : 0..3]

Live(i) == runs[i].phase # "over"

\* The heartbeat loop runs until the report has been posted or three
\* heartbeats in a row have failed.
Beating(i) == Live(i) /\ runs[i].misses < 3

\* The local queue still executes the job of a run whose waiting is over.
LeftBehind(i) == runs[i].executing /\ runs[i].phase = "over"

\* A run that is over, with its timer and outcome forgotten.
Over(r) == [r EXCEPT !.phase = "over", !.outcome = "done", !.beat = 0, !.misses = 0]

-------------------------------------------------------------------------------
Init ==
  /\ status = [j \in Jobs |-> "absent"]
  /\ claimedBy = [j \in Jobs |-> NoWorker]
  /\ contact = [j \in Jobs |-> 0]
  /\ created = <<>>
  /\ published = {}
  /\ result = [j \in Jobs |-> 0]
  /\ sinceReap = 0
  /\ runs = <<>>
  /\ lost = 0
  /\ crashes = 0

\* A job is published once, when it is submitted to a node; the record is
\* created if the request reaches the coordinator.
Submit(j) ==
  /\ j \notin published
  /\ published' = published \cup {j}
  /\ \/ /\ status' = [status EXCEPT ![j] = "pending"]
        /\ created' = Append(created, j)
        /\ UNCHANGED lost
     \/ Loss /\ UNCHANGED <<status, created>>
  /\ UNCHANGED <<claimedBy, contact, result, sinceReap, runs, crashes>>

Older(j, k) == \E m, n \in DOMAIN created :
                 m < n /\ created[m] = j /\ created[n] = k

\* pending.sort(key = (-priority, created_at)); the first one.
Best(j) ==
  /\ status[j] = "pending"
  /\ \A k \in Jobs \ {j} :
       status[k] = "pending" =>
         \/ Priority[j] > Priority[k]
         \/ Priority[j] = Priority[k] /\ Older(j, k)

NewRun(w, j) == [worker |-> w, job |-> j, phase |-> "working", executing |-> TRUE,
                 outcome |-> "done", beat |-> 0, misses |-> 0]

\* One poll of _claim_loop: the coordinator hands out the best pending job;
\* when the answer is lost the job stays claimed by a worker that does not
\* know.  A worker polls whatever it is already running.
Claim(w) ==
  /\ Len(runs) < MaxRuns
  /\ \E j \in Jobs :
       /\ Best(j)
       /\ status' = [status EXCEPT ![j] = "claimed"]
       /\ claimedBy' = [claimedBy EXCEPT ![j] = w]
       /\ contact' = [contact EXCEPT ![j] = 0]
       /\ \/ runs' = Append(runs, NewRun(w, j)) /\ UNCHANGED lost
          \/ Loss /\ UNCHANGED runs
  /\ UNCHANGED <<created, published, result, sinceReap, crashes>>

\* heartbeat(): only for a job that is claimed by the sender.
Accepted(i) == /\ status[runs[i].job] = "claimed"
               /\ claimedBy[runs[i].job] = runs[i].worker

Slip_NotRefreshed(i) == contact

\* heartbeat_at := now.
Refreshed(i) ==
  IF Accepted(i) THEN [contact EXCEPT ![runs[i].job] = 0] ELSE contact

Beaten(i, ok) ==
  [runs EXCEPT ![i].beat = 0,
               ![i].misses = IF ok THEN 0 ELSE @ + 1]

\* A heartbeat is posted when the interval has elapsed and its answer awaited
\* for at most PostTimeout: it arrives, or it is lost, or its answer is.
Heartbeat(i) ==
  /\ Beating(i)
  /\ runs[i].beat >= HeartbeatInterval
  /\ \/ /\ contact' = Refreshed(i)
        /\ runs' = Beaten(i, Accepted(i))
        /\ UNCHANGED lost
     \/ /\ Loss
        /\ contact' \in {contact, Refreshed(i)}
        /\ runs' = Beaten(i, FALSE)
  /\ UNCHANGED <<status, claimedBy, created, published, result, sinceReap,
                 crashes>>

\* The local queue has finished the job.
JobEnds(i) ==
  /\ runs[i].phase = "working"
  /\ \E r \in Finished :
       runs' = [runs EXCEPT ![i].phase = "reporting", ![i].outcome = r,
                            ![i].executing = FALSE]
  /\ UNCHANGED <<recordVars, published, sinceReap, lost, crashes>>

\* wait_for() is given up after the execution timeout, which is reported as an
\* error.  Nobody cancels the local job.
TimesOut(i) ==
  /\ runs[i].phase = "working"
  /\ runs' = [runs EXCEPT ![i].phase = "reporting", ![i].outcome = "error"]
  /\ UNCHANGED <<recordVars, published, sinceReap, lost, crashes>>

\* The local queue finishes a job nobody waits for.
EndsUnheard(i) ==
  /\ runs[i].executing /\ runs[i].phase # "working"
  /\ runs' = [runs EXCEPT ![i].executing = FALSE]
  /\ UNCHANGED <<recordVars, published, sinceReap, lost, crashes>>

Slip_CompleteUnguarded(i) ==
  /\ runs[i].phase = "reporting"
  /\ runs' = [runs EXCEPT ![i] = Over(@)]
  /\ LET j == runs[i].job IN
     \/ /\ status[j] # "absent"
        /\ status' = [status EXCEPT ![j] = runs[i].outcome]
        /\ result' = [result EXCEPT ![j] = i]
        /\ contact' = [contact EXCEPT ![j] = 0]
        /\ UNCHANGED lost
     \/ status[j] = "absent" /\ UNCHANGED <<status, result, contact, lost>>
     \/ Loss /\ UNCHANGED <<status, result, contact>>
  /\ UNCHANGED <<claimedBy, created, published, sinceReap, crashes>>

\* /complete: accepted from any worker unless the record is finished; posted
\* once, then the run and its heartbeat loop are over.
Complete(i) ==
  /\ runs[i].phase = "reporting"
  /\ runs' = [runs EXCEPT ![i] = Over(@)]
  /\ LET j == runs[i].job IN
     \/ /\ status[j] \in {"pending", "claimed"}
        /\ status' = [status EXCEPT ![j] = runs[i].outcome]
        /\ result' = [result EXCEPT ![j] = i]
        /\ contact' = [contact EXCEPT ![j] = 0]
        /\ UNCHANGED lost
     \/ /\ status[j] \in Finished \cup {"absent"}
        /\ UNCHANGED <<status, result, contact, lost>>
     \/ Loss /\ UNCHANGED <<status, result, contact>>
  /\ UNCHANGED <<claimedBy, created, published, sinceReap, crashes>>

Slip_StaleWithGrace ==
  {j \in Jobs : status[j] = "claimed" /\ contact[j] > ClaimTimeout + ReaperPeriod}

\* The claims reap_stale_claims() takes back.
Stale == {j \in Jobs : status[j] = "claimed" /\ contact[j] > ClaimTimeout}

Slip_ReapForgetsStatus ==
  /\ sinceReap = ReaperPeriod
  /\ sinceReap' = 0
  /\ claimedBy' = [j \in Jobs |-> IF j \in Stale THEN NoWorker ELSE claimedBy[j]]
  /\ contact' = [j \in Jobs |-> IF j \in Stale THEN 0 ELSE contact[j]]
  /\ UNCHANGED <<status, created, published, result, runs, lost, crashes>>

\* _reaper_loop: sleep, then one pass.
Reap ==
  /\ sinceReap = ReaperPeriod
  /\ sinceReap' = 0
  /\ status' = [j \in Jobs |-> IF j \in Stale THEN "pending" ELSE status[j]]
  /\ claimedBy' = [j \in Jobs |-> IF j \in Stale THEN NoWorker ELSE claimedBy[j]]
  /\ contact' = [j \in Jobs |-> IF j \in Stale THEN 0 ELSE contact[j]]
  /\ UNCHANGED <<created, published, result, runs, lost, crashes>>

\* One unit of time: never beyond a timer that is due on a running process.
Tick ==
  /\ sinceReap < ReaperPeriod
  /\ \A i \in DOMAIN runs :
       Beating(i) => runs[i].beat < HeartbeatInterval + PostTimeout
  /\ sinceReap' = sinceReap + 1
  /\ contact' = [j \in Jobs |-> IF status[j] = "claimed" THEN contact[j] + 1
                                ELSE contact[j]]
  /\ runs' = [i \in DOMAIN runs |->
                IF Beating(i) THEN [runs[i] EXCEPT !.beat = @ + 1] ELSE runs[i]]
  /\ UNCHANGED <<status, claimedBy, created, published, result, lost, crashes>>

\* A worker process dies (and may be restarted: it can claim again).
WorkerCrash(w) ==
  /\ crashes < MaxCrashes
  /\ crashes' = crashes + 1
  /\ \E i \in DOMAIN runs : (Live(i) \/ runs[i].executing) /\ runs[i].worker = w
  /\ runs' = [i \in DOMAIN runs |->
                IF runs[i].worker = w
                THEN [Over(runs[i]) EXCEPT !.executing = FALSE] ELSE runs[i]]
  /\ UNCHANGED <<recordVars, published, sinceReap, lost>>

\* The coordinator restarts with empty memory; the workers go on.
CoordinatorCrash ==
  /\ crashes < MaxCrashes
  /\ crashes' = crashes + 1
  /\ status' = [j \in Jobs |-> "absent"]
  /\ claimedBy' = [j \in Jobs |-> NoWorker]
  /\ contact' = [j \in Jobs |-> 0]
  /\ created' = <<>>
  /\ result' = [j \in Jobs |-> 0]
  /\ sinceReap' = 0
  /\ UNCHANGED <<published, runs, lost>>

Next ==
  \/ \E j \in Jobs : Submit(j)
  \/ \E w \in Workers : Claim(w) \/ WorkerCrash(w)
  \/ \E i \in DOMAIN runs : \/ Heartbeat(i) \/ JobEnds(i) \/ TimesOut(i)
                            \/ EndsUnheard(i) \/ Complete(i)
  \/ Reap
  \/ Tick
  \/ CoordinatorCrash

Spec == Init /\ [][Next]_vars

\* Time passes, the reaper and the workers' polls and posts are scheduled, and
\* wait_for(timeout=job_execution_timeout) bounds the waiting of every run.
\* Submissions and crashes are not fair, and a job that was given up may go on
\* for ever.
Fairness ==
  /\ WF_vars(Tick)
  /\ WF_vars(Reap)
  /\ \A w \in Workers : WF_vars(Claim(w))
  /\ \A i \in 1..MaxRuns :
       /\ WF_vars(i \in DOMAIN runs /\ Heartbeat(i))
       /\ WF_vars(i \in DOMAIN runs /\ (JobEnds(i) \/ TimesOut(i)))
       /\ WF_vars(i \in DOMAIN runs /\ Complete(i))

FairSpec == Spec /\ Fairness

-------------------------------------------------------------------------------
(***************************************************************************)
(* Properties.                                                              *)
(***************************************************************************)

\* Type invariant.  The bound of contact is property ZombieDetected.
TypeOK ==
  /\ status \in [Jobs -> {"absent", "pending", "claimed"} \cup Finished]
  /\ claimedBy \in [Jobs -> Workers \cup {NoWorker}]
  /\ contact \in [Jobs -> Nat]
  /\ created \in Seq(Jobs)
  /\ published \subseteq Jobs
  /\ result \in [Jobs -> 0..MaxRuns]
  /\ sinceReap \in 0..ReaperPeriod
  /\ runs \in Seq(Run)
  /\ lost \in 0..MaxLost
  /\ crashes \in 0..MaxCrashes

\* A claim without a sign of life is taken back within the claim timeout plus
\* one reaper period ("a zombie is detected within ~1.5x the timeout"), so no
\* record stays claimed longer than that without contact.
ZombieDetected ==
  /\ TypeOK
  /\ \A j \in Jobs : status[j] = "claimed" => contact[j] <= ClaimTimeout + ReaperPeriod

\* Two local queues execute one job at a time only after two messages have been
\* lost, or one has and one of the two was given up at the execution timeout:
\* one lost heartbeat or claim answer never makes the reaper hand a job to a
\* second worker while the first executes it, one lost report does so only when
\* the job it reported as timed out goes on all the same.
OneRunPerJob ==
  lost < 2 =>
    \A i, k \in DOMAIN runs :
      i # k /\ runs[i].executing /\ runs[k].executing /\ runs[i].job = runs[k].job
        => lost = 1 /\ (LeftBehind(i) \/ LeftBehind(k))

\* A report is in the record for good: neither a late report of a worker
\* whose claim was taken back nor the reaper reopens or rewrites it.
FinishedIsFinal ==
  [][\A j \in Jobs :
       status[j] \in Finished /\ status'[j] # "absent" =>
         status'[j] = status[j] /\ result'[j] = result[j]]_vars

\* Every job the coordinator has accepted gets a result, however its workers
\* crash and messages are lost, or the coordinator forgets it in a restart.
JobsFinish ==
  \A j \in Jobs :
    status[j] = "pending" ~> status[j] \in Finished \cup {"absent"}

===============================================================================
