--------------------------- MODULE FederationProofs ---------------------------
(***************************************************************************)
(* Proofs about the two sides of the federation.                           *)
(*                                                                         *)
(* The coordinator (Federation), for every number of jobs, workers, runs,  *)
(* losses and crashes: the type invariant, how long a claim may be silent  *)
(* (ZombieDetected), that a finished job stays finished (FinishedIsFinal)  *)
(* and, when the timers leave room for one lost heartbeat, that a job has  *)
(* one worker at a time (OneRunPerJob).                                    *)
(*                                                                         *)
(* The nodes (Swarm), for every list of URLs and every number of nodes and *)
(* patterns: that a publication leaves no copies but the one reported and  *)
(* those whose answer was lost (OneCopyPerPublication), and that a node    *)
(* whose named reports went below the floor adds no pattern                *)
(* (BadNodesAddNothing).                                                   *)
(***************************************************************************)
EXTENDS Federation, Swarm, FiniteSetTheorems, SequenceTheorems, TLAPS

\* A heartbeat and its post may take this long.
Round == HeartbeatInterval + PostTimeout

\* The timers leave room for one heartbeat that is lost: a second one arrives
\* before the claim is stale (vt_config: 2 * (60 + 10) <= 180).
Tolerant == 2 * Round <= ClaimTimeout

-------------------------------------------------------------------------------
(***************************************************************************)
(* The inductive invariants.                                               *)
(***************************************************************************)

\* Claims answered are bounded, so a record can name the run it comes from.
Numbered == Len(runs) <= MaxRuns

\* A record exists only for a job that has been published.
Known == \A j \in Jobs : status[j] # "absent" => j \in published

\* A claim has been silent no longer than the timeout, plus the time since
\* the reaper last looked.
Watched == \A j \in Jobs :
             status[j] = "claimed" => contact[j] <= ClaimTimeout + sinceReap

FedInv == TypeOK /\ Numbered /\ Known /\ Watched

\* What a run that is alive may rely on while fewer than two messages have
\* been lost: its job was published, and its record is either gone with a
\* coordinator or still claimed by the run's worker, which has missed no more
\* heartbeats than were lost, and whose last contact is no older than those.
Holds(i) ==
  /\ runs[i].job \in published
  /\ status[runs[i].job] \in {"absent", "claimed"}
  /\ status[runs[i].job] = "claimed" =>
       /\ claimedBy[runs[i].job] = runs[i].worker
       /\ runs[i].misses <= lost
       /\ contact[runs[i].job] <=
            (IF runs[i].misses = 0 THEN 0 ELSE Round) + runs[i].beat

Held == lost < 2 => \A i \in DOMAIN runs : Live(i) => Holds(i)

\* No two runs that are waited for have the same job.
OneLive ==
  lost < 2 =>
    \A i, k \in DOMAIN runs :
      i # k /\ Live(i) /\ Live(k) => runs[i].job # runs[k].job

\* The record of a published job will never be claimed again.
Settled(j) == j \in published /\ status[j] \in Finished \cup {"absent"}

\* While no message has been lost, the report of a run that was given up has
\* been heard.
Reported == lost = 0 => \A i \in DOMAIN runs : LeftBehind(i) => Settled(runs[i].job)

-------------------------------------------------------------------------------
(***************************************************************************)
(* Lemmas about runs.                                                      *)
(***************************************************************************)

\* Runs are appended, changed one at a time, or all at once.
LEMMA RunsChange ==
  ASSUME runs \in Seq(Run)
  PROVE  /\ DOMAIN runs = 1..Len(runs) /\ Len(runs) \in Nat
         /\ \A i \in DOMAIN runs : runs[i] \in Run
         /\ \A r \in Run : /\ Append(runs, r) \in Seq(Run)
                           /\ Len(Append(runs, r)) = Len(runs) + 1
                           /\ DOMAIN Append(runs, r) = 1..(Len(runs) + 1)
                           /\ \A i \in DOMAIN runs : Append(runs, r)[i] = runs[i]
                           /\ Append(runs, r)[Len(runs) + 1] = r
         /\ \A i \in DOMAIN runs, r \in Run :
              /\ [runs EXCEPT ![i] = r] \in Seq(Run)
              /\ Len([runs EXCEPT ![i] = r]) = Len(runs)
<1>1. DOMAIN runs = 1..Len(runs) /\ Len(runs) \in Nat
  BY LenProperties
<1>2. \A i \in DOMAIN runs : runs[i] \in Run
  BY <1>1, ElementOfSeq
<1>3. ASSUME NEW r \in Run
      PROVE  /\ Append(runs, r) \in Seq(Run)
             /\ Len(Append(runs, r)) = Len(runs) + 1
             /\ DOMAIN Append(runs, r) = 1..(Len(runs) + 1)
             /\ \A i \in DOMAIN runs : Append(runs, r)[i] = runs[i]
             /\ Append(runs, r)[Len(runs) + 1] = r
  BY <1>1, AppendProperties
<1>4. ASSUME NEW i \in DOMAIN runs, NEW r \in Run
      PROVE  /\ [runs EXCEPT ![i] = r] \in Seq(Run)
             /\ Len([runs EXCEPT ![i] = r]) = Len(runs)
  BY <1>1, ExceptSeq
<1> QED BY <1>1, <1>2, <1>3, <1>4

\* A sequence of runs given one by one.
LEMMA RunsMapped ==
  ASSUME runs \in Seq(Run), DOMAIN runs' = DOMAIN runs,
         runs' = [i \in DOMAIN runs |-> runs'[i]],
         \A i \in DOMAIN runs : runs'[i] \in Run
  PROVE  runs' \in Seq(Run) /\ Len(runs') = Len(runs)
<1>1. DOMAIN runs = 1..Len(runs) /\ Len(runs) \in Nat
  BY LenProperties
<1>2. runs' \in [1..Len(runs) -> Run]
  BY <1>1
<1>3. runs' \in Seq(Run)
  BY <1>1, <1>2, SeqDef
<1> QED BY <1>1, <1>2, <1>3, LenProperties

\* The fields of a run.
LEMMA RunFields ==
  ASSUME NEW r \in Run
  PROVE  /\ r.worker \in Workers /\ r.job \in Jobs
         /\ r.phase \in {"working", "reporting", "over"}
         /\ r.outcome \in Finished /\ r.executing \in BOOLEAN
         /\ r.beat \in 0..Round
         /\ r.misses \in 0..3
BY DEF Run, Round

\* A run that is over is a run, of the same worker and job.
LEMMA OverIsRun ==
  ASSUME NEW r \in Run
  PROVE  /\ Over(r) \in Run /\ [Over(r) EXCEPT !.executing = FALSE] \in Run
         /\ Over(r).job = r.job /\ Over(r).worker = r.worker
         /\ Over(r).phase = "over" /\ Over(r).executing = r.executing
         /\ [Over(r) EXCEPT !.executing = FALSE].job = r.job
         /\ [Over(r) EXCEPT !.executing = FALSE].phase = "over"
         /\ [Over(r) EXCEPT !.executing = FALSE].executing = FALSE
<1>1. 0 \in 0..(HeartbeatInterval + PostTimeout)
  BY FederationAssumption
<1>2. Over(r) = [r EXCEPT !.phase = "over", !.outcome = "done", !.beat = 0, !.misses = 0]
  BY DEF Over
<1>3. "done" \in Finished /\ 0 \in 0..3
  BY DEF Finished
<1> QED BY <1>1, <1>2, <1>3 DEF Run

\* A new run is a run.
LEMMA NewIsRun ==
  ASSUME NEW w \in Workers, NEW j \in Jobs
  PROVE  /\ NewRun(w, j) \in Run
         /\ NewRun(w, j).job = j /\ NewRun(w, j).worker = w
         /\ NewRun(w, j).beat = 0 /\ NewRun(w, j).misses = 0
<1>1. 0 \in 0..(HeartbeatInterval + PostTimeout)
  BY FederationAssumption
<1> QED BY <1>1 DEF NewRun, Run, Finished

\* A message that is lost is counted.
LEMMA LossCounted ==
  ASSUME lost \in 0..MaxLost, lost' = lost \/ Loss
  PROVE  lost' \in 0..MaxLost /\ lost <= lost' /\ lost' \in {lost, lost + 1}
BY FederationAssumption DEF Loss

-------------------------------------------------------------------------------
(***************************************************************************)
(* What each step does to the runs.                                        *)
(***************************************************************************)

\* The runs after a heartbeat: one has its beat reset and its misses set.
LEMMA BeatenRuns ==
  ASSUME runs \in Seq(Run), NEW i \in DOMAIN runs, Beating(i), NEW ok \in BOOLEAN,
         runs' = Beaten(i, ok)
  PROVE  /\ runs' \in Seq(Run) /\ Len(runs') = Len(runs)
         /\ DOMAIN runs' = DOMAIN runs
         /\ \A k \in DOMAIN runs :
              /\ runs'[k].job = runs[k].job /\ runs'[k].worker = runs[k].worker
              /\ runs'[k].phase = runs[k].phase
              /\ runs'[k].executing = runs[k].executing
         /\ \A k \in DOMAIN runs \ {i} : runs'[k] = runs[k]
         /\ runs'[i].beat = 0
         /\ ok => runs'[i].misses = 0
         /\ ~ok => runs'[i].misses = runs[i].misses + 1
<1> DEFINE n == IF ok THEN 0 ELSE runs[i].misses + 1
           r == [runs[i] EXCEPT !.beat = 0, !.misses = n]
<1>1. runs[i] \in Run
  BY RunsChange
<1>2. n \in 0..3
  BY <1>1, RunFields DEF Beating
<1>3. 0 \in 0..(HeartbeatInterval + PostTimeout)
  BY FederationAssumption
<1>4. r \in Run
  <2> HIDE DEF n
  <2> QED BY <1>1, <1>2, <1>3 DEF Run
<1>5. runs' = [runs EXCEPT ![i] = r]
  BY <1>1 DEF Beaten, Run
<1>6. runs' \in Seq(Run) /\ Len(runs') = Len(runs) /\ DOMAIN runs' = DOMAIN runs
  <2> HIDE DEF r
  <2> QED BY <1>4, <1>5, RunsChange
<1>7. runs'[i] = r /\ \A k \in DOMAIN runs \ {i} : runs'[k] = runs[k]
  BY <1>5
<1>8. /\ r.job = runs[i].job /\ r.worker = runs[i].worker
      /\ r.phase = runs[i].phase /\ r.executing = runs[i].executing
      /\ r.beat = 0 /\ r.misses = n
  BY <1>1 DEF Run
<1> QED BY <1>6, <1>7, <1>8

\* The runs after a job has ended or is no longer waited for: one changes its
\* phase or stops executing.
LEMMA EndedRuns ==
  ASSUME runs \in Seq(Run), NEW i \in DOMAIN runs,
         JobEnds(i) \/ TimesOut(i) \/ EndsUnheard(i)
  PROVE  /\ runs' \in Seq(Run) /\ Len(runs') = Len(runs)
         /\ DOMAIN runs' = DOMAIN runs
         /\ \A k \in DOMAIN runs :
              /\ runs'[k].job = runs[k].job /\ runs'[k].worker = runs[k].worker
              /\ runs'[k].phase = "over" <=> runs[k].phase = "over"
              /\ runs'[k].executing => runs[k].executing
              /\ runs'[k].beat = runs[k].beat /\ runs'[k].misses = runs[k].misses
<1>1. runs[i] \in Run
  BY RunsChange
<1>2. PICK p \in {"reporting", runs[i].phase}, o \in Finished \cup {runs[i].outcome},
           e \in BOOLEAN :
        /\ runs' = [runs EXCEPT ![i].phase = p, ![i].outcome = o, ![i].executing = e]
        /\ p = "over" <=> runs[i].phase = "over"
        /\ e => runs[i].executing
  <2>1. CASE JobEnds(i)
    BY <1>1, <2>1 DEF JobEnds, Run
  <2>2. CASE TimesOut(i)
    <3>1. /\ runs[i].phase = "working" /\ "error" \in Finished
          /\ runs' = [runs EXCEPT ![i] = [runs[i] EXCEPT !.phase = "reporting",
                                                        !.outcome = "error"]]
      BY <1>1, <2>2 DEF TimesOut, Run, Finished
    <3>2. [runs[i] EXCEPT !.phase = "reporting", !.outcome = "error"]
          = [runs[i] EXCEPT !.phase = "reporting", !.outcome = "error",
                            !.executing = runs[i].executing]
      BY <1>1 DEF Run
    <3>3. runs' = [runs EXCEPT ![i].phase = "reporting", ![i].outcome = "error",
                               ![i].executing = runs[i].executing]
      BY <1>1, <3>1, <3>2 DEF Run
    <3> QED BY <1>1, <3>1, <3>3, RunFields
  <2>3. CASE EndsUnheard(i)
    <3>1. runs' = [runs EXCEPT ![i] = [runs[i] EXCEPT !.executing = FALSE]]
      BY <1>1, <2>3 DEF EndsUnheard, Run
    <3>2. [runs[i] EXCEPT !.executing = FALSE]
          = [runs[i] EXCEPT !.phase = runs[i].phase, !.outcome = runs[i].outcome,
                            !.executing = FALSE]
      BY <1>1 DEF Run
    <3>3. runs' = [runs EXCEPT ![i].phase = runs[i].phase,
                               ![i].outcome = runs[i].outcome, ![i].executing = FALSE]
      BY <1>1, <3>1, <3>2 DEF Run
    <3> QED BY <3>3
  <2> QED BY <2>1, <2>2, <2>3
<1> DEFINE r == [runs[i] EXCEPT !.phase = p, !.outcome = o, !.executing = e]
<1>3. r \in Run
  BY <1>1, <1>2 DEF Run
<1>4. runs' = [runs EXCEPT ![i] = r]
  BY <1>1, <1>2 DEF Run
<1>5. runs' \in Seq(Run) /\ Len(runs') = Len(runs) /\ DOMAIN runs' = DOMAIN runs
  <2> HIDE DEF r
  <2> QED BY <1>3, <1>4, RunsChange
<1>6. runs'[i] = r /\ \A k \in DOMAIN runs \ {i} : runs'[k] = runs[k]
  BY <1>4
<1>7. /\ r.job = runs[i].job /\ r.worker = runs[i].worker
      /\ r.phase = p /\ r.executing = e
      /\ r.beat = runs[i].beat /\ r.misses = runs[i].misses
  BY <1>1 DEF Run
<1> QED BY <1>2, <1>5, <1>6, <1>7

\* The runs after a report: one is over.
LEMMA CompletedRuns ==
  ASSUME runs \in Seq(Run), NEW i \in DOMAIN runs, Complete(i)
  PROVE  /\ runs' \in Seq(Run) /\ Len(runs') = Len(runs)
         /\ DOMAIN runs' = DOMAIN runs
         /\ runs'[i].phase = "over"
         /\ runs'[i].job = runs[i].job /\ runs'[i].executing = runs[i].executing
         /\ \A k \in DOMAIN runs \ {i} : runs'[k] = runs[k]
<1>1. runs[i] \in Run /\ Over(runs[i]) \in Run
  BY RunsChange, OverIsRun
<1>2. runs' = [runs EXCEPT ![i] = Over(runs[i])]
  BY DEF Complete
<1> QED BY <1>1, <1>2, RunsChange, OverIsRun

\* The runs after a unit of time: those that beat are one unit further.
LEMMA TickedRuns ==
  ASSUME runs \in Seq(Run), Tick
  PROVE  /\ runs' \in Seq(Run) /\ Len(runs') = Len(runs)
         /\ DOMAIN runs' = DOMAIN runs
         /\ \A k \in DOMAIN runs :
              /\ runs'[k].job = runs[k].job /\ runs'[k].worker = runs[k].worker
              /\ runs'[k].phase = runs[k].phase
              /\ runs'[k].executing = runs[k].executing
              /\ runs'[k].misses = runs[k].misses
              /\ Beating(k) => runs'[k].beat = runs[k].beat + 1
              /\ ~Beating(k) => runs'[k] = runs[k]
<1>1. /\ DOMAIN runs' = DOMAIN runs
      /\ runs' = [i \in DOMAIN runs |-> runs'[i]]
      /\ \A i \in DOMAIN runs :
           runs'[i] = IF Beating(i) THEN [runs[i] EXCEPT !.beat = @ + 1] ELSE runs[i]
  BY DEF Tick
<1>2. ASSUME NEW k \in DOMAIN runs
      PROVE  /\ runs'[k] \in Run
             /\ runs'[k].job = runs[k].job /\ runs'[k].worker = runs[k].worker
             /\ runs'[k].phase = runs[k].phase
             /\ runs'[k].executing = runs[k].executing
             /\ runs'[k].misses = runs[k].misses
             /\ Beating(k) => runs'[k].beat = runs[k].beat + 1
             /\ ~Beating(k) => runs'[k] = runs[k]
  <2>1. runs[k] \in Run
    BY RunsChange
  <2>2. CASE ~Beating(k)
    BY <1>1, <2>1, <2>2
  <2>3. CASE Beating(k)
    <3>1. runs'[k] = [runs[k] EXCEPT !.beat = runs[k].beat + 1]
      BY <1>1, <2>1, <2>3 DEF Run
    <3>2. runs[k].beat < HeartbeatInterval + PostTimeout
      BY <2>3 DEF Tick
    <3>3. runs[k].beat + 1 \in 0..(HeartbeatInterval + PostTimeout)
      BY <2>1, <3>2, FederationAssumption DEF Run
    <3> QED BY <2>1, <2>3, <3>1, <3>3 DEF Run
  <2> QED BY <2>2, <2>3
<1>3. runs' \in Seq(Run) /\ Len(runs') = Len(runs)
  BY <1>1, <1>2, RunsMapped
<1> QED BY <1>1, <1>2, <1>3

\* The runs after a worker has died: its own are over and execute nothing.
LEMMA CrashedRuns ==
  ASSUME runs \in Seq(Run), NEW w \in Workers, WorkerCrash(w)
  PROVE  /\ runs' \in Seq(Run) /\ Len(runs') = Len(runs)
         /\ DOMAIN runs' = DOMAIN runs
         /\ \A k \in DOMAIN runs :
              /\ runs'[k].job = runs[k].job
              /\ runs'[k].phase # "over" \/ runs'[k].executing => runs'[k] = runs[k]
<1>1. /\ DOMAIN runs' = DOMAIN runs
      /\ runs' = [i \in DOMAIN runs |-> runs'[i]]
      /\ \A i \in DOMAIN runs :
           runs'[i] = IF runs[i].worker = w
                      THEN [Over(runs[i]) EXCEPT !.executing = FALSE] ELSE runs[i]
  BY DEF WorkerCrash
<1>2. ASSUME NEW k \in DOMAIN runs
      PROVE  /\ runs'[k] \in Run
             /\ runs'[k].job = runs[k].job
             /\ runs'[k].phase # "over" \/ runs'[k].executing => runs'[k] = runs[k]
  <2>1. runs[k] \in Run
    BY RunsChange
  <2>2. CASE runs[k].worker = w
    <3>1. runs'[k] = [Over(runs[k]) EXCEPT !.executing = FALSE]
      BY <1>1, <2>2
    <3>2. runs'[k] \in Run /\ runs'[k].job = runs[k].job
          /\ runs'[k].phase = "over" /\ runs'[k].executing = FALSE
      BY <2>1, <3>1, OverIsRun
    <3> QED BY <3>2
  <2>3. CASE runs[k].worker # w
    BY <1>1, <2>1, <2>3
  <2> QED BY <2>2, <2>3
<1>3. runs' \in Seq(Run) /\ Len(runs') = Len(runs)
  BY <1>1, <1>2, RunsMapped
<1> QED BY <1>1, <1>2, <1>3

-------------------------------------------------------------------------------
(***************************************************************************)
(* The type invariant, the bound on claims, the records and the timers.    *)
(***************************************************************************)

\* A submission: a record appears for a job that is now published.
LEMMA SubmitStep ==
  ASSUME FedInv, NEW j \in Jobs, Submit(j)
  PROVE  FedInv'
<1> USE FederationAssumption DEF FedInv
<1>1. /\ lost' = lost \/ Loss
      /\ \/ status' = [status EXCEPT ![j] = "pending"] /\ created' = Append(created, j)
         \/ status' = status /\ created' = created
      /\ published' = published \cup {j}
      /\ claimedBy' = claimedBy /\ contact' = contact /\ result' = result
      /\ sinceReap' = sinceReap /\ runs' = runs /\ crashes' = crashes
  BY DEF Submit
<1>2. lost' \in 0..MaxLost
  BY <1>1, LossCounted DEF TypeOK
<1>3. created' \in Seq(Jobs)
  <2>1. created \in Seq(Jobs) /\ Append(created, j) \in Seq(Jobs)
    BY AppendProperties DEF TypeOK
  <2>2. created' = created \/ created' = Append(created, j)
    BY <1>1
  <2> QED BY <2>1, <2>2
<1>4. TypeOK'
  BY <1>1, <1>2, <1>3 DEF TypeOK
<1>5. Numbered' /\ Known' /\ Watched'
  BY <1>1 DEF TypeOK, Numbered, Known, Watched
<1> QED BY <1>4, <1>5

\* A claim: the record is fresh; the run, when the worker hears of it, new.
LEMMA ClaimStep ==
  ASSUME FedInv, NEW w \in Workers, Claim(w)
  PROVE  FedInv'
<1> USE FederationAssumption DEF FedInv
<1>1. PICK j \in Jobs :
        /\ Best(j)
        /\ status' = [status EXCEPT ![j] = "claimed"]
        /\ claimedBy' = [claimedBy EXCEPT ![j] = w]
        /\ contact' = [contact EXCEPT ![j] = 0]
        /\ \/ runs' = Append(runs, NewRun(w, j)) /\ UNCHANGED lost
           \/ Loss /\ UNCHANGED runs
  BY DEF Claim
<1>2. runs \in Seq(Run) /\ NewRun(w, j) \in Run /\ Len(runs) \in Nat
  BY NewIsRun, RunsChange DEF TypeOK
<1>3. runs' \in Seq(Run) /\ Len(runs') <= Len(runs) + 1
  <2>1. runs' = runs \/ runs' = Append(runs, NewRun(w, j))
    BY <1>1
  <2>2. CASE runs' = runs
    BY <1>2, <2>2
  <2>3. CASE runs' = Append(runs, NewRun(w, j))
    <3>1. runs' \in Seq(Run) /\ Len(runs') = Len(runs) + 1
      BY <1>2, <2>3, RunsChange
    <3> QED BY <1>2, <3>1
  <2> QED BY <2>1, <2>2, <2>3
<1>4. lost' \in 0..MaxLost
  BY <1>1, LossCounted DEF TypeOK
<1>5. TypeOK'
  BY <1>1, <1>3, <1>4 DEF Claim, TypeOK
<1>6. Numbered'
  BY <1>2, <1>3 DEF Claim, Numbered
<1>7. Known' /\ Watched'
  BY <1>1, SMTT(60) DEF Claim, Best, TypeOK, Known, Watched
<1> QED BY <1>5, <1>6, <1>7

\* A heartbeat refreshes the contact of its record or leaves it.
LEMMA HeartbeatStep ==
  ASSUME FedInv, NEW i \in DOMAIN runs, Heartbeat(i)
  PROVE  FedInv'
<1> USE FederationAssumption DEF FedInv
<1>1. runs \in Seq(Run) /\ Beating(i) /\ Accepted(i) \in BOOLEAN
  BY DEF TypeOK, Heartbeat, Accepted
<1>2. runs' = Beaten(i, Accepted(i)) \/ runs' = Beaten(i, FALSE)
  BY DEF Heartbeat
<1>3. runs' \in Seq(Run) /\ Len(runs') = Len(runs)
  BY <1>1, <1>2, BeatenRuns
<1>4. runs[i].job \in Jobs
  BY <1>1, RunsChange, RunFields
<1>5. contact' = contact \/ contact' = [contact EXCEPT ![runs[i].job] = 0]
  BY DEF Heartbeat, Refreshed
<1>6. contact' \in [Jobs -> Nat] /\ \A j \in Jobs : contact'[j] <= contact[j]
  <2>1. contact \in [Jobs -> Nat]
    BY DEF TypeOK
  <2>2. CASE contact' = contact
    BY <2>1, <2>2
  <2>3. CASE contact' = [contact EXCEPT ![runs[i].job] = 0]
    BY <1>4, <2>1, <2>3
  <2> QED BY <1>5, <2>2, <2>3
<1>7. lost' \in 0..MaxLost
  <2>1. lost' = lost \/ Loss
    BY DEF Heartbeat
  <2> QED BY <2>1, LossCounted DEF TypeOK
<1>8. TypeOK'
  BY <1>3, <1>6, <1>7 DEF Heartbeat, TypeOK
<1>9. Watched'
  <2>1. status' = status /\ sinceReap' = sinceReap
    BY DEF Heartbeat
  <2> QED BY <1>6, <2>1 DEF TypeOK, Watched
<1>10. Numbered' /\ Known'
  BY <1>3 DEF Heartbeat, Numbered, Known
<1> QED BY <1>8, <1>9, <1>10

\* The end of a job, or of the waiting for it, changes only its run.
LEMMA JobEndsStep ==
  ASSUME FedInv, NEW i \in DOMAIN runs, JobEnds(i) \/ TimesOut(i) \/ EndsUnheard(i)
  PROVE  FedInv'
<1> USE FederationAssumption DEF FedInv
<1>1. runs' \in Seq(Run) /\ Len(runs') = Len(runs)
  BY EndedRuns DEF TypeOK
<1>2. TypeOK'
  BY <1>1 DEF JobEnds, TimesOut, EndsUnheard, TypeOK, recordVars
<1>3. Numbered' /\ Known' /\ Watched'
  BY <1>1 DEF JobEnds, TimesOut, EndsUnheard, recordVars, Numbered, Known, Watched
<1> QED BY <1>2, <1>3

\* A report that is accepted finishes a record that exists.
LEMMA CompleteStep ==
  ASSUME FedInv, NEW i \in DOMAIN runs, Complete(i)
  PROVE  FedInv'
<1> USE FederationAssumption DEF FedInv
<1>1. runs' \in Seq(Run) /\ Len(runs') = Len(runs)
  BY CompletedRuns DEF TypeOK
<1>2. /\ runs[i].job \in Jobs /\ runs[i].outcome \in Finished
      /\ i \in 0..MaxRuns
  <2>1. runs[i] \in Run /\ DOMAIN runs = 1..Len(runs) /\ Len(runs) \in Nat
    BY RunsChange DEF TypeOK
  <2>2. i \in Nat /\ i <= MaxRuns
    BY <2>1 DEF Numbered
  <2> QED BY <2>1, <2>2, RunFields
<1> DEFINE j == runs[i].job
<1>3. \/ /\ status[j] \in {"pending", "claimed"}
         /\ status' = [status EXCEPT ![j] = runs[i].outcome]
         /\ result' = [result EXCEPT ![j] = i]
         /\ contact' = [contact EXCEPT ![j] = 0]
         /\ lost' = lost
      \/ /\ status' = status /\ result' = result /\ contact' = contact
         /\ lost' \in {lost, lost + 1} /\ lost' <= MaxLost
  <2>1. \/ /\ status[j] \in {"pending", "claimed"}
           /\ status' = [status EXCEPT ![j] = runs[i].outcome]
           /\ result' = [result EXCEPT ![j] = i]
           /\ contact' = [contact EXCEPT ![j] = 0]
           /\ lost' = lost
        \/ /\ status' = status /\ result' = result /\ contact' = contact
           /\ lost' = lost \/ Loss
    BY DEF Complete
  <2>2. lost' = lost \/ Loss => lost' \in {lost, lost + 1} /\ lost' <= MaxLost
    BY LossCounted DEF TypeOK
  <2> QED BY <2>1, <2>2
<1>4. /\ claimedBy' = claimedBy /\ created' = created /\ published' = published
      /\ sinceReap' = sinceReap /\ crashes' = crashes
  BY DEF Complete
<1>5. CASE /\ status[j] \in {"pending", "claimed"}
           /\ status' = [status EXCEPT ![j] = runs[i].outcome]
           /\ result' = [result EXCEPT ![j] = i]
           /\ contact' = [contact EXCEPT ![j] = 0]
           /\ lost' = lost
  <2>1. TypeOK'
    BY <1>1, <1>2, <1>4, <1>5 DEF TypeOK
  <2>2. Numbered' /\ Known' /\ Watched'
    BY <1>1, <1>2, <1>4, <1>5 DEF TypeOK, Numbered, Known, Watched, Finished
  <2> QED BY <2>1, <2>2
<1>6. CASE /\ status' = status /\ result' = result /\ contact' = contact
           /\ lost' \in {lost, lost + 1} /\ lost' <= MaxLost
  <2>1. TypeOK'
    BY <1>1, <1>4, <1>6 DEF TypeOK
  <2>2. Numbered' /\ Known' /\ Watched'
    BY <1>1, <1>4, <1>6 DEF Numbered, Known, Watched
  <2> QED BY <2>1, <2>2
<1> QED BY <1>3, <1>5, <1>6

\* A pass of the reaper: what stays claimed is not older than the timeout.
LEMMA ReapStep ==
  ASSUME FedInv, Reap
  PROVE  FedInv'
<1> USE FederationAssumption DEF FedInv
<1>1. TypeOK'
  BY DEF Reap, TypeOK
<1>2. Watched'
  <2> SUFFICES ASSUME NEW j \in Jobs, status'[j] = "claimed"
               PROVE  contact'[j] <= ClaimTimeout + sinceReap'
    BY DEF Watched
  <2>1. j \notin Stale /\ status[j] = "claimed" /\ contact'[j] = contact[j]
    BY DEF Reap, TypeOK
  <2>2. contact[j] <= ClaimTimeout
    BY <2>1 DEF Stale, TypeOK
  <2> QED BY <2>1, <2>2 DEF Reap
<1>3. Numbered' /\ Known'
  BY DEF Reap, Numbered, Known, Stale
<1> QED BY <1>1, <1>2, <1>3

\* A unit of time: every claim ages with the reaper's timer.
LEMMA TickStep ==
  ASSUME FedInv, Tick
  PROVE  FedInv'
<1> USE FederationAssumption DEF FedInv
<1>1. runs' \in Seq(Run) /\ Len(runs') = Len(runs)
  BY TickedRuns DEF TypeOK
<1>2. sinceReap' = sinceReap + 1 /\ sinceReap' \in 0..ReaperPeriod
  BY SMTT(60) DEF Tick, TypeOK
<1>3. contact' \in [Jobs -> Nat]
  BY SMTT(60) DEF Tick, TypeOK
<1>4. TypeOK'
  BY <1>1, <1>2, <1>3 DEF Tick, TypeOK
<1>5. Watched'
  BY <1>2, SMTT(60) DEF Tick, TypeOK, Watched
<1>6. Numbered' /\ Known'
  BY <1>1 DEF Tick, Numbered, Known
<1> QED BY <1>4, <1>5, <1>6

\* The crash of a worker changes only its runs.
LEMMA WorkerCrashStep ==
  ASSUME FedInv, NEW w \in Workers, WorkerCrash(w)
  PROVE  FedInv'
<1> USE FederationAssumption DEF FedInv
<1>1. runs' \in Seq(Run) /\ Len(runs') = Len(runs)
  BY CrashedRuns DEF TypeOK
<1>2. TypeOK'
  BY <1>1, SMTT(60) DEF WorkerCrash, TypeOK, recordVars
<1>3. Numbered' /\ Known' /\ Watched'
  BY <1>1 DEF WorkerCrash, recordVars, Numbered, Known, Watched
<1> QED BY <1>2, <1>3

\* The crash of the coordinator leaves no record.
LEMMA CoordinatorCrashStep ==
  ASSUME FedInv, CoordinatorCrash
  PROVE  FedInv'
<1> USE FederationAssumption DEF FedInv
<1>1. created' \in Seq(Jobs)
  BY EmptySeq DEF CoordinatorCrash
<1>2. TypeOK'
  BY <1>1 DEF CoordinatorCrash, TypeOK
<1>3. Numbered' /\ Known' /\ Watched'
  BY DEF CoordinatorCrash, Numbered, Known, Watched
<1> QED BY <1>2, <1>3

\* FedInv holds initially and is preserved by every step.
LEMMA FedInvariant == Spec => []FedInv
<1>1. Init => FedInv
  <2> SUFFICES ASSUME Init PROVE FedInv
    OBVIOUS
  <2> USE FederationAssumption
  <2>1. created \in Seq(Jobs) /\ runs \in Seq(Run) /\ Len(runs) = 0
    BY EmptySeq DEF Init
  <2>2. TypeOK
    BY <2>1 DEF Init, TypeOK
  <2>3. Numbered /\ Known /\ Watched
    BY <2>1 DEF Init, Numbered, Known, Watched
  <2> QED BY <2>2, <2>3 DEF FedInv
<1>2. FedInv /\ [Next]_vars => FedInv'
  <2> SUFFICES ASSUME FedInv, [Next]_vars PROVE FedInv'
    OBVIOUS
  <2>1. CASE UNCHANGED vars
    BY <2>1 DEF FedInv, TypeOK, Numbered, Known, Watched, vars
  <2>2. CASE Next
    BY <2>2, SubmitStep, ClaimStep, WorkerCrashStep, HeartbeatStep, JobEndsStep,
       CompleteStep, ReapStep, TickStep, CoordinatorCrashStep
    DEF Next
  <2> QED BY <2>1, <2>2
<1> QED BY <1>1, <1>2, PTL DEF Spec

\* A claim is never silent longer than the timeout and a reaper period,
\* whatever is lost and whoever crashes: the reaper (reap_stale_claims) takes
\* it back.  With it the types of the coordinator and of the runs.
THEOREM ZombiesAreDetected == Spec => []ZombieDetected
<1>1. FedInv => ZombieDetected
  <2> SUFFICES ASSUME FedInv, NEW j \in Jobs, status[j] = "claimed"
               PROVE  contact[j] <= ClaimTimeout + ReaperPeriod
    BY DEF FedInv, ZombieDetected
  <2> QED BY FederationAssumption DEF FedInv, TypeOK, Watched
<1> QED BY <1>1, FedInvariant, PTL

-------------------------------------------------------------------------------
(***************************************************************************)
(* A finished job.                                                         *)
(***************************************************************************)

\* Whatever happens to a finished record except that the coordinator forgets
\* it: nothing.
LEMMA FinishedStep ==
  ASSUME FedInv, [Next]_vars, NEW j \in Jobs, status[j] \in Finished,
         status'[j] # "absent"
  PROVE  status'[j] = status[j] /\ result'[j] = result[j]
<1> USE DEF FedInv, TypeOK
<1>1. CASE UNCHANGED vars
  BY <1>1 DEF vars
<1>2. ASSUME NEW k \in Jobs, Submit(k) PROVE status'[j] = status[j] /\ result'[j] = result[j]
  <2>1. k # j
    BY <1>2 DEF Submit, Known, Finished
  <2>2. status' = [status EXCEPT ![k] = "pending"] \/ status' = status
    BY <1>2 DEF Submit
  <2> QED BY <1>2, <2>1, <2>2 DEF Submit
<1>3. ASSUME NEW w \in Workers, Claim(w) PROVE status'[j] = status[j] /\ result'[j] = result[j]
  <2>1. PICK k \in Jobs : Best(k) /\ status' = [status EXCEPT ![k] = "claimed"]
    BY <1>3 DEF Claim
  <2>2. k # j
    BY <2>1 DEF Best, Finished
  <2> QED BY <1>3, <2>1, <2>2 DEF Claim
<1>4. ASSUME NEW i \in DOMAIN runs, Complete(i) PROVE status'[j] = status[j] /\ result'[j] = result[j]
  <2>1. \/ status' = status /\ result' = result
        \/ /\ status[runs[i].job] \in {"pending", "claimed"}
           /\ status' = [status EXCEPT ![runs[i].job] = runs[i].outcome]
           /\ result' = [result EXCEPT ![runs[i].job] = i]
    BY <1>4 DEF Complete
  <2>2. status[runs[i].job] \in {"pending", "claimed"} => runs[i].job # j
    BY DEF Finished
  <2> QED BY <2>1, <2>2
<1>5. ASSUME Reap PROVE status'[j] = status[j] /\ result'[j] = result[j]
  BY <1>5 DEF Reap, Stale, Finished
<1>6. ASSUME CoordinatorCrash PROVE FALSE
  BY <1>6 DEF CoordinatorCrash
<1>7. ASSUME \/ \E w \in Workers : WorkerCrash(w)
             \/ \E i \in DOMAIN runs : \/ Heartbeat(i) \/ JobEnds(i)
                                       \/ TimesOut(i) \/ EndsUnheard(i)
             \/ Tick
      PROVE  status'[j] = status[j] /\ result'[j] = result[j]
  BY <1>7 DEF WorkerCrash, Heartbeat, JobEnds, TimesOut, EndsUnheard, Tick, recordVars
<1> QED BY <1>1, <1>2, <1>3, <1>4, <1>5, <1>6, <1>7 DEF Next

\* A report is in the record for good: complete() answers a late report of a
\* worker whose claim was taken back without touching the record, and the
\* reaper passes a finished one by.
THEOREM FinishedStays == Spec => FinishedIsFinal
<1>1. FedInv /\ [Next]_vars =>
        [\A j \in Jobs :
           status[j] \in Finished /\ status'[j] # "absent" =>
             status'[j] = status[j] /\ result'[j] = result[j]]_vars
  BY FinishedStep
<1> QED BY <1>1, FedInvariant, PTL DEF Spec, FinishedIsFinal

-------------------------------------------------------------------------------
(***************************************************************************)
(* One worker at a time.                                                   *)
(***************************************************************************)

\* What a run that is alive and fewer than two losses say about its record.
LEMMA HeldFacts ==
  ASSUME FedInv, Held, lost < 2, NEW i \in DOMAIN runs, Live(i)
  PROVE  /\ runs[i].job \in Jobs /\ runs[i].job \in published
         /\ status[runs[i].job] \in {"absent", "claimed"}
         /\ status[runs[i].job] = "claimed" =>
              /\ claimedBy[runs[i].job] = runs[i].worker
              /\ runs[i].misses <= lost
              /\ contact[runs[i].job] <=
                   (IF runs[i].misses = 0 THEN 0 ELSE Round) + runs[i].beat
         /\ runs[i].misses \in Nat /\ runs[i].beat \in Nat
         /\ contact[runs[i].job] \in Nat
<1>1. runs[i] \in Run
  BY RunsChange DEF FedInv, TypeOK
<1>2. Holds(i)
  BY DEF Held
<1>3. runs[i].misses \in Nat /\ runs[i].beat \in Nat
  BY <1>1, RunFields, FederationAssumption DEF Round
<1> QED BY <1>1, <1>2, <1>3, RunFields DEF Holds, FedInv, TypeOK

\* The claim of a run that is alive is not stale: it has missed at most one
\* heartbeat, and the timers leave room for it.
LEMMA NotStale ==
  ASSUME Tolerant, FedInv, Held, lost < 2, NEW i \in DOMAIN runs, Live(i)
  PROVE  runs[i].job \notin Stale
<1>1. runs[i] \in Run
  BY RunsChange DEF FedInv, TypeOK
<1>2. Round \in Nat /\ runs[i].beat \in Nat /\ runs[i].beat <= Round
  BY <1>1, RunFields, FederationAssumption DEF Round
<1>3. ASSUME status[runs[i].job] = "claimed"
      PROVE  contact[runs[i].job] <= ClaimTimeout
  <2>1. contact[runs[i].job] \in Nat
        /\ contact[runs[i].job] <=
             (IF runs[i].misses = 0 THEN 0 ELSE Round) + runs[i].beat
    BY <1>3, HeldFacts
  <2>2. contact[runs[i].job] <= Round + runs[i].beat
    BY <1>2, <2>1
  <2> QED BY <1>2, <2>1, <2>2, FederationAssumption DEF Tolerant
<1>4. contact[runs[i].job] \in Nat
  BY HeldFacts
<1> QED BY <1>3, <1>4, FederationAssumption DEF Stale

\* When neither the records nor a live run change, what it relies on stays.
LEMMA HoldsFramed ==
  ASSUME FedInv, Held, lost \in Nat, lost' \in Nat, lost <= lost', lost' < 2,
         NEW i \in DOMAIN runs, Live(i),
         runs'[i].job = runs[i].job, runs'[i].worker = runs[i].worker,
         runs'[i].misses = runs[i].misses, runs'[i].beat = runs[i].beat,
         runs[i].job \in published',
         status'[runs[i].job] = status[runs[i].job],
         claimedBy'[runs[i].job] = claimedBy[runs[i].job],
         contact'[runs[i].job] = contact[runs[i].job]
  PROVE  Holds(i)'
<1>1. lost < 2
  OBVIOUS
<1>2. Holds(i)
  BY <1>1 DEF Held
<1>3. runs[i].misses \in Nat
  BY <1>1, HeldFacts
<1>4. runs[i].misses <= lost => runs[i].misses <= lost'
  BY <1>3
<1> QED BY <1>2, <1>4 DEF Holds

\* No run comes to life, and none changes its job: one run per job still.
LEMMA OneFramed ==
  ASSUME OneLive, lost \in Nat, lost' \in Nat, lost <= lost',
         DOMAIN runs' = DOMAIN runs,
         \A i \in DOMAIN runs : runs'[i].phase # "over" =>
                                  Live(i) /\ runs'[i].job = runs[i].job
  PROVE  OneLive'
<1> SUFFICES ASSUME lost' < 2, NEW i \in DOMAIN runs, NEW k \in DOMAIN runs, i # k,
                    runs'[i].phase # "over", runs'[k].phase # "over"
             PROVE  runs'[i].job # runs'[k].job
  BY DEF OneLive, Live
<1>1. lost < 2
  OBVIOUS
<1>2. Live(i) /\ Live(k) /\ runs'[i].job = runs[i].job /\ runs'[k].job = runs[k].job
  OBVIOUS
<1> QED BY <1>1, <1>2 DEF OneLive

OneInv == FedInv /\ Held /\ OneLive

\* Losses only grow, and stay a number.
LEMMA LossesGrow ==
  ASSUME FedInv, [Next]_vars
  PROVE  lost \in Nat /\ lost' \in Nat /\ lost <= lost'
<1>1. lost' = lost \/ Loss
  <2>1. CASE UNCHANGED vars
    BY <2>1 DEF vars
  <2>2. CASE \E i \in DOMAIN runs : Complete(i)
    BY <2>2, SMTT(60) DEF Complete
  <2>3. CASE Next /\ ~\E i \in DOMAIN runs : Complete(i)
    BY <2>3 DEF Next, Submit, Claim, WorkerCrash, Heartbeat, JobEnds, TimesOut,
       EndsUnheard, Reap, Tick, CoordinatorCrash
  <2> QED BY <2>1, <2>2, <2>3
<1>2. lost \in 0..MaxLost
  BY DEF FedInv, TypeOK
<1>3. lost' \in 0..MaxLost /\ lost <= lost'
  BY <1>1, <1>2, LossCounted
<1> QED BY <1>2, <1>3, FederationAssumption

\* A job that is submitted has no run yet.
LEMMA SubmitHeld ==
  ASSUME OneInv, NEW j \in Jobs, Submit(j), lost \in Nat, lost' \in Nat, lost <= lost'
  PROVE  Held' /\ OneLive'
<1> USE DEF OneInv
<1>1. /\ runs' = runs /\ claimedBy' = claimedBy /\ contact' = contact
      /\ published' = published \cup {j} /\ j \notin published
      /\ status' = [status EXCEPT ![j] = "pending"] \/ status' = status
  BY DEF Submit
<1>2. ASSUME lost' < 2, NEW i \in DOMAIN runs, Live(i)
      PROVE  Holds(i)'
  <2>1. lost < 2
    BY <1>2
  <2>2. runs[i].job \in Jobs /\ runs[i].job \in published
    BY <1>2, <2>1, HeldFacts
  <2>3. status'[runs[i].job] = status[runs[i].job]
    BY <1>1, <2>2 DEF FedInv, TypeOK
  <2> QED BY <1>1, <1>2, <2>2, <2>3, HoldsFramed
<1>3. Held'
  BY <1>1, <1>2 DEF Held, Live
<1>4. OneLive'
  BY <1>1, OneFramed DEF Live
<1> QED BY <1>3, <1>4

\* A claim is answered for a pending job, which no live run has.
LEMMA ClaimHeld ==
  ASSUME OneInv, NEW w \in Workers, Claim(w), lost \in Nat, lost' \in Nat, lost <= lost'
  PROVE  Held' /\ OneLive'
<1> USE DEF OneInv
<1>1. PICK j \in Jobs :
        /\ Best(j)
        /\ status' = [status EXCEPT ![j] = "claimed"]
        /\ claimedBy' = [claimedBy EXCEPT ![j] = w]
        /\ contact' = [contact EXCEPT ![j] = 0]
        /\ runs' = Append(runs, NewRun(w, j)) \/ runs' = runs
  BY DEF Claim
<1>2. published' = published
  BY DEF Claim
<1> DEFINE n == Len(runs) + 1
<1>3. runs \in Seq(Run) /\ NewRun(w, j) \in Run
  BY NewIsRun DEF FedInv, TypeOK
<1>4. /\ Len(runs) \in Nat /\ DOMAIN runs = 1..Len(runs)
      /\ \A i \in DOMAIN runs : runs'[i] = runs[i] /\ i \in DOMAIN runs'
      /\ \A i \in DOMAIN runs' : i \in DOMAIN runs \/ i = n
      /\ n \notin DOMAIN runs
      /\ n \in DOMAIN runs' => runs'[n] = NewRun(w, j)
  <2>1. Len(runs) \in Nat /\ DOMAIN runs = 1..Len(runs)
    BY <1>3, RunsChange
  <2>2. CASE runs' = runs
    BY <2>1, <2>2
  <2>3. CASE runs' = Append(runs, NewRun(w, j))
    <3>1. /\ DOMAIN runs' = 1..n
          /\ \A i \in DOMAIN runs : runs'[i] = runs[i]
          /\ runs'[n] = NewRun(w, j)
      BY <1>3, <2>3, RunsChange
    <3> QED BY <2>1, <3>1
  <2> QED BY <1>1, <2>2, <2>3
<1> HIDE DEF n
<1>5. ASSUME lost < 2, NEW i \in DOMAIN runs, Live(i)
      PROVE  runs[i].job \in Jobs /\ runs[i].job # j
  <2>1. status[j] = "pending"
    BY <1>1 DEF Best
  <2> QED BY <1>5, <2>1, HeldFacts
<1>6. ASSUME lost' < 2, NEW i \in DOMAIN runs', (Live(i))'
      PROVE  Holds(i)'
  <2>1. lost < 2
    BY <1>6
  <2>2. CASE i \in DOMAIN runs
    <3>1. runs'[i] = runs[i] /\ Live(i)
      BY <1>4, <1>6, <2>2 DEF Live
    <3>2. runs[i].job \in Jobs /\ runs[i].job # j
      BY <1>5, <2>1, <2>2, <3>1
    <3>3. /\ status'[runs[i].job] = status[runs[i].job]
          /\ claimedBy'[runs[i].job] = claimedBy[runs[i].job]
          /\ contact'[runs[i].job] = contact[runs[i].job]
      BY <1>1, <3>2 DEF FedInv, TypeOK
    <3>4. runs[i].job \in published'
      BY <1>2, <2>1, <2>2, <3>1, HeldFacts
    <3> QED BY <1>6, <2>2, <3>1, <3>3, <3>4, HoldsFramed
  <2>3. CASE i = n
    <3>1. runs'[i] = NewRun(w, j)
      BY <1>4, <1>6, <2>3
    <3>2. runs'[i].job = j /\ runs'[i].worker = w /\ runs'[i].misses = 0 /\ runs'[i].beat = 0
      BY <3>1, NewIsRun
    <3>3. status'[j] = "claimed" /\ claimedBy'[j] = w /\ contact'[j] = 0
      BY <1>1 DEF FedInv, TypeOK
    <3>4. j \in published'
      BY <1>1, <1>2 DEF FedInv, Known, Best
    <3> QED BY <3>2, <3>3, <3>4 DEF Holds
  <2> QED BY <1>4, <1>6, <2>2, <2>3
<1>7. Held'
  BY <1>6 DEF Held
<1>8. OneLive'
  <2> SUFFICES ASSUME lost' < 2, NEW i \in DOMAIN runs', NEW k \in DOMAIN runs', i # k,
                      runs'[i].phase # "over", runs'[k].phase # "over"
               PROVE  runs'[i].job # runs'[k].job
    BY DEF OneLive, Live
  <2>1. lost < 2
    OBVIOUS
  <2>2. \A m \in DOMAIN runs : runs'[m].phase # "over" => Live(m) /\ runs'[m].job = runs[m].job
    BY <1>4 DEF Live
  <2>3. CASE i \in DOMAIN runs /\ k \in DOMAIN runs
    BY <2>1, <2>2, <2>3 DEF OneLive
  <2>4. CASE i = n
    <3>1. k \in DOMAIN runs
      BY <1>4, <2>4
    <3>2. runs'[k].job # j
      BY <1>5, <2>1, <2>2, <3>1
    <3>3. runs'[i].job = j
      BY <1>4, <2>4, NewIsRun
    <3> QED BY <3>2, <3>3
  <2>5. CASE k = n
    <3>1. i \in DOMAIN runs
      BY <1>4, <2>5
    <3>2. runs'[i].job # j
      BY <1>5, <2>1, <2>2, <3>1
    <3>3. runs'[k].job = j
      BY <1>4, <2>5, NewIsRun
    <3> QED BY <3>2, <3>3
  <2> QED BY <1>4, <2>3, <2>4, <2>5
<1> QED BY <1>7, <1>8

\* A heartbeat that arrives makes contact and misses start again; one that is
\* lost is a miss and a loss.
LEMMA HeartbeatHeld ==
  ASSUME OneInv, NEW i \in DOMAIN runs, Heartbeat(i), lost \in Nat, lost' \in Nat,
         lost <= lost'
  PROVE  Held' /\ OneLive'
<1> USE DEF OneInv
<1>1. /\ status' = status /\ claimedBy' = claimedBy /\ published' = published
      /\ Beating(i)
      /\ \/ /\ contact' = Refreshed(i)
            /\ runs' = Beaten(i, Accepted(i))
            /\ lost' = lost
         \/ /\ lost' = lost + 1
            /\ contact' \in {contact, Refreshed(i)}
            /\ runs' = Beaten(i, FALSE)
  BY DEF Heartbeat, Loss
<1>2. runs \in Seq(Run) /\ Accepted(i) \in BOOLEAN /\ contact \in [Jobs -> Nat]
  BY DEF FedInv, TypeOK, Accepted
<1>3. contact' = contact \/ contact' = Refreshed(i)
  BY <1>1
<1>4. /\ DOMAIN runs' = DOMAIN runs
      /\ \A k \in DOMAIN runs :
           /\ runs'[k].job = runs[k].job /\ runs'[k].worker = runs[k].worker
           /\ runs'[k].phase = runs[k].phase
      /\ \A k \in DOMAIN runs \ {i} : runs'[k] = runs[k]
      /\ runs'[i].beat = 0
  <2>1. runs' = Beaten(i, Accepted(i)) \/ runs' = Beaten(i, FALSE)
    BY <1>1
  <2> QED BY <1>1, <1>2, <2>1, BeatenRuns
<1>5. Live(i)
  BY <1>1 DEF Beating
<1>6. ASSUME lost' < 2, NEW k \in DOMAIN runs, k # i, Live(k)
      PROVE  Holds(k)'
  <2>1. lost < 2
    BY <1>6
  <2>2. runs[k].job # runs[i].job /\ runs[k].job \in Jobs /\ runs[k].job \in published'
    BY <1>1, <1>5, <1>6, <2>1, HeldFacts DEF OneLive
  <2>3. contact'[runs[k].job] = contact[runs[k].job]
    BY <1>2, <1>3, <2>2 DEF Refreshed
  <2>4. runs'[k] = runs[k]
    BY <1>4, <1>6
  <2> QED BY <1>1, <1>6, <2>2, <2>3, <2>4, HoldsFramed
<1>7. ASSUME lost' < 2
      PROVE  Holds(i)'
  <2>1. lost < 2
    BY <1>7
  <2>2. /\ runs[i].job \in Jobs /\ runs[i].job \in published
        /\ status[runs[i].job] \in {"absent", "claimed"}
    BY <1>5, <2>1, HeldFacts
  <2>3. CASE status[runs[i].job] = "absent"
    BY <1>1, <1>4, <2>2, <2>3 DEF Holds
  <2>4. CASE status[runs[i].job] = "claimed"
    <3>1. /\ claimedBy[runs[i].job] = runs[i].worker
          /\ runs[i].misses \in Nat /\ runs[i].misses <= lost
          /\ runs[i].beat \in Nat /\ contact[runs[i].job] \in Nat
          /\ contact[runs[i].job] <=
               (IF runs[i].misses = 0 THEN 0 ELSE Round) + runs[i].beat
      BY <1>5, <2>1, <2>4, HeldFacts
    <3>2. Accepted(i)
      BY <2>4, <3>1 DEF Accepted
    <3>3. Refreshed(i)[runs[i].job] = 0
      BY <1>2, <2>2, <3>2 DEF Refreshed
    <3>4. Round \in Nat /\ runs[i].beat <= Round
      BY <1>2, RunsChange, RunFields, FederationAssumption, SMTT(60) DEF Round
    <3>5. CASE /\ contact' = Refreshed(i)
               /\ runs' = Beaten(i, Accepted(i))
               /\ lost' = lost
      <4>1. runs'[i].misses = 0
        BY <1>1, <1>2, <3>2, <3>5, BeatenRuns
      <4>2. contact'[runs[i].job] = 0
        BY <3>3, <3>5
      <4> QED BY <1>1, <1>4, <2>2, <3>1, <4>1, <4>2 DEF Holds
    <3>6. CASE /\ lost' = lost + 1
               /\ contact' \in {contact, Refreshed(i)}
               /\ runs' = Beaten(i, FALSE)
      <4>1. runs'[i].misses = runs[i].misses + 1
        BY <1>1, <1>2, <3>6, BeatenRuns
      <4>2. lost = 0 /\ runs[i].misses = 0
        BY <1>7, <3>1, <3>6
      <4>3. contact[runs[i].job] <= Round
        BY <3>1, <3>4, <4>2
      <4>4. contact'[runs[i].job] <= Round
        BY <3>3, <3>4, <3>6, <4>3
      <4>5. runs'[i].misses = 1 /\ lost' = 1
        <5>1. lost' = 1
          BY <3>6, <4>2
        <5>2. runs'[i].misses = 1
          BY <4>1, <4>2
        <5> QED BY <5>1, <5>2
      <4>6. contact'[runs[i].job] <= (IF runs'[i].misses = 0 THEN 0 ELSE Round) + runs'[i].beat
        BY <1>4, <3>4, <4>4, <4>5
      <4> QED BY <1>1, <1>4, <2>2, <3>1, <4>5, <4>6 DEF Holds, Round
    <3> QED BY <1>1, <3>5, <3>6
  <2> QED BY <2>2, <2>3, <2>4
<1>8. Held'
  <2> SUFFICES ASSUME lost' < 2, NEW k \in DOMAIN runs, runs'[k].phase # "over"
               PROVE  Holds(k)'
    BY <1>4 DEF Held, Live
  <2>1. Live(k)
    BY <1>4 DEF Live
  <2> QED BY <1>6, <1>7, <2>1
<1>9. OneLive'
  BY <1>4, OneFramed DEF Live
<1> QED BY <1>8, <1>9

\* The end of a job, or of the waiting for it, leaves its run alive and its
\* record alone.
LEMMA JobEndsHeld ==
  ASSUME OneInv, NEW i \in DOMAIN runs, JobEnds(i) \/ TimesOut(i) \/ EndsUnheard(i),
         lost \in Nat, lost' \in Nat, lost <= lost'
  PROVE  Held' /\ OneLive'
<1> USE DEF OneInv
<1>1. /\ status' = status /\ claimedBy' = claimedBy /\ contact' = contact
      /\ published' = published
  BY DEF JobEnds, TimesOut, EndsUnheard, recordVars
<1>2. /\ DOMAIN runs' = DOMAIN runs
      /\ \A k \in DOMAIN runs :
           /\ runs'[k].job = runs[k].job /\ runs'[k].worker = runs[k].worker
           /\ runs'[k].phase # "over" => Live(k)
           /\ runs'[k].beat = runs[k].beat /\ runs'[k].misses = runs[k].misses
  BY EndedRuns DEF FedInv, TypeOK, Live
<1>3. ASSUME lost' < 2, NEW k \in DOMAIN runs, Live(k)
      PROVE  Holds(k)'
  <2>1. runs[k].job \in published'
    BY <1>1, <1>3, HeldFacts
  <2> QED BY <1>1, <1>2, <1>3, <2>1, HoldsFramed
<1>4. Held'
  BY <1>2, <1>3 DEF Held, Live
<1>5. OneLive'
  BY <1>2, OneFramed
<1> QED BY <1>4, <1>5

\* A report ends its run and touches the record of its job, which no other
\* live run has.
LEMMA CompleteHeld ==
  ASSUME OneInv, NEW i \in DOMAIN runs, Complete(i), lost \in Nat, lost' \in Nat,
         lost <= lost'
  PROVE  Held' /\ OneLive'
<1> USE DEF OneInv
<1>1. /\ claimedBy' = claimedBy /\ published' = published
      /\ \/ /\ status' = [status EXCEPT ![runs[i].job] = runs[i].outcome]
            /\ contact' = [contact EXCEPT ![runs[i].job] = 0]
         \/ status' = status /\ contact' = contact
  BY DEF Complete
<1>2. /\ DOMAIN runs' = DOMAIN runs
      /\ runs'[i].phase = "over" /\ runs'[i].job = runs[i].job
      /\ \A k \in DOMAIN runs \ {i} : runs'[k] = runs[k]
  BY CompletedRuns DEF FedInv, TypeOK
<1>3. Live(i)
  BY DEF Complete, Live
<1>4. ASSUME lost' < 2, NEW k \in DOMAIN runs, k # i, Live(k)
      PROVE  Holds(k)'
  <2>1. lost < 2
    BY <1>4
  <2>2. runs[k].job # runs[i].job /\ runs[k].job \in Jobs /\ runs[k].job \in published'
    BY <1>1, <1>3, <1>4, <2>1, HeldFacts DEF OneLive
  <2>3. status'[runs[k].job] = status[runs[k].job] /\ contact'[runs[k].job] = contact[runs[k].job]
    BY <1>1, <2>2, ZenonT(60) DEF FedInv, TypeOK
  <2>4. runs'[k] = runs[k]
    BY <1>2, <1>4
  <2> QED BY <1>1, <1>4, <2>2, <2>3, <2>4, HoldsFramed
<1>5. Held'
  BY <1>2, <1>4 DEF Held, Live
<1>6. OneLive'
  BY <1>2, OneFramed DEF Live
<1> QED BY <1>5, <1>6

\* The reaper passes the claims of live runs by.
LEMMA ReapHeld ==
  ASSUME Tolerant, OneInv, Reap, lost \in Nat, lost' \in Nat, lost <= lost'
  PROVE  Held' /\ OneLive'
<1> USE DEF OneInv
<1>1. /\ runs' = runs /\ published' = published
      /\ \A j \in Jobs \ Stale : /\ status'[j] = status[j]
                                 /\ claimedBy'[j] = claimedBy[j]
                                 /\ contact'[j] = contact[j]
  BY DEF Reap
<1>2. ASSUME lost' < 2, NEW i \in DOMAIN runs, Live(i)
      PROVE  Holds(i)'
  <2>1. lost < 2
    BY <1>2
  <2>2. runs[i].job \in Jobs \ Stale /\ runs[i].job \in published'
    BY <1>1, <1>2, <2>1, HeldFacts, NotStale
  <2> QED BY <1>1, <1>2, <2>2, HoldsFramed
<1>3. Held'
  BY <1>1, <1>2 DEF Held, Live
<1>4. OneLive'
  BY <1>1, OneFramed DEF Live
<1> QED BY <1>3, <1>4

\* A unit of time ages a claim and its run's heartbeat alike.
LEMMA TickHeld ==
  ASSUME OneInv, Tick, lost \in Nat, lost' \in Nat, lost <= lost'
  PROVE  Held' /\ OneLive'
<1> USE DEF OneInv
<1>1. /\ status' = status /\ claimedBy' = claimedBy /\ published' = published
      /\ lost' = lost
      /\ \A j \in Jobs : status[j] = "claimed" => contact'[j] = contact[j] + 1
  BY DEF Tick
<1>2. /\ DOMAIN runs' = DOMAIN runs
      /\ \A k \in DOMAIN runs :
           /\ runs'[k].job = runs[k].job /\ runs'[k].worker = runs[k].worker
           /\ runs'[k].phase = runs[k].phase
           /\ runs'[k].misses = runs[k].misses
           /\ Beating(k) => runs'[k].beat = runs[k].beat + 1
  BY TickedRuns DEF FedInv, TypeOK
<1>3. ASSUME lost < 2, NEW k \in DOMAIN runs, Live(k)
      PROVE  Holds(k)'
  <2>1. /\ runs[k].job \in Jobs /\ runs[k].job \in published
        /\ status[runs[k].job] \in {"absent", "claimed"}
    BY <1>3, HeldFacts
  <2>2. CASE status[runs[k].job] = "absent"
    BY <1>1, <1>2, <2>1, <2>2 DEF Holds
  <2>3. CASE status[runs[k].job] = "claimed"
    <3>1. /\ claimedBy[runs[k].job] = runs[k].worker
          /\ runs[k].misses \in Nat /\ runs[k].misses <= lost
          /\ runs[k].beat \in Nat /\ contact[runs[k].job] \in Nat
          /\ contact[runs[k].job] <=
               (IF runs[k].misses = 0 THEN 0 ELSE Round) + runs[k].beat
      BY <1>3, <2>3, HeldFacts
    <3>2. Beating(k)
      BY <1>3, <3>1 DEF Beating
    <3>3. runs'[k].beat = runs[k].beat + 1 /\ contact'[runs[k].job] = contact[runs[k].job] + 1
      BY <1>1, <1>2, <2>1, <2>3, <3>2
    <3>4. Round \in Nat
      BY FederationAssumption DEF Round
    <3>5. contact'[runs[k].job] <= (IF runs[k].misses = 0 THEN 0 ELSE Round) + runs'[k].beat
      BY <3>1, <3>3, <3>4
    <3> QED BY <1>1, <1>2, <2>1, <2>3, <3>1, <3>5 DEF Holds, Round
  <2> QED BY <2>1, <2>2, <2>3
<1>4. Held'
  BY <1>1, <1>2, <1>3 DEF Held, Live
<1>5. OneLive'
  BY <1>2, OneFramed DEF Live
<1> QED BY <1>4, <1>5

\* The runs a crash leaves alive are as they were.
LEMMA WorkerCrashHeld ==
  ASSUME OneInv, NEW w \in Workers, WorkerCrash(w), lost \in Nat, lost' \in Nat,
         lost <= lost'
  PROVE  Held' /\ OneLive'
<1> USE DEF OneInv
<1>1. /\ status' = status /\ claimedBy' = claimedBy /\ contact' = contact
      /\ published' = published
  BY DEF WorkerCrash, recordVars
<1>2. /\ DOMAIN runs' = DOMAIN runs
      /\ \A k \in DOMAIN runs : runs'[k].phase # "over" => runs'[k] = runs[k]
  BY CrashedRuns DEF FedInv, TypeOK
<1>3. ASSUME lost' < 2, NEW k \in DOMAIN runs, runs'[k].phase # "over"
      PROVE  Holds(k)'
  <2>1. runs'[k] = runs[k] /\ Live(k)
    BY <1>2, <1>3 DEF Live
  <2>2. runs[k].job \in published'
    BY <1>1, <1>3, <2>1, HeldFacts
  <2> QED BY <1>1, <1>3, <2>1, <2>2, HoldsFramed
<1>4. Held'
  BY <1>2, <1>3 DEF Held, Live
<1>5. OneLive'
  BY <1>2, OneFramed DEF Live
<1> QED BY <1>4, <1>5

\* A new coordinator has no record, and a job is published only once.
LEMMA CoordinatorCrashHeld ==
  ASSUME OneInv, CoordinatorCrash, lost \in Nat, lost' \in Nat, lost <= lost'
  PROVE  Held' /\ OneLive'
<1> USE DEF OneInv
<1>1. /\ runs' = runs /\ published' = published /\ lost' = lost
      /\ \A j \in Jobs : status'[j] = "absent"
  BY DEF CoordinatorCrash
<1>2. ASSUME lost < 2, NEW i \in DOMAIN runs, Live(i)
      PROVE  Holds(i)'
  <2>1. runs[i].job \in Jobs /\ runs[i].job \in published
    BY <1>2, HeldFacts
  <2> QED BY <1>1, <2>1 DEF Holds
<1>3. Held'
  BY <1>1, <1>2 DEF Held, Live
<1>4. OneLive'
  BY <1>1, OneFramed DEF Live
<1> QED BY <1>3, <1>4

\* A settled record stays settled: only a pending job is claimed, and only a
\* claim or a first submission makes one pending.
LEMMA SettledStays ==
  ASSUME FedInv, [Next]_vars, NEW j \in Jobs, Settled(j)
  PROVE  Settled(j)'
<1> USE DEF FedInv, TypeOK
<1>1. j \in published' /\ published' \subseteq Jobs
  <2>1. published \subseteq published'
    <3>1. CASE UNCHANGED vars
      BY <3>1 DEF vars
    <3>2. CASE Next
      BY <3>2 DEF Next, Submit, Claim, WorkerCrash, Heartbeat, JobEnds, TimesOut,
         EndsUnheard, Complete, Reap, Tick, CoordinatorCrash
    <3> QED BY <3>1, <3>2
  <2>2. published' \subseteq Jobs
    <3>1. CASE UNCHANGED vars
      BY <3>1 DEF vars
    <3>2. CASE Next
      BY <3>2 DEF Next, Submit, Claim, WorkerCrash, Heartbeat, JobEnds, TimesOut,
         EndsUnheard, Complete, Reap, Tick, CoordinatorCrash
    <3> QED BY <3>1, <3>2
  <2> QED BY <2>1, <2>2 DEF Settled
<1>2. CASE status[j] \in Finished
  <2>1. CASE status'[j] = "absent"
    BY <1>1, <2>1 DEF Settled
  <2>2. CASE status'[j] # "absent"
    BY <1>1, <1>2, <2>2, FinishedStep DEF Settled
  <2> QED BY <2>1, <2>2
<1>3. CASE status[j] = "absent"
  <2>1. status'[j] = "absent"
    <3>1. CASE UNCHANGED vars
      BY <1>3, <3>1 DEF vars
    <3>2. ASSUME NEW k \in Jobs, Submit(k) PROVE status'[j] = "absent"
      <4>1. k # j
        BY <3>2 DEF Submit, Settled
      <4>2. status' = [status EXCEPT ![k] = "pending"] \/ status' = status
        BY <3>2 DEF Submit
      <4> QED BY <1>3, <4>1, <4>2
    <3>3. ASSUME NEW w \in Workers, Claim(w) PROVE status'[j] = "absent"
      <4>1. PICK k \in Jobs : Best(k) /\ status' = [status EXCEPT ![k] = "claimed"]
        BY <3>3 DEF Claim
      <4>2. k # j
        BY <1>3, <4>1 DEF Best
      <4> QED BY <1>3, <4>1, <4>2
    <3>4. ASSUME NEW i \in DOMAIN runs, Complete(i) PROVE status'[j] = "absent"
      <4>1. \/ status' = status
            \/ /\ status[runs[i].job] \in {"pending", "claimed"}
               /\ status' = [status EXCEPT ![runs[i].job] = runs[i].outcome]
        BY <3>4 DEF Complete
      <4>2. status[runs[i].job] \in {"pending", "claimed"} => runs[i].job # j
        BY <1>3
      <4> QED BY <1>3, <4>1, <4>2
    <3>5. ASSUME Reap PROVE status'[j] = "absent"
      BY <1>3, <3>5 DEF Reap, Stale
    <3>6. ASSUME \/ \E w \in Workers : WorkerCrash(w)
                 \/ \E i \in DOMAIN runs : \/ Heartbeat(i) \/ JobEnds(i)
                                           \/ TimesOut(i) \/ EndsUnheard(i)
                 \/ Tick \/ CoordinatorCrash
          PROVE  status'[j] = "absent"
      BY <1>3, <3>6 DEF WorkerCrash, Heartbeat, JobEnds, TimesOut, EndsUnheard, Tick,
         CoordinatorCrash, recordVars
    <3> QED BY <3>1, <3>2, <3>3, <3>4, <3>5, <3>6 DEF Next
  <2> QED BY <1>1, <2>1 DEF Settled
<1> QED BY <1>2, <1>3 DEF Settled

\* A run keeps its job, starts executing once, and is not waited for again; it
\* is left behind only by its report.
RunsGoOn ==
  \A i \in DOMAIN runs :
    /\ i \in DOMAIN runs' /\ runs'[i].job = runs[i].job
    /\ runs'[i].executing => runs[i].executing
    /\ LeftBehind(i) /\ runs'[i].executing => LeftBehind(i)'
    /\ LeftBehind(i)' => LeftBehind(i) \/ Complete(i)

\* Every step lets the runs go on; only a claim adds one.
LEMMA RunsStep ==
  ASSUME FedInv, [Next]_vars
  PROVE  /\ RunsGoOn
         /\ (\A w \in Workers : ~Claim(w)) => DOMAIN runs' = DOMAIN runs
<1> USE DEF FedInv, TypeOK, LeftBehind, RunsGoOn
<1>1. CASE runs' = runs
  BY <1>1
<1>2. ASSUME NEW w \in Workers, Claim(w) PROVE RunsGoOn
  <2>1. PICK j \in Jobs : runs' = Append(runs, NewRun(w, j)) \/ runs' = runs
    BY <1>2 DEF Claim
  <2>2. CASE runs' = Append(runs, NewRun(w, j))
    <3>1. \A i \in DOMAIN runs : runs'[i] = runs[i] /\ i \in 1..Len(runs)
      BY <2>2, NewIsRun, RunsChange
    <3>2. DOMAIN runs' = 1..(Len(runs) + 1) /\ Len(runs) \in Nat
      BY <2>2, NewIsRun, RunsChange
    <3>3. \A i \in DOMAIN runs : i \in DOMAIN runs'
      BY <3>1, <3>2
    <3> QED BY <3>1, <3>3
  <2> QED BY <1>1, <2>1, <2>2
<1>3. ASSUME NEW w \in Workers, WorkerCrash(w)
      PROVE  RunsGoOn /\ DOMAIN runs' = DOMAIN runs
  <2>1. /\ DOMAIN runs' = DOMAIN runs
        /\ \A k \in DOMAIN runs :
             /\ runs'[k].job = runs[k].job
             /\ runs'[k].executing => runs'[k] = runs[k]
    BY <1>3, CrashedRuns
  <2> QED BY <2>1
<1>4. ASSUME NEW i \in DOMAIN runs, Heartbeat(i)
      PROVE  RunsGoOn /\ DOMAIN runs' = DOMAIN runs
  <2>1. /\ runs' = Beaten(i, Accepted(i)) \/ runs' = Beaten(i, FALSE)
        /\ Beating(i) /\ Accepted(i) \in BOOLEAN
    BY <1>4 DEF Heartbeat, Accepted
  <2>2. /\ DOMAIN runs' = DOMAIN runs
        /\ \A k \in DOMAIN runs :
             /\ runs'[k].job = runs[k].job
             /\ runs'[k].phase = runs[k].phase
             /\ runs'[k].executing = runs[k].executing
    BY <2>1, BeatenRuns
  <2> QED BY <2>2
<1>5. ASSUME NEW i \in DOMAIN runs, JobEnds(i) \/ TimesOut(i) \/ EndsUnheard(i)
      PROVE  RunsGoOn /\ DOMAIN runs' = DOMAIN runs
  <2>1. /\ DOMAIN runs' = DOMAIN runs
        /\ \A k \in DOMAIN runs :
             /\ runs'[k].job = runs[k].job
             /\ runs'[k].phase = "over" <=> runs[k].phase = "over"
             /\ runs'[k].executing => runs[k].executing
    BY <1>5, EndedRuns
  <2> QED BY <2>1
<1>6. ASSUME NEW i \in DOMAIN runs, Complete(i)
      PROVE  RunsGoOn /\ DOMAIN runs' = DOMAIN runs
  <2>1. /\ DOMAIN runs' = DOMAIN runs
        /\ runs'[i].job = runs[i].job /\ runs'[i].executing = runs[i].executing
        /\ runs'[i].phase = "over"
        /\ \A k \in DOMAIN runs \ {i} : runs'[k] = runs[k]
    BY <1>6, CompletedRuns
  <2>2. \A k \in DOMAIN runs :
          /\ runs'[k].job = runs[k].job
          /\ runs'[k].executing = runs[k].executing
          /\ runs[k].phase = "over" => runs'[k].phase = "over"
          /\ runs'[k].phase = "over" => runs[k].phase = "over" \/ Complete(k)
    BY <1>6, <2>1
  <2> QED BY <2>1, <2>2
<1>7. ASSUME Tick PROVE RunsGoOn /\ DOMAIN runs' = DOMAIN runs
  <2>1. /\ DOMAIN runs' = DOMAIN runs
        /\ \A k \in DOMAIN runs :
             /\ runs'[k].job = runs[k].job
             /\ runs'[k].phase = runs[k].phase
             /\ runs'[k].executing = runs[k].executing
    BY <1>7, TickedRuns
  <2> QED BY <2>1
<1>8. CASE UNCHANGED vars \/ Reap \/ CoordinatorCrash \/ \E j \in Jobs : Submit(j)
  BY <1>1, <1>8 DEF vars, Reap, CoordinatorCrash, Submit
<1> HIDE DEF RunsGoOn
<1> QED BY <1>2, <1>3, <1>4, <1>5, <1>6, <1>7, <1>8 DEF Next

\* The report of a run that is left behind while nothing has been lost settled
\* the record, and settled it stays.
LEMMA ReportedStep ==
  ASSUME OneInv, Reported, [Next]_vars
  PROVE  Reported'
<1> USE DEF OneInv
<1> SUFFICES ASSUME lost' = 0, NEW i \in DOMAIN runs', LeftBehind(i)'
             PROVE  /\ runs'[i].job \in published'
                    /\ status'[runs'[i].job] \in Finished \cup {"absent"}
  BY DEF Reported, Settled, LeftBehind
<1>1. lost = 0
  BY LossesGrow
<1>2. ASSUME NEW k \in DOMAIN runs, LeftBehind(k), NEW j \in Jobs, j = runs[k].job
      PROVE  j \in published' /\ status'[j] \in Finished \cup {"absent"}
  <2>1. Settled(j)
    BY <1>1, <1>2 DEF Reported
  <2>2. Settled(j)'
    BY <2>1, SettledStays
  <2> QED BY <2>2 DEF Settled
<1>3. ASSUME NEW k \in DOMAIN runs, Complete(k), NEW j \in Jobs, j = runs[k].job
      PROVE  j \in published' /\ status'[j] \in Finished \cup {"absent"}
  <2>1. Live(k) /\ lost < 2
    BY <1>1, <1>3 DEF Complete, Live
  <2>2. /\ j \in published /\ runs[k].outcome \in Finished
    BY <1>3, <2>1, HeldFacts, RunsChange, RunFields DEF FedInv, TypeOK
  <2>3. ~Loss
    BY <1>1 DEF Loss
  <2>4. /\ published' = published
        /\ \/ status' = [status EXCEPT ![j] = runs[k].outcome]
           \/ status' = status /\ status[j] \in Finished \cup {"absent"}
    BY <1>3, <2>3 DEF Complete
  <2>5. status'[j] \in Finished \cup {"absent"}
    BY <2>2, <2>4 DEF FedInv, TypeOK
  <2> QED BY <2>2, <2>4, <2>5
<1>4. CASE i \in DOMAIN runs
  <2>1. runs'[i].job = runs[i].job /\ (LeftBehind(i) \/ Complete(i))
    BY <1>4, RunsStep DEF RunsGoOn
  <2>2. runs[i].job \in Jobs
    BY <1>4, RunsChange, RunFields DEF FedInv, TypeOK
  <2> QED BY <1>2, <1>3, <1>4, <2>1, <2>2
<1>5. CASE i \notin DOMAIN runs
  <2>1. PICK w \in Workers : Claim(w)
    BY <1>5, RunsStep
  <2>2. PICK j \in Jobs : runs' = Append(runs, NewRun(w, j)) \/ runs' = runs
    BY <2>1 DEF Claim
  <2>3. runs'[i] = NewRun(w, j)
    <3>1. runs' = Append(runs, NewRun(w, j)) /\ NewRun(w, j) \in Run
      BY <1>5, <2>2, NewIsRun
    <3>2. /\ DOMAIN runs' = 1..(Len(runs) + 1) /\ DOMAIN runs = 1..Len(runs)
          /\ Len(runs) \in Nat /\ runs'[Len(runs) + 1] = NewRun(w, j)
      BY <3>1, RunsChange DEF FedInv, TypeOK
    <3> QED BY <1>5, <3>2
  <2> QED BY <2>3 DEF LeftBehind, NewRun
<1> QED BY <1>4, <1>5

\* Two executions of a job that were legitimate remain so.
LEMMA PairsGoOn ==
  ASSUME OneRunPerJob, RunsGoOn, lost \in Nat, lost' \in Nat, lost <= lost', lost' < 2,
         NEW i \in DOMAIN runs, NEW k \in DOMAIN runs, i # k,
         runs'[i].executing, runs'[k].executing, runs'[i].job = runs'[k].job
  PROVE  lost' = 1 /\ (LeftBehind(i)' \/ LeftBehind(k)')
<1>1. runs[i].executing /\ runs[k].executing /\ runs[i].job = runs[k].job /\ lost < 2
  BY DEF RunsGoOn
<1>2. lost = 1 /\ (LeftBehind(i) \/ LeftBehind(k))
  BY <1>1 DEF OneRunPerJob
<1>3. LeftBehind(i)' \/ LeftBehind(k)'
  BY <1>2 DEF RunsGoOn
<1> QED BY <1>2, <1>3

\* A claim is answered for a pending job.  No run that is waited for has it,
\* and one that was given up has it only if its report was lost.
LEMMA ClaimAlone ==
  ASSUME OneInv, Reported, OneRunPerJob, NEW w \in Workers, Claim(w),
         lost \in Nat, lost' \in Nat, lost <= lost'
  PROVE  OneRunPerJob'
<1> USE DEF OneInv
<1>1. PICK j \in Jobs :
        /\ status[j] = "pending"
        /\ runs' = Append(runs, NewRun(w, j)) \/ runs' = runs
  BY DEF Claim, Best
<1>2. RunsGoOn
  BY RunsStep DEF Next
<1> SUFFICES ASSUME lost' < 2, NEW i \in DOMAIN runs', NEW k \in DOMAIN runs', i # k,
                    runs'[i].executing, runs'[k].executing, runs'[i].job = runs'[k].job
             PROVE  lost' = 1 /\ (LeftBehind(i)' \/ LeftBehind(k)')
  BY DEF OneRunPerJob, LeftBehind
<1>3. ASSUME NEW m \in DOMAIN runs', m \notin DOMAIN runs
      PROVE  m = Len(runs) + 1 /\ runs'[m].job = j
  <2>1. runs' = Append(runs, NewRun(w, j)) /\ NewRun(w, j) \in Run
    BY <1>1, <1>3, NewIsRun
  <2>2. /\ DOMAIN runs' = 1..(Len(runs) + 1) /\ DOMAIN runs = 1..Len(runs)
        /\ Len(runs) \in Nat /\ runs'[Len(runs) + 1] = NewRun(w, j)
    BY <2>1, RunsChange DEF FedInv, TypeOK
  <2> QED BY <1>3, <2>2, NewIsRun
<1>4. ASSUME NEW m \in DOMAIN runs, runs'[m].executing, runs'[m].job = j
      PROVE  lost' = 1 /\ LeftBehind(m)'
  <2>1. runs[m].executing /\ runs[m].job = j /\ lost < 2
    BY <1>2, <1>4 DEF RunsGoOn
  <2>2. ~Live(m)
    BY <1>1, <2>1, HeldFacts
  <2>3. LeftBehind(m)
    BY <2>1, <2>2 DEF LeftBehind, Live
  <2>4. lost # 0
    BY <1>1, <2>1, <2>3 DEF Reported, Settled, Finished
  <2>5. LeftBehind(m)'
    BY <1>2, <1>4, <2>3 DEF RunsGoOn
  <2> QED BY <2>4, <2>5
<1>5. CASE i \in DOMAIN runs /\ k \in DOMAIN runs
  BY <1>2, <1>5, PairsGoOn
<1>6. CASE i \in DOMAIN runs /\ k \notin DOMAIN runs
  BY <1>3, <1>4, <1>6
<1>7. CASE i \notin DOMAIN runs /\ k \in DOMAIN runs
  BY <1>3, <1>4, <1>7
<1>8. CASE i \notin DOMAIN runs /\ k \notin DOMAIN runs
  BY <1>3, <1>8
<1> QED BY <1>5, <1>6, <1>7, <1>8

\* When the timers leave room for one lost heartbeat, a job is executed by one
\* worker at a time while no message is lost, and by a second one after one
\* loss only beside a run that was given up: _claim_loop hands out a pending
\* job only, and the reaper makes one pending only if its worker is not waiting
\* for it any more, whichever worker or coordinator has crashed.  What makes
\* the one loss matter is that the execution timeout does not cancel the job.
THEOREM OneWorkerAtATime ==
  ASSUME Tolerant
  PROVE  Spec => []OneRunPerJob
<1> DEFINE All == Held /\ OneLive /\ Reported /\ OneRunPerJob
<1>1. Init => All
  BY DEF Init, Held, OneLive, Reported, OneRunPerJob
<1>2. All /\ FedInv /\ FedInv' /\ [Next]_vars => All'
  <2> SUFFICES ASSUME Held, OneLive, Reported, OneRunPerJob, FedInv, [Next]_vars
               PROVE  All'
    OBVIOUS
  <2>1. OneInv
    BY DEF OneInv
  <2>2. lost \in Nat /\ lost' \in Nat /\ lost <= lost'
    BY LossesGrow
  <2>3. Held' /\ OneLive'
    <3>1. CASE UNCHANGED vars
      BY <3>1 DEF vars, Held, Holds, Live, OneLive
    <3>2. CASE Next
      BY <2>1, <2>2, <3>2, SubmitHeld, ClaimHeld, WorkerCrashHeld, HeartbeatHeld,
         JobEndsHeld, CompleteHeld, ReapHeld, TickHeld, CoordinatorCrashHeld
      DEF Next
    <3> QED BY <3>1, <3>2
  <2>4. Reported'
    BY <2>1, ReportedStep
  <2>5. OneRunPerJob'
    <3>1. CASE \E w \in Workers : Claim(w)
      BY <2>1, <2>2, <3>1, ClaimAlone
    <3>2. CASE \A w \in Workers : ~Claim(w)
      <4>1. RunsGoOn /\ DOMAIN runs' = DOMAIN runs
        BY <3>2, RunsStep
      <4>2. ASSUME lost' < 2, NEW i \in DOMAIN runs, NEW k \in DOMAIN runs, i # k,
                   runs'[i].executing, runs'[k].executing, runs'[i].job = runs'[k].job
            PROVE  lost' = 1 /\ (LeftBehind(i)' \/ LeftBehind(k)')
        BY <2>2, <4>1, <4>2, PairsGoOn
      <4> QED BY <4>1, <4>2 DEF OneRunPerJob, LeftBehind
    <3> QED BY <3>1, <3>2
  <2> QED BY <2>3, <2>4, <2>5
<1>3. Spec => []All
  BY <1>1, <1>2, FedInvariant, PTL DEF Spec
<1> QED BY <1>3, PTL

-------------------------------------------------------------------------------
(***************************************************************************)
(* The nodes: publications (FederatedQueue, run by Swarm).                  *)
(***************************************************************************)

\* How far a publication has come, and what it has left behind: every URL not
\* yet tried may still add one copy, an answer never heard is a loss, and
\* nothing is left behind before the URLs are fixed.
Publication(j) ==
  /\ copies[j] + Len(posting[j].todo) <= Len(Coordinators)
  /\ unheard[j] <= lost
  /\ local[j] = "none" => posting[j].phase = "none"
  /\ posting[j].phase \in {"none", "task"} =>
       posting[j].todo = <<>> /\ copies[j] = 0 /\ unheard[j] = 0
  /\ posting[j].phase \in {"task", "posting"} => Federated
  /\ copies[j] = unheard[j] + (IF posting[j].phase = "accepted" THEN 1 ELSE 0)

PublishInv == QueueTypeOK /\ \A j \in Jobs : Publication(j)

\* To a server that sees no certificates, reports that name the node and send
\* the verdict give a node the score its own outcomes amount to.
Reputed ==
  sender = "client" /\ ~ exposed =>
    \A n \in Nodes : score[<<"wid", n>>] = earned[n]

GossipInv == Gossip!TypeOK /\ Reputed

-------------------------------------------------------------------------------
(***************************************************************************)
(* Lemmas about publications.                                               *)
(***************************************************************************)

\* Where the i-th URL to be tried stands in the list, when the sticky one
\* stands at place.
Listed(i, place) == IF i = 1 THEN place ELSE IF i <= place THEN i - 1 ELSE i

\* The order of the URLs is the list with the sticky one moved to the front.
LEMMA OrderListed ==
  ASSUME Federated, sticky \in Urls
  PROVE  /\ UrlOrder \in Seq(Urls) /\ Len(UrlOrder) = Len(Coordinators)
         /\ \E place \in 1..Len(Coordinators) :
              /\ Coordinators[place] = sticky
              /\ \A i \in 1..Len(Coordinators) :
                   UrlOrder[i] = Coordinators[Listed(i, place)]
<1> DEFINE place == CHOOSE m \in DOMAIN Coordinators : Coordinators[m] = sticky
           size == Len(Coordinators)
           before == SubSeq(Coordinators, 1, place - 1)
           after == SubSeq(Coordinators, place + 1, size)
           rest == before \o after
           first == <<sticky>>
<1>1. /\ Coordinators \in Seq(Urls)
      /\ size \in Nat /\ DOMAIN Coordinators = 1..size
  BY FederatedQueueAssumption, LenProperties
<1>2. place \in 1..size /\ Coordinators[place] = sticky
  <2>1. \E m \in DOMAIN Coordinators : Coordinators[m] = sticky
    BY DEF Urls
  <2> QED BY <1>1, <2>1
<1> HIDE DEF place
<1>3. \A i \in 1..size : Coordinators[i] \in Urls
  BY <1>1, ElementOfSeq
<1> HIDE DEF size
<1>4. /\ before \in Seq(Urls) /\ Len(before) = place - 1
      /\ \A i \in 1..(place - 1) : before[i] = Coordinators[i]
  <2>1. \A i \in 1..(place - 1) : Coordinators[i] \in Urls
    BY <1>1, <1>2, <1>3
  <2> DEFINE width == IF 1 <= place - 1 THEN (place - 1) - 1 + 1 ELSE 0
  <2>2. /\ before \in Seq(Urls) /\ Len(before) = width
        /\ \A i \in 1..((place - 1) - 1 + 1) : before[i] = Coordinators[1 + i - 1]
    BY <1>1, <1>2, <2>1, SubSeqProperties
  <2> HIDE DEF before
  <2>3. width = place - 1 /\ (place - 1) - 1 + 1 = place - 1
    BY <1>1, <1>2
  <2>4. \A i \in 1..(place - 1) : 1 + i - 1 = i
    OBVIOUS
  <2> HIDE DEF width
  <2> QED BY <2>2, <2>3, <2>4
<1>5. /\ after \in Seq(Urls) /\ Len(after) = size - place
      /\ \A i \in 1..(size - place) : after[i] = Coordinators[place + i]
  <2>1. \A i \in (place + 1)..size : Coordinators[i] \in Urls
    BY <1>1, <1>2, <1>3
  <2> DEFINE width == IF place + 1 <= size THEN size - (place + 1) + 1 ELSE 0
  <2>2. /\ after \in Seq(Urls) /\ Len(after) = width
        /\ \A i \in 1..(size - (place + 1) + 1) : after[i] = Coordinators[place + 1 + i - 1]
    BY <1>1, <1>2, <2>1, SubSeqProperties
  <2> HIDE DEF after
  <2>3. width = size - place /\ size - (place + 1) + 1 = size - place
    BY <1>1, <1>2
  <2>4. \A i \in 1..(size - place) : place + 1 + i - 1 = place + i
    BY <1>1, <1>2
  <2> HIDE DEF width
  <2> QED BY <2>2, <2>3, <2>4
<1> HIDE DEF before, after
<1>6. /\ rest \in Seq(Urls) /\ Len(rest) = Len(before) + Len(after)
      /\ \A i \in 1..(Len(before) + Len(after)) :
           rest[i] = IF i <= Len(before) THEN before[i] ELSE after[i - Len(before)]
  BY <1>4, <1>5, ConcatProperties
<1>7. UrlOrder = first \o rest
  BY DEF UrlOrder, RemoveAt, before, after, place, size
<1> HIDE DEF rest
<1>8. Len(before) + Len(after) = size - 1 /\ size - 1 \in Nat
  BY <1>1, <1>2, <1>4, <1>5
<1>9. first \in Seq(Urls) /\ Len(first) = 1 /\ first[1] = sticky
  OBVIOUS
<1> HIDE DEF first
<1>10. /\ first \o rest \in Seq(Urls) /\ Len(first \o rest) = Len(first) + Len(rest)
       /\ \A i \in 1..(Len(first) + Len(rest)) :
            (first \o rest)[i] = IF i <= Len(first) THEN first[i] ELSE rest[i - Len(first)]
  BY <1>6, <1>9, ConcatProperties
<1>11. Len(first) + Len(rest) = size
  BY <1>1, <1>6, <1>8, <1>9, SMTT(60)
<1>12. \A i \in 1..size : (first \o rest)[i] = Coordinators[Listed(i, place)]
  <2> SUFFICES ASSUME NEW i \in 1..size
               PROVE  (first \o rest)[i] = Coordinators[Listed(i, place)]
    OBVIOUS
  <2>1. (first \o rest)[i] = IF i <= Len(first) THEN first[i] ELSE rest[i - Len(first)]
    BY <1>10, <1>11
  <2>2. CASE i = 1
    BY <1>2, <1>9, <2>1, <2>2 DEF Listed
  <2>3. CASE i # 1 /\ i <= place
    <3>1. ~ (i <= 1) /\ i - 1 \in 1..(size - 1) /\ i - 1 \in 1..(place - 1) /\ i - 1 <= place - 1
      BY <1>1, <1>2, <2>3
    <3>2. (first \o rest)[i] = rest[i - 1] /\ rest[i - 1] = before[i - 1]
      BY <1>4, <1>6, <1>8, <1>9, <2>1, <3>1
    <3> QED BY <1>4, <2>3, <3>1, <3>2 DEF Listed
  <2>4. CASE i > place
    <3>1. /\ ~ (i <= 1) /\ i - 1 \in 1..(size - 1) /\ ~ (i - 1 <= place - 1) /\ i # 1
          /\ ~ (i <= place)
          /\ (i - 1) - (place - 1) \in 1..(size - place)
          /\ place + ((i - 1) - (place - 1)) = i
      BY <1>1, <1>2, <2>4
    <3>2. /\ (first \o rest)[i] = rest[i - 1]
          /\ rest[i - 1] = after[(i - 1) - (place - 1)]
      BY <1>4, <1>6, <1>8, <1>9, <2>1, <3>1
    <3>3. after[(i - 1) - (place - 1)] = Coordinators[i]
      BY <1>5, <3>1
    <3> QED BY <3>1, <3>2, <3>3 DEF Listed
  <2>5. i = 1 \/ (i # 1 /\ i <= place) \/ i > place
    BY <1>1, <1>2
  <2> QED BY <2>2, <2>3, <2>4, <2>5
<1> QED
  <2>1. UrlOrder \in Seq(Urls) /\ Len(UrlOrder) = size
    BY <1>7, <1>10, <1>11
  <2>2. \A i \in 1..size : UrlOrder[i] = Coordinators[Listed(i, place)]
    BY <1>7, <1>12
  <2> QED BY <1>2, <2>1, <2>2 DEF size

\* A failover tries every URL of the list once, whichever is sticky.
THEOREM FailoverTriesAll ==
  ASSUME Federated, sticky \in Urls
  PROVE  /\ UrlOrder \in Seq(Urls) /\ Len(UrlOrder) = Len(Coordinators)
         /\ UrlOrder[1] = sticky
         /\ \A c \in Urls : \E i \in 1..Len(UrlOrder) : UrlOrder[i] = c
         /\ \A i, k \in 1..Len(UrlOrder) : UrlOrder[i] = UrlOrder[k] => i = k
<1> DEFINE size == Len(Coordinators)
<1>1. PICK place \in 1..size :
        /\ Coordinators[place] = sticky
        /\ \A i \in 1..size : UrlOrder[i] = Coordinators[Listed(i, place)]
  BY OrderListed
<1>2. /\ Coordinators \in Seq(Urls)
      /\ size \in Nat /\ DOMAIN Coordinators = 1..size
      /\ \A m, k \in 1..size : Coordinators[m] = Coordinators[k] => m = k
  BY FederatedQueueAssumption, LenProperties
<1>3. UrlOrder \in Seq(Urls) /\ Len(UrlOrder) = size
  BY OrderListed
<1>4. \A c \in Urls : \E m \in 1..size : Coordinators[m] = c
  BY <1>2 DEF Urls
<1> HIDE DEF size
<1>5. /\ \A i \in 1..size : Listed(i, place) \in 1..size
      /\ \A i, k \in 1..size : Listed(i, place) = Listed(k, place) => i = k
      /\ \A m \in 1..size : \E i \in 1..size : Listed(i, place) = m
  <2>1. place \in 1..size /\ size \in Nat
    BY <1>1, <1>2
  <2>2. \A i \in 1..size : Listed(i, place) \in 1..size
    BY <2>1 DEF Listed
  <2>3. \A i, k \in 1..size : Listed(i, place) = Listed(k, place) => i = k
    BY <2>1 DEF Listed
  <2>4. ASSUME NEW m \in 1..size PROVE \E i \in 1..size : Listed(i, place) = m
    <3> DEFINE i == IF m = place THEN 1 ELSE IF m < place THEN m + 1 ELSE m
    <3>1. i \in 1..size /\ Listed(i, place) = m
      BY <2>1 DEF Listed
    <3> QED BY <3>1
  <2> QED BY <2>2, <2>3, <2>4
<1>6. UrlOrder[1] = sticky
  <2>1. 1 \in 1..size /\ Listed(1, place) = place
    BY <1>1, <1>2 DEF Listed
  <2> QED BY <1>1, <2>1
<1>7. \A c \in Urls : \E i \in 1..size : UrlOrder[i] = c
  BY <1>1, <1>4, <1>5
<1>8. \A i, k \in 1..size : UrlOrder[i] = UrlOrder[k] => i = k
  BY <1>1, <1>2, <1>5, SMTT(60)
<1> QED BY <1>3, <1>6, <1>7, <1>8 DEF size

\* The types of one job's publication.
LEMMA PublicationTypes ==
  ASSUME QueueTypeOK, NEW j \in Jobs
  PROVE  /\ posting[j].phase \in {"none", "task", "posting", "accepted", "refused"}
         /\ posting[j].todo \in Seq(Urls) /\ Len(posting[j].todo) \in Nat
         /\ posting[j] = [phase |-> posting[j].phase, todo |-> posting[j].todo]
         /\ copies[j] \in Nat /\ unheard[j] \in Nat /\ lost \in Nat
         /\ Len(Coordinators) \in Nat /\ MaxLost \in Nat /\ lost <= MaxLost
         /\ local[j] \in {"none", "queued", "running", "done"}
<1>1. posting[j] \in [phase : {"none", "task", "posting", "accepted", "refused"},
                      todo : Seq(Urls)]
  BY DEF QueueTypeOK
<1>2. Len(Coordinators) \in Nat /\ MaxLost \in Nat
  BY FederatedQueueAssumption, LenProperties
<1>3. copies[j] \in 0..Len(Coordinators) /\ unheard[j] \in 0..MaxLost
  BY DEF QueueTypeOK
<1>4. lost \in 0..MaxLost /\ local[j] \in {"none", "queued", "running", "done"}
  BY DEF QueueTypeOK
<1>5. posting[j].todo \in Seq(Urls) /\ Len(posting[j].todo) \in Nat
  BY <1>1, LenProperties
<1>6. /\ posting[j].phase \in {"none", "task", "posting", "accepted", "refused"}
      /\ posting[j] = [phase |-> posting[j].phase, todo |-> posting[j].todo]
  BY <1>1
<1> QED BY <1>2, <1>3, <1>4, <1>5, <1>6

\* A step that concerns one publication, or none, leaves the others as they
\* are: what they rely on is only that losses are never forgotten.
LEMMA OthersGoOn ==
  ASSUME PublishInv, QueueTypeOK', lost <= lost', NEW S \in SUBSET Jobs,
         \A k \in Jobs \ S : /\ posting'[k] = posting[k] /\ copies'[k] = copies[k]
                             /\ unheard'[k] = unheard[k]
                             /\ local'[k] = "none" => local[k] = "none",
         \A k \in S : Publication(k)'
  PROVE  PublishInv'
<1>1. SUFFICES ASSUME NEW k \in Jobs \ S PROVE Publication(k)'
  BY DEF PublishInv
<1>2. Publication(k)
  BY DEF PublishInv
<1>3. lost \in Nat /\ lost' \in Nat /\ unheard[k] \in Nat
  <2>1. QueueTypeOK BY DEF PublishInv
  <2>2. lost \in Nat /\ unheard[k] \in Nat
    BY <2>1, PublicationTypes
  <2>3. lost' \in 0..MaxLost /\ MaxLost \in Nat
    BY FederatedQueueAssumption DEF QueueTypeOK
  <2> QED BY <2>2, <2>3
<1>4. unheard'[k] <= lost'
  BY <1>2, <1>3 DEF Publication
<1> QED BY <1>2, <1>4 DEF Publication, Federated

-------------------------------------------------------------------------------
(***************************************************************************)
(* Steps of the queue.                                                      *)
(***************************************************************************)

\* What does not touch the wire leaves every publication as it is.
LEMMA OffTheWire ==
  ASSUME PublishInv, QueueTypeOK', UNCHANGED wireVars,
         \A k \in Jobs : local'[k] = "none" => local[k] = "none"
  PROVE  PublishInv'
<1>1. lost \in Nat /\ lost <= lost'
  <2>1. lost \in 0..MaxLost /\ MaxLost \in Nat
    BY FederatedQueueAssumption DEF PublishInv, QueueTypeOK
  <2> QED BY <2>1 DEF wireVars
<1>2. \A k \in Jobs \ {} : /\ posting'[k] = posting[k] /\ copies'[k] = copies[k]
                           /\ unheard'[k] = unheard[k]
                           /\ local'[k] = "none" => local[k] = "none"
  BY DEF wireVars
<1>3. {} \in SUBSET Jobs
  OBVIOUS
<1> QED BY <1>1, <1>2, <1>3, OthersGoOn

\* Starting, stopping, the local queue, certificates and outages.
LEMMA LocalSteps ==
  ASSUME PublishInv,
         \/ Start \/ Stop \/ Certificates
         \/ \E j \in Jobs : LocalRuns(j) \/ LocalEnds(j)
         \/ \E c \in Urls : Outage(c) \/ Recovery(c)
  PROVE  PublishInv'
<1>1. UNCHANGED wireVars
  BY DEF Start, Stop, Certificates, LocalRuns, LocalEnds, Outage, Recovery
<1>2. \A k \in Jobs : local'[k] = "none" => local[k] = "none"
  <2>1. local \in [Jobs -> {"none", "queued", "running", "done"}]
    BY DEF PublishInv, QueueTypeOK
  <2>2. CASE local' = local
    BY <2>2
  <2>3. ASSUME NEW j \in Jobs, LocalRuns(j) \/ LocalEnds(j)
        PROVE  \A k \in Jobs : local'[k] = "none" => local[k] = "none"
    BY <2>1, <2>3 DEF LocalRuns, LocalEnds
  <2>4. local' = local \/ \E j \in Jobs : LocalRuns(j) \/ LocalEnds(j)
    BY DEF Start, Stop, Certificates, Outage, Recovery
  <2> QED BY <2>2, <2>3, <2>4
<1>3. QueueTypeOK'
  <2> USE FederatedQueueAssumption DEF PublishInv, QueueTypeOK, wireVars
  <2>1. QueueTypeOK
    OBVIOUS
  <2>2. CASE Start \/ Stop
    BY <2>2 DEF Start, Stop, Configured, Federated
  <2>3. CASE Certificates
    BY <2>3 DEF Certificates
  <2>4. ASSUME NEW j \in Jobs, LocalRuns(j) \/ LocalEnds(j)
        PROVE  QueueTypeOK'
    BY <2>4 DEF LocalRuns, LocalEnds
  <2>5. ASSUME NEW c \in Urls, Outage(c) \/ Recovery(c)
        PROVE  QueueTypeOK'
    BY <2>5 DEF Outage, Recovery
  <2> QED BY <2>2, <2>3, <2>4, <2>5
<1> QED BY <1>1, <1>2, <1>3, OffTheWire

\* One publication changes its record and nothing it has left behind; local
\* queue and losses are as they were.
LEMMA OneRecord ==
  ASSUME PublishInv, NEW j \in Jobs,
         NEW p \in [phase : {"none", "task", "posting", "accepted", "refused"},
                    todo : Seq(Urls)],
         posting' = [posting EXCEPT ![j] = p],
         UNCHANGED <<sticky, reachable, up, copies, unheard, lost, service, failed,
                     certs, outages>>,
         local' \in [Jobs -> {"none", "queued", "running", "done"}],
         \A k \in Jobs \ {j} : local'[k] = local[k],
         Publication(j)'
  PROVE  PublishInv'
<1>1. QueueTypeOK'
  BY DEF PublishInv, QueueTypeOK, Federated
<1>2. lost \in Nat /\ lost <= lost'
  <2>1. lost \in 0..MaxLost /\ MaxLost \in Nat
    BY FederatedQueueAssumption DEF PublishInv, QueueTypeOK
  <2> QED BY <2>1
<1>3. \A k \in Jobs \ {j} : /\ posting'[k] = posting[k] /\ copies'[k] = copies[k]
                            /\ unheard'[k] = unheard[k]
                            /\ local'[k] = "none" => local[k] = "none"
  BY DEF PublishInv, QueueTypeOK
<1>4. {j} \in SUBSET Jobs /\ \A k \in {j} : Publication(k)'
  OBVIOUS
<1> QED BY <1>1, <1>2, <1>3, <1>4, OthersGoOn

LEMMA NodeSubmitStep ==
  ASSUME PublishInv, NEW j \in Jobs, NodeSubmit(j)
  PROVE  PublishInv'
<1> DEFINE p == [phase |-> IF Configured THEN "task" ELSE "refused",
                 todo |-> posting[j].todo]
<1>1. QueueTypeOK /\ Publication(j)
  BY DEF PublishInv
<1>2. /\ posting[j].phase = "none" /\ posting[j].todo = <<>>
      /\ copies[j] = 0 /\ unheard[j] = 0 /\ posting[j].todo \in Seq(Urls)
      /\ Len(Coordinators) \in Nat /\ lost \in Nat
  BY <1>1, PublicationTypes DEF NodeSubmit, Publication
<1>3. /\ p \in [phase : {"none", "task", "posting", "accepted", "refused"}, todo : Seq(Urls)]
      /\ p.phase = IF Configured THEN "task" ELSE "refused"
      /\ p.todo = <<>>
  BY <1>2
<1>4. posting' = [posting EXCEPT ![j] = p]
  <2>1. posting' = [posting EXCEPT ![j] = [posting[j] EXCEPT !.phase = IF Configured THEN "task" ELSE "refused"]]
    BY DEF NodeSubmit
  <2>2. posting[j] = [phase |-> posting[j].phase, todo |-> posting[j].todo]
    BY <1>1, PublicationTypes
  <2>3. [posting[j] EXCEPT !.phase = IF Configured THEN "task" ELSE "refused"] = p
    BY <2>2
  <2> QED BY <2>1, <2>3
<1> HIDE DEF p
<1>5. /\ local' \in [Jobs -> {"none", "queued", "running", "done"}]
      /\ local'[j] = "queued"
      /\ \A k \in Jobs \ {j} : local'[k] = local[k]
  BY <1>1 DEF NodeSubmit, QueueTypeOK
<1>6. posting'[j] = p /\ copies'[j] = 0 /\ unheard'[j] = 0 /\ lost' = lost
  BY <1>1, <1>2, <1>4 DEF NodeSubmit, QueueTypeOK
<1>7. Publication(j)'
  <2>1. p.phase \in {"task", "refused"} /\ (p.phase = "task" => Federated)
    BY <1>3 DEF Configured
  <2>2. Len(p.todo) = 0
    BY <1>3
  <2> QED BY <1>2, <1>3, <1>5, <1>6, <2>1, <2>2 DEF Publication, Federated
<1> QED BY <1>3, <1>4, <1>5, <1>7, OneRecord DEF NodeSubmit

LEMMA TaskStartsStep ==
  ASSUME PublishInv, NEW j \in Jobs, TaskStarts(j)
  PROVE  PublishInv'
<1> DEFINE p == IF certs THEN [phase |-> "posting", todo |-> UrlOrder]
                ELSE [phase |-> "refused", todo |-> <<>>]
<1>1. QueueTypeOK /\ Publication(j)
  BY DEF PublishInv
<1>2. /\ posting[j].phase = "task" /\ Federated
      /\ copies[j] = 0 /\ unheard[j] = 0 /\ local[j] # "none"
      /\ Len(Coordinators) \in Nat /\ lost \in Nat
  BY <1>1, PublicationTypes DEF TaskStarts, Publication
<1>3. UrlOrder \in Seq(Urls) /\ Len(UrlOrder) = Len(Coordinators)
  BY <1>1, <1>2, FailoverTriesAll DEF QueueTypeOK
<1>4. /\ p \in [phase : {"none", "task", "posting", "accepted", "refused"}, todo : Seq(Urls)]
      /\ p.phase \in {"posting", "refused"}
      /\ Len(p.todo) <= Len(Coordinators)
  <2>1. CASE certs
    BY <1>2, <1>3, <2>1
  <2>2. CASE ~ certs
    BY <1>2, <2>2
  <2> QED BY <2>1, <2>2
<1>5. posting' = [posting EXCEPT ![j] = p]
  BY DEF TaskStarts
<1> HIDE DEF p
<1>6. posting'[j] = p /\ copies'[j] = 0 /\ unheard'[j] = 0 /\ lost' = lost
      /\ local'[j] # "none"
  BY <1>1, <1>2, <1>5 DEF TaskStarts, QueueTypeOK
<1>7. Publication(j)'
  <2>1. Len(p.todo) \in Nat
    BY <1>4, LenProperties
  <2> QED BY <1>2, <1>4, <1>6, <2>1 DEF Publication, Federated
<1>8. local' = local /\ local \in [Jobs -> {"none", "queued", "running", "done"}]
  BY <1>1 DEF TaskStarts, QueueTypeOK
<1> QED BY <1>4, <1>5, <1>7, <1>8, OneRecord DEF TaskStarts

LEMMA GiveUpStep ==
  ASSUME PublishInv, NEW j \in Jobs, GiveUp(j)
  PROVE  PublishInv'
<1> DEFINE p == [phase |-> "refused", todo |-> posting[j].todo]
<1>1. QueueTypeOK /\ Publication(j)
  BY DEF PublishInv
<1>2. /\ posting[j].phase = "posting" /\ posting[j].todo \in Seq(Urls)
      /\ copies[j] \in Nat /\ unheard[j] \in Nat /\ local[j] # "none"
  BY <1>1, PublicationTypes DEF GiveUp, Publication
<1>3. /\ p \in [phase : {"none", "task", "posting", "accepted", "refused"}, todo : Seq(Urls)]
      /\ p.phase = "refused" /\ p.todo = posting[j].todo
  BY <1>2
<1>4. posting' = [posting EXCEPT ![j] = p]
  <2>1. posting' = [posting EXCEPT ![j] = [posting[j] EXCEPT !.phase = "refused"]]
    BY DEF GiveUp
  <2>2. posting[j] = [phase |-> posting[j].phase, todo |-> posting[j].todo]
    BY <1>1, PublicationTypes
  <2>3. [posting[j] EXCEPT !.phase = "refused"] = p
    BY <2>2
  <2> QED BY <2>1, <2>3
<1> HIDE DEF p
<1>5. /\ posting'[j] = p /\ copies'[j] = copies[j] /\ unheard'[j] = unheard[j]
      /\ lost' = lost /\ local'[j] # "none"
  BY <1>1, <1>2, <1>4 DEF GiveUp, QueueTypeOK
<1>6. Publication(j)'
  BY <1>1, <1>2, <1>3, <1>5 DEF Publication, Federated
<1>7. local' = local /\ local \in [Jobs -> {"none", "queued", "running", "done"}]
  BY <1>1 DEF GiveUp, QueueTypeOK
<1> QED BY <1>3, <1>4, <1>6, <1>7, OneRecord DEF GiveUp

\* One post: the publication's record is p, it has left n copies of which u
\* are unheard.
LEMMA OnePost ==
  ASSUME PublishInv, NEW j \in Jobs, NEW n \in Nat, NEW u \in Nat,
         NEW p \in [phase : {"none", "task", "posting", "accepted", "refused"},
                    todo : Seq(Urls)],
         p.phase \in {"posting", "accepted"}, Federated, local[j] # "none",
         posting' = [posting EXCEPT ![j] = p],
         copies' = [copies EXCEPT ![j] = n], unheard' = [unheard EXCEPT ![j] = u],
         lost' = lost \/ Loss, u <= lost',
         n + Len(p.todo) <= Len(Coordinators),
         n = u + (IF p.phase = "accepted" THEN 1 ELSE 0),
         sticky' \in Urls, reachable' \in BOOLEAN,
         UNCHANGED <<service, failed, certs, local, up, outages>>
  PROVE  PublishInv'
<1> DEFINE PostRecord == [phase : {"none", "task", "posting", "accepted", "refused"},
                          todo : Seq(Urls)]
<1>1. QueueTypeOK
  BY DEF PublishInv
<1>2. Len(p.todo) \in Nat /\ Len(Coordinators) \in Nat
  BY FederatedQueueAssumption, LenProperties
<1>3. lost' \in 0..MaxLost /\ lost <= lost' /\ u \in 0..MaxLost
  <2>1. lost \in 0..MaxLost /\ MaxLost \in Nat
    BY <1>1, FederatedQueueAssumption DEF QueueTypeOK
  <2> QED BY <2>1 DEF Loss
<1>4. n \in 0..Len(Coordinators)
  BY <1>2
<1>5. QueueTypeOK'
  <2>1. /\ posting' \in [Jobs -> PostRecord]
        /\ copies' \in [Jobs -> 0..Len(Coordinators)]
        /\ unheard' \in [Jobs -> 0..MaxLost]
    BY <1>1, <1>3, <1>4 DEF QueueTypeOK
  <2> QED BY <1>1, <1>3, <2>1 DEF QueueTypeOK, Federated
<1>6. \A k \in Jobs \ {j} : /\ posting'[k] = posting[k] /\ copies'[k] = copies[k]
                            /\ unheard'[k] = unheard[k]
                            /\ local'[k] = "none" => local[k] = "none"
  BY <1>1 DEF QueueTypeOK
<1>7. Publication(j)'
  <2>1. posting'[j] = p /\ copies'[j] = n /\ unheard'[j] = u /\ local'[j] = local[j]
    BY <1>1 DEF QueueTypeOK
  <2> QED BY <2>1 DEF Publication, Federated
<1>8. {j} \in SUBSET Jobs /\ \A k \in {j} : Publication(k)'
  BY <1>7
<1> QED BY <1>3, <1>5, <1>6, <1>8, OthersGoOn

\* A post moves one publication on: to its end, or to the next URL.
LEMMA PostStep ==
  ASSUME PublishInv, NEW j \in Jobs, Post(j)
  PROVE  PublishInv'
<1> DEFINE todo == posting[j].todo
           PostRecord == [phase : {"none", "task", "posting", "accepted", "refused"},
                          todo : Seq(Urls)]
           done == [phase |-> "accepted", todo |-> <<>>]
           next == [phase |-> "posting", todo |-> Tail(todo)]
           n == copies[j]
           u == unheard[j]
<1>1. QueueTypeOK /\ Publication(j) /\ UNCHANGED <<service, failed, certs, local, up, outages>>
  BY DEF PublishInv, Post
<1>2. /\ posting[j].phase = "posting" /\ todo \in Seq(Urls) /\ todo # <<>>
      /\ posting[j] = [phase |-> posting[j].phase, todo |-> todo]
  BY <1>1, PublicationTypes DEF Post
<1>3. n \in Nat /\ u \in Nat /\ lost \in Nat /\ Len(Coordinators) \in Nat
  BY <1>1, PublicationTypes
<1>4. /\ n + Len(todo) <= Len(Coordinators) /\ u <= lost /\ n = u
      /\ Federated /\ local[j] # "none" /\ sticky \in Urls /\ reachable \in BOOLEAN
  BY <1>1, <1>2 DEF Publication, QueueTypeOK
<1>5. /\ Head(todo) \in Urls /\ Tail(todo) \in Seq(Urls)
      /\ Len(Tail(todo)) = Len(todo) - 1 /\ Len(todo) \in Nat /\ Len(todo) >= 1
  <2> HIDE DEF todo
  <2>1. /\ Head(todo) \in Urls /\ Tail(todo) \in Seq(Urls)
        /\ Len(Tail(todo)) = Len(todo) - 1
    BY <1>2, HeadTailProperties
  <2>2. Len(todo) \in Nat /\ Len(todo) # 0
    BY <1>2, LenProperties, EmptySeq
  <2> QED BY <2>1, <2>2
<1>6. /\ done \in PostRecord /\ done.phase = "accepted" /\ Len(done.todo) = 0
      /\ next \in PostRecord /\ next.phase = "posting" /\ Len(next.todo) = Len(todo) - 1
  BY <1>5
<1>7. NextUrl(j) => posting' = [posting EXCEPT ![j] = next]
  <2>1. NextUrl(j) => posting' = [posting EXCEPT ![j] = [posting[j] EXCEPT !.todo = Tail(todo)]]
    BY DEF NextUrl
  <2>2. [posting[j] EXCEPT !.todo = Tail(todo)] = next
    <3> HIDE DEF todo
    <3> QED BY <1>2, SMTT(60)
  <2> QED BY <2>1, <2>2
<1>8. copies = [copies EXCEPT ![j] = n] /\ unheard = [unheard EXCEPT ![j] = u]
  BY <1>1 DEF QueueTypeOK
<1> HIDE DEF todo, done, next, PostRecord
<1>9. /\ n + 1 \in Nat /\ u + 1 \in Nat
      /\ n + 1 + Len(done.todo) <= Len(Coordinators)
      /\ n + Len(next.todo) <= Len(Coordinators)
      /\ n + 1 + Len(next.todo) <= Len(Coordinators)
  <2> DEFINE left == Len(todo)
             size == Len(Coordinators)
             after == Len(next.todo)
             end == Len(done.todo)
  <2> HIDE DEF n, u
  <2>1. /\ n \in Nat /\ left \in Nat /\ left >= 1 /\ size \in Nat /\ n + left <= size
        /\ after = left - 1 /\ end = 0 /\ u \in Nat
    BY <1>3, <1>4, <1>5, <1>6, ZenonT(60)
  <2> HIDE DEF left, size, after, end
  <2>2. /\ n + 1 \in Nat /\ u + 1 \in Nat
        /\ n + 1 + end <= size /\ n + after <= size /\ n + 1 + after <= size
    BY <2>1
  <2> QED BY <2>2 DEF size, after, end
<1>10. /\ n + 1 = u + (IF done.phase = "accepted" THEN 1 ELSE 0)
       /\ n = u + (IF next.phase = "accepted" THEN 1 ELSE 0)
       /\ n + 1 = u + 1 + (IF next.phase = "accepted" THEN 1 ELSE 0)
  <2> HIDE DEF n, u
  <2> QED BY <1>3, <1>4, <1>6
<1>11. CASE Posted(j)
  <2>1. /\ posting' = [posting EXCEPT ![j] = done]
        /\ copies' = [copies EXCEPT ![j] = n + 1] /\ unheard' = [unheard EXCEPT ![j] = u]
        /\ sticky' \in Urls /\ reachable' \in BOOLEAN
    BY <1>5, <1>8, <1>11, Zenon DEF Posted, todo, done
  <2>2. lost' = lost /\ u <= lost'
    BY <1>4, <1>11 DEF Posted
  <2> HIDE DEF n, u
  <2> QED BY <1>1, <1>3, <1>4, <1>6, <1>9, <1>10, <2>1, <2>2, OnePost DEF PostRecord
<1>12. CASE NotPosted(j) /\ UNCHANGED <<copies, unheard>>
  <2>1. /\ posting' = [posting EXCEPT ![j] = next]
        /\ copies' = [copies EXCEPT ![j] = n] /\ unheard' = [unheard EXCEPT ![j] = u]
        /\ sticky' \in Urls /\ reachable' \in BOOLEAN
    BY <1>4, <1>7, <1>8, <1>12 DEF NotPosted
  <2>2. lost' = lost \/ Loss
    BY <1>12 DEF NotPosted
  <2>3. u <= lost'
    BY <1>3, <1>4, <2>2 DEF Loss
  <2> HIDE DEF n, u
  <2> QED BY <1>1, <1>3, <1>4, <1>6, <1>9, <1>10, <2>1, <2>2, <2>3, OnePost DEF PostRecord
<1>13. CASE /\ NotPosted(j) /\ Loss
            /\ copies' = [copies EXCEPT ![j] = n + 1]
            /\ unheard' = [unheard EXCEPT ![j] = u + 1]
  <2>1. /\ posting' = [posting EXCEPT ![j] = next]
        /\ sticky' \in Urls /\ reachable' \in BOOLEAN
    BY <1>4, <1>7, <1>13 DEF NotPosted
  <2>2. u + 1 <= lost'
    BY <1>3, <1>4, <1>13 DEF Loss
  <2> HIDE DEF n, u
  <2> QED BY <1>1, <1>3, <1>4, <1>6, <1>9, <1>10, <1>13, <2>1, <2>2, OnePost DEF PostRecord
<1> QED BY <1>11, <1>12, <1>13 DEF Post, NotPosted

\* A cycle of the gossip may lose a message; the queue does not notice.
LEMMA GossipKeepsQueue ==
  ASSUME PublishInv, UNCHANGED queueVars, lost' = lost \/ (lost < MaxLost /\ lost' = lost + 1)
  PROVE  PublishInv'
<1>1. lost \in Nat /\ MaxLost \in Nat /\ lost \in 0..MaxLost
  BY FederatedQueueAssumption DEF PublishInv, QueueTypeOK
<1>2. lost' \in 0..MaxLost /\ lost <= lost'
  BY <1>1
<1>3. QueueTypeOK'
  BY <1>2 DEF PublishInv, QueueTypeOK, queueVars, Federated
<1>4. \A k \in Jobs \ {} : /\ posting'[k] = posting[k] /\ copies'[k] = copies[k]
                           /\ unheard'[k] = unheard[k]
                           /\ local'[k] = "none" => local[k] = "none"
  BY DEF queueVars
<1>5. {} \in SUBSET Jobs
  OBVIOUS
<1> QED BY <1>2, <1>3, <1>4, <1>5, OthersGoOn

-------------------------------------------------------------------------------
(***************************************************************************)
(* Steps of the gossip (SonaGossip, run by Swarm).                          *)
(***************************************************************************)

\* A reputation and what is added to it stay between 0 and 10.
LEMMA RecordedInRange ==
  ASSUME NEW old \in 0..10, NEW o \in Gossip!Outcomes
  PROVE  Gossip!Recorded(old, o) \in 0..10
<1>1. Gossip!OutcomeWeight(o) \in {3, -6, -3, 0}
  BY DEF Gossip!OutcomeWeight, Gossip!Outcomes
<1>2. old + Gossip!OutcomeWeight(o) \in Int
  BY <1>1
<1> QED BY <1>2 DEF Gossip!Recorded, Gossip!Clamp

\* A node's own weight is its score, or nothing below the floor; merging its
\* patterns keeps the weights in range, lowers none and raises one only for a
\* pattern the node has and a score at the floor or above.
LEMMA MergedWeights ==
  ASSUME Gossip!TypeOK, NEW n \in Nodes
  PROVE  /\ Gossip!Merged(n) \in [Patterns -> 0..10]
         /\ \A p \in Patterns :
              /\ Gossip!Merged(n)[p] >= shared[p]
              /\ Gossip!Merged(n)[p] # shared[p] =>
                   p \in known[n] /\ score[<<"wid", n>>] >= Floor
<1> DEFINE s == score[<<"wid", n>>]
           w == Gossip!Downweight(n)
<1>1. s \in 0..10 /\ Floor \in 1..10
  <2>1. <<"wid", n>> \in Gossip!Identities
    BY DEF Gossip!Identities
  <2> QED BY <2>1, SonaGossipAssumption DEF Gossip!TypeOK
<1>2. w = IF s < Floor THEN 0 ELSE s
  BY DEF Gossip!Downweight, Gossip!Identity
<1> HIDE DEF s, w
<1>3. w \in 0..10 /\ (w > 0 => s >= Floor)
  BY <1>1, <1>2
<1>4. shared \in [Patterns -> 0..10]
  BY DEF Gossip!TypeOK
<1>5. Gossip!Merged(n) =
        [p \in Patterns |-> IF p \in known[n] /\ w > 0 /\ w >= shared[p] THEN w ELSE shared[p]]
  BY DEF Gossip!Merged, Gossip!Exported, w
<1> QED BY <1>3, <1>4, <1>5 DEF s

\* The bounds of the counters are numbers.
LEMMA GossipCounts ==
  ASSUME Gossip!TypeOK
  PROVE  /\ reports \in Nat /\ lost \in Nat /\ restarts \in Nat
         /\ MaxReports \in Nat /\ MaxLost \in Nat /\ MaxRestarts \in Nat
         /\ reports <= MaxReports /\ lost <= MaxLost /\ restarts <= MaxRestarts
BY SonaGossipAssumption, FederatedQueueAssumption DEF Gossip!TypeOK

LEMMA ReportStep ==
  ASSUME GossipInv, NEW n \in Nodes, NEW o \in Gossip!Outcomes, Gossip!Report(n, o)
  PROVE  GossipInv' /\ shared' = shared
<1> DEFINE i == Gossip!Identity(exposed, n, IF sender = "client" THEN n ELSE Unknown)
<1>1. Gossip!TypeOK /\ Reputed
  BY DEF GossipInv
<1>2. i \in Gossip!Identities /\ (sender = "client" /\ ~ exposed => i = <<"wid", n>>)
  BY DEF Gossip!Identity, Gossip!Identities
<1>3. Gossip!Visible(o) \in Gossip!Outcomes /\ (sender = "client" => Gossip!Visible(o) = o)
  BY DEF Gossip!Visible, Gossip!Outcomes
<1>4. /\ score' = [score EXCEPT ![i] = Gossip!Recorded(@, Gossip!Visible(o))]
      /\ earned' = [earned EXCEPT ![n] = Gossip!Recorded(@, o)]
      /\ reports < MaxReports /\ reports' = reports + 1
      /\ UNCHANGED <<sender, exposed, shared, known, phase, lost, restarts>>
  BY DEF Gossip!Report
<1> HIDE DEF i
<1>5. score \in [Gossip!Identities -> 0..10] /\ earned \in [Nodes -> 0..10]
  BY <1>1 DEF Gossip!TypeOK
<1>6. /\ Gossip!Recorded(score[i], Gossip!Visible(o)) \in 0..10
      /\ Gossip!Recorded(earned[n], o) \in 0..10
  BY <1>2, <1>3, <1>5, RecordedInRange
<1>7. /\ score' \in [Gossip!Identities -> 0..10] /\ earned' \in [Nodes -> 0..10]
      /\ score'[i] = Gossip!Recorded(score[i], Gossip!Visible(o))
      /\ earned'[n] = Gossip!Recorded(earned[n], o)
      /\ \A k \in Gossip!Identities : k # i => score'[k] = score[k]
      /\ \A m \in Nodes : m # n => earned'[m] = earned[m]
  BY <1>2, <1>4, <1>5, <1>6
<1>8. Gossip!TypeOK'
  <2>1. reports' \in 0..MaxReports
    BY <1>1, <1>4, GossipCounts
  <2> QED BY <1>1, <1>4, <1>7, <2>1 DEF Gossip!TypeOK
<1>9. Reputed'
  <2> SUFFICES ASSUME sender = "client", ~ exposed, NEW m \in Nodes
               PROVE  score'[<<"wid", m>>] = earned'[m]
    BY <1>4 DEF Reputed
  <2>1. score[<<"wid", m>>] = earned[m] /\ <<"wid", m>> \in Gossip!Identities
    BY <1>1 DEF Reputed, Gossip!Identities
  <2>2. CASE m = n
    BY <1>2, <1>3, <1>7, <2>1, <2>2
  <2>3. CASE m # n
    <3>1. <<"wid", m>> # i
      BY <1>2, <2>3
    <3> QED BY <1>7, <2>1, <2>3, <3>1
  <2> QED BY <2>2, <2>3
<1> QED BY <1>4, <1>8, <1>9 DEF GossipInv

\* Learning and importing only add to what a node knows; posting and reading
\* may lose a message.
LEMMA LearnStep ==
  ASSUME GossipInv, NEW n \in Nodes, Gossip!Learn(n)
  PROVE  GossipInv' /\ shared' = shared
<1>1. known' \in [Nodes -> SUBSET Patterns]
  BY DEF Gossip!Learn, GossipInv, Gossip!TypeOK
<1> QED BY <1>1 DEF Gossip!Learn, GossipInv, Gossip!TypeOK, Reputed

LEMMA GetPatternsStep ==
  ASSUME GossipInv, NEW n \in Nodes, Gossip!GetPatterns(n)
  PROVE  GossipInv' /\ shared' = shared
<1>1. known' \in [Nodes -> SUBSET Patterns]
  <2>1. Gossip!Read(n, Gossip!Global) \in SUBSET Patterns
    BY DEF Gossip!Read, Gossip!Global
  <2>2. known \in [Nodes -> SUBSET Patterns]
    BY DEF GossipInv, Gossip!TypeOK
  <2> QED BY <2>1, <2>2 DEF Gossip!GetPatterns, Gossip!Imported
<1>2. phase' \in [Nodes -> {"idle", "posted"}]
  BY DEF Gossip!GetPatterns, GossipInv, Gossip!TypeOK
<1>3. lost' \in 0..MaxLost
  BY GossipCounts DEF Gossip!GetPatterns, GossipInv
<1> QED BY <1>1, <1>2, <1>3 DEF Gossip!GetPatterns, GossipInv, Gossip!TypeOK, Reputed

LEMMA PostPatternsStep ==
  ASSUME GossipInv, NEW n \in Nodes, Gossip!PostPatterns(n)
  PROVE  GossipInv' /\ shared' \in {shared, Gossip!Merged(n)}
<1>1. shared' \in {shared, Gossip!Merged(n)}
  BY DEF Gossip!PostPatterns
<1>2. shared' \in [Patterns -> 0..10]
  BY <1>1, MergedWeights DEF GossipInv, Gossip!TypeOK
<1>3. phase' \in [Nodes -> {"idle", "posted"}]
  BY DEF Gossip!PostPatterns, GossipInv, Gossip!TypeOK
<1>4. lost' \in 0..MaxLost
  BY GossipCounts DEF Gossip!PostPatterns, GossipInv
<1> QED BY <1>1, <1>2, <1>3, <1>4
        DEF Gossip!PostPatterns, GossipInv, Gossip!TypeOK, Reputed

LEMMA GossipRestartStep ==
  ASSUME GossipInv, Gossip!Restart
  PROVE  GossipInv' /\ restarts' # restarts
<1>1. restarts' \in 0..MaxRestarts /\ restarts' # restarts
  BY GossipCounts DEF Gossip!Restart, GossipInv
<1>2. /\ score' \in [Gossip!Identities -> 0..10] /\ shared' \in [Patterns -> 0..10]
      /\ earned' \in [Nodes -> 0..10]
  BY SonaGossipAssumption DEF Gossip!Restart
<1>3. Reputed'
  BY DEF Gossip!Restart, Reputed, Gossip!Identities
<1> QED BY <1>1, <1>2, <1>3 DEF Gossip!Restart, GossipInv, Gossip!TypeOK

\* What a step of the gossip may do to the weights: nothing, or the merge of
\* one node's patterns; and a loss is counted.
LEMMA GossipStep ==
  ASSUME GossipInv, Gossip!Next
  PROVE  /\ GossipInv'
         /\ lost' = lost \/ (lost < MaxLost /\ lost' = lost + 1)
         /\ restarts' # restarts \/ shared' = shared
              \/ \E n \in Nodes : shared' = Gossip!Merged(n)
<1>1. ASSUME NEW n \in Nodes, NEW o \in Gossip!Outcomes, Gossip!Report(n, o)
      PROVE  GossipInv' /\ shared' = shared /\ lost' = lost
  BY <1>1, ReportStep DEF Gossip!Report
<1>2. ASSUME NEW n \in Nodes, Gossip!Learn(n)
      PROVE  GossipInv' /\ shared' = shared /\ lost' = lost
  BY <1>2, LearnStep DEF Gossip!Learn
<1>3. ASSUME NEW n \in Nodes, Gossip!PostPatterns(n)
      PROVE  /\ GossipInv' /\ shared' \in {shared, Gossip!Merged(n)}
             /\ lost' = lost \/ (lost < MaxLost /\ lost' = lost + 1)
  BY <1>3, PostPatternsStep DEF Gossip!PostPatterns
<1>4. ASSUME NEW n \in Nodes, Gossip!GetPatterns(n)
      PROVE  /\ GossipInv' /\ shared' = shared
             /\ lost' = lost \/ (lost < MaxLost /\ lost' = lost + 1)
  BY <1>4, GetPatternsStep DEF Gossip!GetPatterns
<1>5. ASSUME Gossip!Restart
      PROVE  GossipInv' /\ restarts' # restarts /\ lost' = lost
  BY <1>5, GossipRestartStep DEF Gossip!Restart
<1> QED BY <1>1, <1>2, <1>3, <1>4, <1>5 DEF Gossip!Next, Gossip!Cycle

\* The queue's steps leave the gossip alone, but for the losses they share.
LEMMA QueueKeepsGossip ==
  ASSUME GossipInv, UNCHANGED gossipVars, lost' \in 0..MaxLost
  PROVE  GossipInv' /\ shared' = shared
BY DEF GossipInv, Gossip!TypeOK, Reputed, gossipVars

-------------------------------------------------------------------------------
(***************************************************************************)
(* Theorems about the nodes.                                                *)
(***************************************************************************)

\* Whatever the queue does, its publications are accounted for.
LEMMA QueueStep ==
  ASSUME PublishInv, QueueNext
  PROVE  PublishInv'
BY LocalSteps, NodeSubmitStep, TaskStartsStep, PostStep, GiveUpStep DEF QueueNext

\* Both halves of a node keep their invariants through every step.
LEMMA SwarmInvariant == SwarmSpec => [](PublishInv /\ GossipInv)
<1>1. SwarmInit => PublishInv /\ GossipInv
  <2> SUFFICES ASSUME SwarmInit PROVE PublishInv /\ GossipInv
    OBVIOUS
  <2>1. QueueInit /\ Gossip!Init
    BY DEF SwarmInit
  <2>2. Len(Coordinators) \in Nat /\ MaxLost \in Nat /\ MaxOutages \in Nat
    BY FederatedQueueAssumption, LenProperties
  <2>3. QueueTypeOK
    <3>1. Federated => sticky \in Urls
      <4>1. Federated => Head(Coordinators) \in Urls
        BY FederatedQueueAssumption, HeadTailProperties DEF Federated
      <4> QED BY <2>1, <4>1 DEF QueueInit
    <3>2. Idle \in [phase : {"none", "task", "posting", "accepted", "refused"},
                    todo : Seq(Urls)]
      BY DEF Idle
    <3>3. posting \in [Jobs -> [phase : {"none", "task", "posting", "accepted", "refused"},
                                todo : Seq(Urls)]]
      BY <2>1, <3>2 DEF QueueInit
    <3>4. 0 \in 0..Len(Coordinators) /\ 0 \in 0..MaxLost /\ 0 \in 0..MaxOutages
      BY <2>2
    <3>5. /\ copies \in [Jobs -> 0..Len(Coordinators)] /\ unheard \in [Jobs -> 0..MaxLost]
          /\ lost \in 0..MaxLost /\ outages \in 0..MaxOutages
          /\ local \in [Jobs -> {"none", "queued", "running", "done"}]
      BY <2>1, <3>4 DEF QueueInit
    <3>6. /\ service \in {"new", "started", "stopped"} /\ failed \in BOOLEAN
          /\ certs \in BOOLEAN /\ reachable \in BOOLEAN /\ up \subseteq Urls
      BY <2>1 DEF QueueInit
    <3> QED BY <3>1, <3>3, <3>5, <3>6 DEF QueueTypeOK
  <2>4. \A j \in Jobs : Publication(j)
    <3> TAKE j \in Jobs
    <3>1. /\ posting[j].phase = "none" /\ posting[j].todo = <<>> /\ Len(posting[j].todo) = 0
          /\ copies[j] = 0 /\ unheard[j] = 0 /\ lost = 0
      BY <2>1 DEF QueueInit, Idle
    <3> QED BY <2>2, <3>1 DEF Publication
  <2>5. GossipInv
    <3>1. Default \in 0..10 /\ MaxReports \in Nat /\ MaxRestarts \in Nat
      BY SonaGossipAssumption
    <3>2. Gossip!TypeOK
      BY <2>1, <2>2, <3>1 DEF Gossip!Init, Gossip!TypeOK
    <3>3. Reputed
      BY <2>1 DEF Gossip!Init, Reputed, Gossip!Identities
    <3> QED BY <3>2, <3>3 DEF GossipInv
  <2> QED BY <2>3, <2>4, <2>5 DEF PublishInv
<1>2. PublishInv /\ GossipInv /\ [SwarmNext]_swarmVars => PublishInv' /\ GossipInv'
  <2> SUFFICES ASSUME PublishInv, GossipInv, [SwarmNext]_swarmVars
               PROVE  PublishInv' /\ GossipInv'
    OBVIOUS
  <2>1. CASE Publishing /\ QueueNext
    <3>1. PublishInv'
      BY <2>1, QueueStep
    <3>2. lost' \in 0..MaxLost
      BY <3>1 DEF PublishInv, QueueTypeOK
    <3> QED BY <2>1, <3>1, <3>2, QueueKeepsGossip DEF Publishing
  <2>2. CASE Gossiping /\ Gossip!Next
    <3>1. GossipInv' /\ (lost' = lost \/ (lost < MaxLost /\ lost' = lost + 1))
      BY <2>2, GossipStep
    <3> QED BY <2>2, <3>1, GossipKeepsQueue DEF Gossiping
  <2>3. CASE UNCHANGED swarmVars
    <3>1. UNCHANGED queueVars /\ UNCHANGED gossipVars /\ lost' = lost
      BY <2>3 DEF swarmVars
    <3>2. PublishInv'
      BY <3>1, GossipKeepsQueue
    <3>3. lost' \in 0..MaxLost
      BY <3>2 DEF PublishInv, QueueTypeOK
    <3> QED BY <3>1, <3>2, <3>3, QueueKeepsGossip
  <2> QED BY <2>1, <2>2, <2>3 DEF SwarmNext
<1> QED BY <1>1, <1>2, PTL DEF SwarmSpec

\* However a job's publication fails over between the coordinators, it leaves
\* one copy for the answer the node has heard and one for each answer that
\* was lost, and no more; the sticky URL is always one of the list.
THEOREM OneCopyLeft == SwarmSpec => []OneCopyPerPublication
<1>1. PublishInv => OneCopyPerPublication
  BY DEF PublishInv, Publication, OneCopyPerPublication
<1> QED BY <1>1, SwarmInvariant, PTL

\* A node whose named reports have taken its score below the floor adds no
\* pattern to the global set and raises no weight in it; and no weight falls
\* while the coordinator runs.
THEOREM BadNodesStaySilent == SwarmSpec => BadNodesAddNothing
<1>1. PublishInv /\ GossipInv /\ (PublishInv /\ GossipInv)' /\ [SwarmNext]_swarmVars =>
        [sender = "client" /\ ~ exposed => Gossip!TrustedSources]_(Gossip!vars)
  <2> SUFFICES ASSUME GossipInv, PublishInv, PublishInv', [SwarmNext]_swarmVars,
                      sender = "client", ~ exposed
               PROVE  Gossip!TrustedSources
    OBVIOUS
  <2>1. Gossip!TypeOK /\ Reputed
    BY DEF GossipInv
  <2>2. restarts' # restarts \/ shared' = shared
          \/ \E n \in Nodes : shared' = Gossip!Merged(n)
    <3>1. CASE Publishing /\ QueueNext
      BY <3>1 DEF Publishing, gossipVars
    <3>2. CASE Gossiping /\ Gossip!Next
      BY <3>2, GossipStep
    <3>3. CASE UNCHANGED swarmVars
      BY <3>3 DEF swarmVars, gossipVars
    <3> QED BY <3>1, <3>2, <3>3 DEF SwarmNext
  <2>3. CASE restarts' # restarts
    BY <2>1, <2>3 DEF Gossip!TrustedSources
  <2>4. CASE shared' = shared
    <3>1. \A p \in Patterns : shared[p] \in 0..10
      BY <2>1 DEF Gossip!TypeOK
    <3>2. \A p \in Patterns : shared'[p] >= shared[p] /\ shared'[p] = shared[p]
      BY <2>4, <3>1
    <3> QED BY <2>1, <3>2 DEF Gossip!TrustedSources
  <2>5. ASSUME NEW n \in Nodes, shared' = Gossip!Merged(n)
        PROVE  Gossip!TrustedSources
    <3>1. \A p \in Patterns :
            /\ shared'[p] >= shared[p]
            /\ shared'[p] # shared[p] => p \in known[n] /\ score[<<"wid", n>>] >= Floor
      BY <2>1, <2>5, MergedWeights
    <3>2. score[<<"wid", n>>] = earned[n]
      BY <2>1 DEF Reputed
    <3> QED BY <2>1, <3>1, <3>2 DEF Gossip!TrustedSources
  <2> QED BY <2>2, <2>3, <2>4, <2>5
<1> QED BY <1>1, SwarmInvariant, PTL DEF SwarmSpec, BadNodesAddNothing, Gossip!NamedBadNodesSilenced

===============================================================================
