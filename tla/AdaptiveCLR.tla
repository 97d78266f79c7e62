------------------------------ MODULE AdaptiveCLR ------------------------------
(***************************************************************************)
(* Claim-level reliability with adaptive compute, src/vibe_clr_async.py:    *)
(* run() samples trajectories from the specialist model in phases, asks an  *)
(* external verifier where there is one, and returns the best answer with a *)
(* score.  A score above the cap of 0.65 is what the rest of the system     *)
(* (routing, cache, trajectory store) trusts.                               *)
(*                                                                         *)
(* One VibeThinkerCLRAsync serves one query after another; the model calls  *)
(* of a phase run concurrently (asyncio.gather) and the load of the queue   *)
(* may move policy.max_k at any moment.  Scores are in units of 1/10000.    *)
(***************************************************************************)
EXTENDS Integers, Sequences, FiniteSets

CONSTANTS
  Answers,                \* answers, up to the comparison of _normalize_numeric
  NoAnswer,               \* no final answer, or no \boxed{} in the trace
  InitialWithVerifier,    \* policy.initial_k_with_verifier
  InitialWithoutVerifier, \* policy.initial_k_without_verifier
  OriginalMaxK,           \* policy.max_k as configured
  K,                      \* k of the static mode
  Passed,                 \* the numbers of verified claims to consider
  ModelFails,             \* whether a call of the model may raise
  MaxRuns                 \* bound: calls of run()

Claims == 5               \* claims[:5] and policy.min_claims: all or nothing
Unscored == -1            \* fewer meaningful claims, or none extracted at all

Cap == 6500               \* self_claim_cap and SELF_CLAIMS_ONLY_CAP
Full == 10000             \* the score 1.0
Scores == 0..Full

VARIABLES
  adaptive,   \* self.adaptive
  maxK,       \* self.policy.max_k
  pc,         \* where run() is
  verifier,   \* verifier is not None
  highRisk,   \* task_type in HIGH_RISK_TASK_TYPES
  kTotal,     \* the budget run() read when it began
  slots,      \* the generation tasks of this run, in order of creation
  refuted,    \* verifier_refuted of phase 1
  verdicts,   \* history: what the verifier said of which answer, in order
  result,     \* the CLRResult returned
  runs        \* calls of run() so far

vars == <<adaptive, maxK, pc, verifier, highRisk, kTotal, slots, refuted,
          verdicts, result, runs>>

Lesser(m, n) == IF m < n THEN m ELSE n

-----------------------------------------------------------------------------
(* Trajectories.                                                            *)

Slot == [state : {"light", "full", "failed", "ok"},
         answer : Answers \cup {NoAnswer}, boxed : Answers \cup {NoAnswer},
         passed : (0..Claims) \cup {Unscored}]

\* A task that has not returned; kind tells which generator it runs.
Pending(kind) == [state |-> kind, answer |-> NoAnswer, boxed |-> NoAnswer,
                  passed |-> Unscored]

Failed == [Pending("full") EXCEPT !.state = "failed"]

\* A trajectory without an answer.  None counts nowhere; the empty string is no
\* answer either, but what its trace boxes still counts for consistency.
Mute(boxed) == [Pending("full") EXCEPT !.state = "ok", !.boxed = boxed]

\* What a generator makes of its model calls; it raises if its first call (or,
\* for a full trajectory, the extraction) does.
Made(passed) ==
  {[state |-> "ok", answer |-> x, boxed |-> y, passed |-> p] :
     x \in Answers, y \in Answers \cup {NoAnswer}, p \in passed}
    \cup {Mute(y) : y \in Answers \cup {NoAnswer}} \cup (IF ModelFails THEN {Failed} ELSE {})

\* _generate_lightweight_trajectory: one model call (and its parse repairs),
\* the answer read from the JSON or from the last \boxed{} of the trace.  In
\* structured mode the trace need not hold a \boxed{}.
LightOutcomes == Made({Unscored})

\* _generate_one_trajectory: reasoning, extraction, one call per claim; a claim
\* call that fails counts as a verdict 0.  The extracted answer and the boxed
\* one come from two model outputs and may differ.
FullOutcomes == Made(Passed \cup {Unscored})

Outcomes(kind) == IF kind = "light" THEN LightOutcomes ELSE FullOutcomes

Running(s)  == {i \in DOMAIN s : s[i].state \in {"light", "full"}}
Produced(s) == {i \in DOMAIN s : s[i].state = "ok"}
Answered(s) == {i \in Produced(s) : s[i].answer # NoAnswer}

\* The answered trajectories whose trace shows a boxed answer.
Boxed(s) == {i \in Answered(s) : s[i].boxed # NoAnswer}

\* _check_answer_agreement
Unanimous(s) ==
  /\ Cardinality(Boxed(s)) >= 2
  /\ \A i, j \in Boxed(s) : s[i].boxed = s[j].boxed

\* _check_answer_consistency of the answer of trajectory i.  It counts the
\* traces whose answer is not None, also those whose answer is empty.
Consistency(s, i) ==
  LET shown    == {j \in Produced(s) : s[j].boxed # NoAnswer}
      agreeing == {j \in shown : s[j].boxed = s[i].answer}
      others   == shown \ agreeing
  IN  IF Cardinality(shown) < 2 THEN "unknown"
      ELSE IF Cardinality(agreeing) >= 2 THEN "agrees"
      ELSE IF Cardinality(others) > Cardinality(agreeing) THEN "contradicted"
      ELSE "unknown"

-----------------------------------------------------------------------------
(* Scores.                                                                  *)

\* _calculate_reliability: any failed claim limits the score to 0.3 of the
\* share that passed; agreement adds 0.05, contradiction takes a quarter; the
\* cap of compute_confidence comes last.
Reliability(passed, consistency) ==
  LET base == IF passed < Claims THEN (passed * 3000) \div Claims ELSE Full
      adjusted == CASE consistency = "agrees"       -> Lesser(base + 500, Cap)
                    [] consistency = "contradicted" -> (base * 3) \div 4
                    [] OTHER -> base
  IN  IF passed = Unscored THEN 0 ELSE Lesser(adjusted, Cap)

\* The score of a trajectory as generated, and after _score_trajectories.
FirstScore(s, i) == Reliability(s[i].passed, "unknown")

\* Mutant: the trajectories are not scored again with the full set.
Slip_NotRescored(s, i) == FirstScore(s, i)

FinalScore(s, i) == Reliability(s[i].passed, Consistency(s, i))

\* max(answered, key=score): the first of the best.
First(I, Score(_)) ==
  CHOOSE i \in I : \A j \in I : Score(j) < Score(i) \/ (Score(j) = Score(i) /\ i <= j)

BestOfFirst(s) == First(Answered(s), LAMBDA i : FirstScore(s, i))
BestOfAll(s)   == First(Answered(s), LAMBDA i : FinalScore(s, i))

\* compute_confidence with a deterministic verification
Blended(det, self) == (det * 7 + self * 3) \div 10

\* Scores of a verifier that confirms: exact checks, cited entailment, uncited.
DetScores == {Full, 8000, 7000}

\* What verify() may say; an exception of the verifier is "raises".
Verdicts == {"confirms", "refutes", "unsupported", "raises"}

-----------------------------------------------------------------------------
(* Results.                                                                 *)

NoResult == [answer |-> NoAnswer, score |-> 0, verified |-> FALSE, status |-> "none",
             method |-> "none", early |-> "none", used |-> 0, max |-> 0]

Result == [answer : Answers \cup {NoAnswer}, score : Scores, verified : BOOLEAN,
           status : {"none", "error", "self_only", "verified", "refuted", "unsupported"},
           method : {"none", "self_claims_only", "verifier"},
           early : {"none", "self_consensus_cap_reached", "deterministic_verifier_passed"},
           used : Nat, max : Nat]

\* _build_no_answer_result
NoAnswerResult(s) ==
  [NoResult EXCEPT !.status = "error", !.method = "self_claims_only",
                   !.used = Cardinality(Produced(s)), !.max = kTotal]

\* _build_final_result of an early exit; what is not verified is capped.
EarlyResult(i, score, confirmed) ==
  [answer |-> slots[i].answer,
   score |-> IF confirmed THEN score ELSE Lesser(score, Cap),
   verified |-> confirmed,
   status |-> IF confirmed THEN "verified" ELSE "self_only",
   method |-> IF confirmed THEN "verifier" ELSE "self_claims_only",
   early |-> IF confirmed THEN "deterministic_verifier_passed"
             ELSE "self_consensus_cap_reached",
   used |-> Cardinality(Produced(slots)), max |-> kTotal]

\* The result after all phases, the verifier having said v with score det.  A
\* verifier that raised leaves the self-claim score and the status self_only.
LateResult(i, v, det) ==
  [answer |-> slots[i].answer,
   score |-> CASE v = "confirms" -> Blended(det, FinalScore(slots, i))
               [] v = "refutes"  -> 0
               [] OTHER -> Lesser(FinalScore(slots, i), Cap),
   verified |-> v = "confirms",
   status |-> CASE v = "confirms" -> "verified" [] v = "refutes" -> "refuted"
                [] v = "unsupported" -> "unsupported" [] OTHER -> "self_only",
   method |-> IF v \in {"raises", "absent"} THEN "self_claims_only" ELSE "verifier",
   early |-> "none",
   used |-> Cardinality(Produced(slots)), max |-> kTotal]

-----------------------------------------------------------------------------
(* The steps of run().                                                      *)

TypeOK ==
  /\ adaptive \in BOOLEAN /\ verifier \in BOOLEAN /\ highRisk \in BOOLEAN
  /\ refuted \in BOOLEAN
  /\ maxK \in 1..OriginalMaxK
  /\ pc \in {"idle", "phase1", "check1", "phase3", "check3", "done", "raised"}
  /\ kTotal \in Nat
  /\ slots \in Seq(Slot)
  /\ verdicts \in Seq([answer : Answers, said : Verdicts])
  /\ result \in Result
  /\ runs \in 0..MaxRuns

Init ==
  /\ adaptive \in BOOLEAN
  /\ maxK = OriginalMaxK
  /\ pc = "idle"
  /\ verifier = FALSE /\ highRisk = FALSE /\ refuted = FALSE
  /\ kTotal = 0
  /\ slots = <<>> /\ verdicts = <<>>
  /\ result = NoResult
  /\ runs = 0

\* adjust_max_k_for_queue_load: above 0.8, above 0.5, below.
AdjustMaxK ==
  /\ adaptive
  /\ \E limit \in {2, 4, OriginalMaxK} : maxK' = Lesser(limit, OriginalMaxK)
  /\ UNCHANGED <<adaptive, pc, verifier, highRisk, kTotal, slots, refuted,
                 verdicts, result, runs>>

Tasks(n, kind) == [i \in 1..n |-> Pending(kind)]

\* run(): the budget is read once; phase 1 starts its tasks.  With a verifier
\* they are lightweight, the static mode always generates k full ones.
Start ==
  /\ pc \in {"idle", "done", "raised"}
  /\ runs < MaxRuns
  /\ runs' = runs + 1
  /\ verifier' \in BOOLEAN
  /\ highRisk' \in BOOLEAN
  /\ IF adaptive
       THEN /\ pc' = "phase1"
            /\ kTotal' = maxK
            /\ slots' = IF verifier' THEN Tasks(InitialWithVerifier, "light")
                                     ELSE Tasks(InitialWithoutVerifier, "full")
       ELSE /\ pc' = "phase3"
            /\ kTotal' = K
            /\ slots' = Tasks(K, "full")
  /\ refuted' = FALSE
  /\ verdicts' = <<>>
  /\ result' = NoResult
  /\ UNCHANGED <<adaptive, maxK>>

\* A generation task returns or raises; the tasks of a phase run concurrently.
Generate(i) ==
  /\ i \in Running(slots)
  /\ \E outcome \in Outcomes(slots[i].state) : slots' = [slots EXCEPT ![i] = outcome]
  /\ UNCHANGED <<adaptive, maxK, pc, verifier, highRisk, kTotal, refuted,
                 verdicts, result, runs>>

\* gather() returns only when every task has.
Gathered == Running(slots) = {}

Finish(r) ==
  /\ result' = r
  /\ pc' = "done"
  /\ UNCHANGED <<adaptive, maxK, verifier, highRisk, kTotal, slots, runs>>

\* All trajectories failed: run() raises RuntimeError, whatever is left of the
\* budget.
AllFailed ==
  /\ pc \in {"phase1", "phase3"}
  /\ Gathered
  /\ Produced(slots) = {}
  /\ pc' = "raised"
  /\ UNCHANGED <<adaptive, maxK, verifier, highRisk, kTotal, slots, refuted,
                 verdicts, result, runs>>

\* Some trajectory returned and none has an answer.
NobodyAnswered ==
  /\ pc \in {"phase1", "phase3"}
  /\ Gathered
  /\ Produced(slots) # {}
  /\ Answered(slots) = {}
  /\ Finish(NoAnswerResult(slots))
  /\ UNCHANGED <<refuted, verdicts>>

\* Mutant: consensus is enough for high-risk tasks too.
Slip_HighRiskMayExit(wasRefuted) == ~wasRefuted

\* early_exit_on_self_consensus is on and so is disable_..._for_high_risk.
MayExitOnConsensus(wasRefuted) == ~wasRefuted /\ ~highRisk

Consensus(wasRefuted) ==
  /\ MayExitOnConsensus(wasRefuted)
  /\ Cardinality(Answered(slots)) >= 2
  /\ FirstScore(slots, BestOfFirst(slots)) > 0
  /\ Unanimous(slots)

\* Mutant: only answered trajectories count against the budget.
Slip_BudgetOfAnswered(wasRefuted) ==
  LET left == kTotal - Cardinality(Answered(slots)) IN
  IF Consensus(wasRefuted)
    THEN Finish(EarlyResult(BestOfFirst(slots), FirstScore(slots, BestOfFirst(slots)), FALSE))
    ELSE /\ pc' = "phase3"
         /\ slots' = IF left > 0 THEN slots \o Tasks(left, "full") ELSE slots
         /\ UNCHANGED <<adaptive, maxK, verifier, highRisk, kTotal, result, runs>>

\* Phases 2 and 3 up to the next await: exit on consensus, or start as many
\* full trajectories as the budget leaves; failed ones do not count against it.
Branch(wasRefuted) ==
  LET left == kTotal - Cardinality(Produced(slots)) IN
  IF Consensus(wasRefuted)
    THEN Finish(EarlyResult(BestOfFirst(slots), FirstScore(slots, BestOfFirst(slots)), FALSE))
    ELSE /\ pc' = "phase3"
         /\ slots' = IF left > 0 THEN slots \o Tasks(left, "full") ELSE slots
         /\ UNCHANGED <<adaptive, maxK, verifier, highRisk, kTotal, result, runs>>

\* Phase 1 without a verifier goes on to the consensus check at once.
Phase1Unverified ==
  /\ pc = "phase1"
  /\ Gathered
  /\ Answered(slots) # {}
  /\ ~verifier
  /\ Branch(FALSE)
  /\ UNCHANGED <<refuted, verdicts>>

\* The await of verifier.verify() in phase 1 and after the last phase.
AskVerifier ==
  /\ pc \in {"phase1", "phase3"}
  /\ Gathered
  /\ Answered(slots) # {}
  /\ verifier
  /\ pc' = IF pc = "phase1" THEN "check1" ELSE "check3"
  /\ UNCHANGED <<adaptive, maxK, verifier, highRisk, kTotal, slots, refuted,
                 verdicts, result, runs>>

Said(i, v) == verdicts' = Append(verdicts, [answer |-> slots[i].answer, said |-> v])

\* Phase 1: confirmed answers are returned; what is refuted may no longer exit
\* on consensus; a verifier that raises counts for nothing.
Phase1Verdict(v) ==
  LET best == BestOfFirst(slots) IN
  /\ pc = "check1"
  /\ Said(best, v)
  /\ refuted' = (v = "refutes")
  /\ IF v = "confirms"
       THEN \E det \in DetScores : Finish(EarlyResult(best, Blended(det, Cap), TRUE))
       ELSE Branch(v = "refutes")

\* After the last phase, no verifier: the best of all, capped.
LastUnverified ==
  /\ pc = "phase3"
  /\ Gathered
  /\ Answered(slots) # {}
  /\ ~verifier
  /\ Finish(LateResult(BestOfAll(slots), "absent", 0))
  /\ UNCHANGED <<refuted, verdicts>>

\* Mutant: the verifier is asked about the best of phase 1 once more.
Slip_VerifyFirstBest(v) ==
  /\ pc = "check3"
  /\ Said(BestOfFirst(slots), v)
  /\ \E det \in DetScores : Finish(LateResult(BestOfAll(slots), v, det))
  /\ UNCHANGED refuted

\* After the last phase: the verifier is asked about the best of all.
LastVerdict(v) ==
  LET best == BestOfAll(slots) IN
  /\ pc = "check3"
  /\ Said(best, v)
  /\ \E det \in DetScores : Finish(LateResult(best, v, det))
  /\ UNCHANGED refuted

Next ==
  \/ AdjustMaxK
  \/ Start
  \/ \E i \in DOMAIN slots : Generate(i)
  \/ AllFailed
  \/ NobodyAnswered
  \/ Phase1Unverified
  \/ AskVerifier
  \/ \E v \in Verdicts : Phase1Verdict(v)
  \/ LastUnverified
  \/ \E v \in Verdicts : LastVerdict(v)

Spec == Init /\ [][Next]_vars

-----------------------------------------------------------------------------
(* Properties.                                                              *)

Done == pc = "done"

\* A result is verified exactly when the verifier confirmed, in this run, the
\* very answer that is returned: a confirmation is never lost by later phases
\* and never carried over to another answer (_run_adaptive 1704-1760, 1842).
VerifiedIffConfirmed ==
  Done => (result.verified <=> \E n \in DOMAIN verdicts :
                                 verdicts[n] = [answer |-> result.answer, said |-> "confirms"])

\* Self-agreement, however many trajectories share it, never scores above the
\* cap ("Trust model (NON-NEGOTIABLE)", _run_adaptive 1642-1646).
OnlyVerifierExceedsCap == Done /\ ~result.verified => result.score <= 6500

\* The last word of the verifier counts: an answer it refuted at the end of the
\* run scores nothing, whatever the self-claims say (1858-1860).
LastRefutationZeroes ==
  Done /\ verdicts # <<>> /\ verdicts[Len(verdicts)].said = "refutes" => result.score = 0

\* The trust model as a whole: only the verifier lifts an answer above what the
\* model may claim for itself, and only this answer, and its refusal stands.
TrustModel == VerifiedIffConfirmed /\ OnlyVerifierExceedsCap /\ LastRefutationZeroes

\* "trajectories_used <= max_trajectories" (CLRResult, 143), also when some
\* trajectories fail and when the load changes between runs.
WithinBudget == TypeOK /\ (Done => result.used <= result.max)

\* Compute is saved only for a reason: a run that returns an answer without
\* having had max_k trajectories was confirmed by the verifier, or is low-risk,
\* unrefuted and all its boxed answers agree; or its last tasks failed.
EarlyExitExcused ==
  Done /\ result.status # "error" /\ Len(slots) < kTotal =>
    \/ result.verified
    \/ /\ ~highRisk
       /\ \A n \in DOMAIN verdicts : verdicts[n].said # "refutes"
       /\ \A i, j \in DOMAIN slots :
            slots[i].answer # NoAnswer /\ slots[j].answer # NoAnswer
              => slots[i].boxed = slots[j].boxed \/ NoAnswer \in {slots[i].boxed, slots[j].boxed}

\* Below full marks consensus decides: an unverified answer that the other
\* traces contradict is never returned over one they agree with whose claims
\* did as well (_score_trajectories, _calculate_reliability).
AgreedBeatsContradicted ==
  Done /\ adaptive /\ result.early = "none" /\ result.status = "self_only" =>
    ~ \E i, j \in Answered(slots) :
        /\ slots[i].answer = result.answer
        /\ \A n \in Answered(slots) : slots[n].answer = result.answer => slots[n].passed <= slots[i].passed
        /\ slots[i].passed \in 0..(Claims - 1) /\ slots[j].passed >= slots[i].passed
        /\ Consistency(slots, i) = "contradicted" /\ Consistency(slots, j) = "agrees"
===============================================================================
