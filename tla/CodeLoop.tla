------------------------------- MODULE CodeLoop -------------------------------
(***************************************************************************)
(* The verified code specialist, hybrid_orchestrator.py:                    *)
(* _run_code_specialist_verified() with _generate_test_spec() and           *)
(* _mutation_check(), for one request.                                      *)
(*                                                                          *)
(* The generalist writes tests, the specialist N candidates, the sandbox    *)
(* runs every candidate against the tests, all at the same time.  The first *)
(* candidate that passes is broken on purpose and run again: if the tests   *)
(* still pass they are vacuous.  Tests that crash with every candidate, or  *)
(* that are vacuous, are rewritten once; candidates with a defect are       *)
(* repaired in rounds.  A score of 1.0 with "verified" is what the          *)
(* trajectory store learns from.                                            *)
(*                                                                          *)
(* Scores are in units of 1/100.  The definitions named Slip_... are        *)
(* plausible slips in the definition that follows them.                     *)
(***************************************************************************)
EXTENDS Naturals, Sequences

CONSTANTS N,          \* code_candidates
          MaxRepairs  \* max_repair_attempts

ASSUME CodeLoopAssumption == N \in Nat \ {0} /\ MaxRepairs \in Nat

VARIABLES
  config,   \* what is there: an executor, a Wasm module, the static fallback
  pc,       \* where the request is
  attempt,  \* 0, or 1 after the tests were rewritten
  tries,    \* rejected specs in this call of _generate_test_spec()
  tests,    \* the number of the current test spec (0: None)
  specs,    \* how many test specs were accepted so far
  vacuous,  \* history: the specs that let a broken candidate pass
  cands,    \* what the sandbox said of each candidate of the current batch
  rejected, \* the candidates of the batch whose mutant passed
  repaired, \* does the batch come from a repair round?
  round,    \* the repair round (0: the first candidates)
  asked,    \* history: calls of the generalist
  calls,    \* history: calls of the code specialist
  result    \* the OrchestratorResult

specVars == <<tries, tests, specs, asked>>
batchVars == <<cands, rejected, repaired>>
vars == <<config, pc, attempt, specVars, vacuous, batchVars, round, calls, result>>

Configs == [executor : BOOLEAN, wasm : BOOLEAN, static : BOOLEAN]
Verdicts == {"passed", "code_bug", "test_error", "other"}
Routes == {"none", "verified", "unverified", "failed", "sandbox",
           "sandbox_failed", "static_only"}

Result(route, score, cand) ==
  [route |-> route, verified |-> route = "verified", score |-> score, cand |-> cand]

Init ==
  /\ config \in Configs
  /\ pc = "spec"
  /\ attempt = 0 /\ tries = 0 /\ tests = 0 /\ specs = 0
  /\ vacuous = {} /\ cands = <<>> /\ rejected = {} /\ repaired = FALSE
  /\ round = 0 /\ asked = 0 /\ calls = 0
  /\ result = Result("none", 0, 0)

Return(route, score, cand) ==
  /\ pc' = "done"
  /\ result' = Result(route, score, cand)

-----------------------------------------------------------------------------
(* The tests: _generate_test_spec().                                        *)

\* Asserts that refer to the solution: the spec is used.
SpecAccepted ==
  /\ pc = "spec"
  /\ asked' = asked + 1
  /\ specs' = specs + 1
  /\ tests' = specs + 1
  /\ pc' = "generate"
  /\ UNCHANGED <<config, attempt, tries, vacuous, batchVars, round, calls, result>>

\* Without asserts, or with constant ones only: one more try with feedback.
SpecRejected ==
  /\ pc = "spec"
  /\ asked' = asked + 1
  /\ IF tries = 0
     THEN tries' = 1 /\ UNCHANGED <<pc, tests>>
     ELSE tries' = tries /\ tests' = 0 /\ pc' = "plain"
  /\ UNCHANGED <<config, attempt, specs, vacuous, batchVars, round, calls, result>>

GeneralistRaises ==
  /\ pc = "spec"
  /\ asked' = asked + 1
  /\ tests' = 0
  /\ pc' = "plain"
  /\ UNCHANGED <<config, attempt, tries, specs, vacuous, batchVars, round, calls,
                 result>>

-----------------------------------------------------------------------------
(* Without tests: one candidate, unverified.                                *)

SpecialistRaises ==
  /\ pc = "plain"
  /\ calls' = calls + 1
  /\ pc' = "raised"
  /\ UNCHANGED <<config, attempt, specVars, vacuous, batchVars, round, result>>

\* The sandbox fallback follows only if there never was a test spec.
PlainAnswer ==
  /\ pc = "plain"
  /\ calls' = calls + 1
  /\ IF attempt = 0
     THEN pc' = "fallback" /\ UNCHANGED result
     ELSE Return("unverified", 0, 0)
  /\ UNCHANGED <<config, attempt, specVars, vacuous, batchVars, round>>

Sandboxed == config.wasm \/ config.executor

\* _wasmtime_sandbox_fallback(): the code ran without trapping.
FallbackRuns ==
  /\ pc = "fallback" /\ Sandboxed
  /\ Return("sandbox", 65, 0)
  /\ UNCHANGED <<config, attempt, specVars, vacuous, batchVars, round, calls>>

FallbackTraps ==
  /\ pc = "fallback" /\ Sandboxed
  /\ Return("sandbox_failed", 0, 0)
  /\ UNCHANGED <<config, attempt, specVars, vacuous, batchVars, round, calls>>

\* No sandbox: _static_analysis_fallback() where it is allowed.
StaticPasses ==
  /\ pc = "fallback" /\ ~Sandboxed /\ config.static
  /\ Return("static_only", 20, 0)
  /\ UNCHANGED <<config, attempt, specVars, vacuous, batchVars, round, calls>>

NoFallback ==
  /\ pc = "fallback" /\ ~Sandboxed
  /\ Return("unverified", 0, 0)
  /\ UNCHANGED <<config, attempt, specVars, vacuous, batchVars, round, calls>>

-----------------------------------------------------------------------------
(* Candidates: generated together, verified together.                       *)

\* n of the N calls returned text; the others raised.
Generated(n) ==
  /\ n > 0
  /\ calls' = calls + N
  /\ cands' = [i \in 1..n |-> "waiting"]
  /\ rejected' = {}
  /\ pc' = "verify"

Generate(n) ==
  /\ pc = "generate"
  /\ Generated(n)
  /\ repaired' = FALSE
  /\ UNCHANGED <<config, attempt, specVars, vacuous, round, result>>

NothingGenerated ==
  /\ pc = "generate"
  /\ calls' = calls + N
  /\ Return("failed", 0, 0)
  /\ UNCHANGED <<config, attempt, specVars, vacuous, batchVars, round>>

Waiting == {i \in DOMAIN cands : cands[i] = "waiting"}

Slip_Verified(i, v) ==
  /\ i \in Waiting
  /\ v = "other" \/ config.executor
  /\ cands' = [cands EXCEPT ![i] = v]
  /\ pc' = IF pc = "verify" /\ Waiting = {i} /\ i = Len(cands) THEN "judge" ELSE pc
  /\ UNCHANGED <<config, attempt, specVars, vacuous, rejected, repaired, round, calls,
                 result>>

\* The sandbox has run candidate i.  It may still do so when the request has
\* been given up because another verification raised.
Verified(i, v) ==
  /\ i \in Waiting
  /\ v = "other" \/ config.executor
  /\ cands' = [cands EXCEPT ![i] = v]
  /\ pc' = IF pc = "verify" /\ Waiting = {i} THEN "judge" ELSE pc
  /\ UNCHANGED <<config, attempt, specVars, vacuous, rejected, repaired, round, calls,
                 result>>

\* A verifier that raises ends the request: nothing catches it.
VerifierRaises(i) ==
  /\ i \in Waiting
  /\ config.executor
  /\ cands' = [cands EXCEPT ![i] = "other"]
  /\ pc' = "raised"
  /\ UNCHANGED <<config, attempt, specVars, vacuous, rejected, repaired, round, calls,
                 result>>

-----------------------------------------------------------------------------
(* The verdict on a batch.                                                  *)

Passing == {i \in DOMAIN cands : cands[i] = "passed"}
Untried == Passing \ rejected

Foremost(S) == CHOOSE i \in S : \A j \in S : i <= j

\* _mutation_check() of the foremost passing candidate: its mutant fails, or
\* there is none, or the check itself raises.
MutantFails ==
  /\ pc = "judge" /\ Untried # {}
  /\ Return("verified", 100, Foremost(Untried))
  /\ UNCHANGED <<config, attempt, specVars, vacuous, batchVars, round, calls>>

Slip_RetryTests ==
  /\ tries' = 0
  /\ pc' = "spec"
  /\ UNCHANGED attempt

RetryTests ==
  /\ attempt' = 1
  /\ tries' = 0
  /\ pc' = "spec"

Slip_MutantPasses ==
  /\ pc = "judge" /\ Untried # {}
  /\ rejected' = rejected \cup {Foremost(Untried)}
  /\ vacuous' = vacuous \cup {tests}
  /\ IF round = 0 /\ attempt = 0
     THEN RetryTests
     ELSE pc' = "repair" /\ UNCHANGED <<attempt, tries>>
  /\ UNCHANGED <<config, tests, specs, asked, cands, repaired, round, calls, result>>

Slip_MutantAccepted ==
  /\ pc = "judge" /\ Untried # {}
  /\ rejected' = rejected \cup {Foremost(Untried)}
  /\ vacuous' = vacuous \cup {tests}
  /\ IF attempt = 0
     THEN RetryTests /\ UNCHANGED result
     ELSE Return("verified", 100, Foremost(Untried)) /\ UNCHANGED <<attempt, tries>>
  /\ UNCHANGED <<config, tests, specs, asked, cands, repaired, round, calls>>

\* The broken candidate passes as well: the tests are vacuous.  They are
\* rewritten once; a repair round goes on to its next passing candidate.
MutantPasses ==
  /\ pc = "judge" /\ Untried # {}
  /\ rejected' = rejected \cup {Foremost(Untried)}
  /\ vacuous' = vacuous \cup {tests}
  /\ IF round = 0 /\ attempt = 0
     THEN RetryTests
     ELSE /\ pc' = IF round = 0 THEN "repair" ELSE "judge"
          /\ UNCHANGED <<attempt, tries>>
  /\ UNCHANGED <<config, tests, specs, asked, cands, repaired, round, calls, result>>

Slip_TestsCrashed == \E i \in DOMAIN cands : cands[i] = "test_error"

TestsCrashed == \A i \in DOMAIN cands : cands[i] = "test_error"

\* No (other) candidate passes.
NothingPasses ==
  /\ pc = "judge" /\ Untried = {}
  /\ IF round = 0 /\ attempt = 0 /\ TestsCrashed
     THEN RetryTests
     ELSE pc' = "repair" /\ UNCHANGED <<attempt, tries>>
  /\ UNCHANGED <<config, tests, specs, asked, vacuous, batchVars, round, calls, result>>

-----------------------------------------------------------------------------
(* Repair.                                                                  *)

Repairable ==
  /\ round < MaxRepairs
  /\ \E i \in DOMAIN cands : cands[i] = "code_bug"

\* The foremost defect is fed back; the answers replace the batch.
Repair(n) ==
  /\ pc = "repair" /\ Repairable
  /\ round' = round + 1
  /\ Generated(n)
  /\ repaired' = TRUE
  /\ UNCHANGED <<config, attempt, specVars, vacuous, result>>

\* All calls raised: the round is used up, the batch stays.
NothingRepaired ==
  /\ pc = "repair" /\ Repairable
  /\ round' = round + 1
  /\ calls' = calls + N
  /\ UNCHANGED <<config, pc, attempt, specVars, vacuous, batchVars, result>>

\* The first candidate is returned with score 0.
BestEffort ==
  /\ pc = "repair" /\ ~Repairable
  /\ Return("unverified", 0, 1)
  /\ UNCHANGED <<config, attempt, specVars, vacuous, batchVars, round, calls>>

Next ==
  \/ SpecAccepted \/ SpecRejected \/ GeneralistRaises
  \/ SpecialistRaises \/ PlainAnswer
  \/ FallbackRuns \/ FallbackTraps \/ StaticPasses \/ NoFallback
  \/ NothingGenerated \/ \E n \in 1..N : Generate(n)
  \/ \E i \in 1..N : VerifierRaises(i) \/ \E v \in Verdicts : Verified(i, v)
  \/ MutantFails \/ MutantPasses \/ NothingPasses
  \/ NothingRepaired \/ BestEffort \/ \E n \in 1..N : Repair(n)

Spec == Init /\ [][Next]_vars

\* The models and the sandbox answer or time out.
FairSpec == Spec /\ WF_vars(Next)

-----------------------------------------------------------------------------
(* Properties.                                                              *)

Batches == UNION {[1..n -> Verdicts \cup {"waiting"}] : n \in 0..N}

\* Type invariant.
TypeOK ==
  /\ config \in Configs
  /\ pc \in {"spec", "plain", "fallback", "generate", "verify", "judge", "repair",
             "done", "raised"}
  /\ attempt \in 0..1 /\ tries \in 0..1
  /\ specs \in 0..2 /\ tests \in 0..specs /\ vacuous \subseteq 1..specs
  /\ cands \in Batches /\ rejected \subseteq Passing /\ repaired \in BOOLEAN
  /\ round \in 0..MaxRepairs
  /\ asked \in Nat /\ calls \in Nat
  /\ result \in [route : Routes, verified : BOOLEAN, score : {0, 20, 65, 100},
                 cand : 0..N]

\* "The first candidate that passes (ALL_TESTS_PASSED) wins and is returned
\* with score 1.0": the sandbox ran an answer called verified, its mutant did
\* not pass, every passing candidate before it was rejected for its mutant, and
\* an answer of the first candidates rests on tests no mutant ever passed.
VerifiedPassed ==
  pc = "done" /\ result.verified =>
    /\ config.executor
    /\ result.cand \in Untried
    /\ \A i \in Untried : result.cand <= i
    /\ ~repaired => tests \notin vacuous

\* A request ends unverified although a candidate of its last batch passes
\* only if that candidate's mutant passed too, or (first candidates, whose
\* check stops at the first vacuous one) its tests were found vacuous.
GoodCandidateNotLost ==
  pc = "done" /\ ~result.verified /\ result.cand # 0 =>
    IF repaired THEN Untried = {} ELSE Untried # {} => tests \in vacuous

\* "TEST_ERROR = the test spec is broken -> retry once with feedback;
\* ASSERTION_FAILED / IMPORT_ERROR = candidate is wrong -> no retry": tests are
\* given up only if they crash with every candidate or are vacuous, never
\* because the candidates fail them.
RewriteOnlyBadTests ==
  [][attempt' # attempt =>
       \/ \A i \in DOMAIN cands : cands[i] = "test_error"
       \/ tests \in vacuous' /\ Passing # {}]_vars

\* Partial credit is for requests without tests: once there was a spec, an
\* answer is verified or scores 0; 0.65 needs a sandbox, 0.2 the absence of one
\* and the gate.
NoPartialCredit ==
  result.score \notin {0, 100} =>
    /\ specs = 0
    /\ result.score = 65 => Sandboxed
    /\ result.score = 20 => ~Sandboxed /\ config.static

\* A request costs a bounded number of model calls however they turn out.
EffortBounded ==
  /\ asked <= 4
  /\ calls <= N * (2 + MaxRepairs)

\* A request returns or raises, and no verification is left running for ever.
RequestEnds == <>(pc \in {"done", "raised"} /\ Waiting = {})

\* "If the mutated (broken) code still passes the tests, the tests are vacuous":
\* no verified answer rests on such tests.  The code does not ensure it: after
\* the second spec was found vacuous, repair goes on with it.
VerifiedTestsMeaningful == result.verified => tests \notin vacuous
===============================================================================
