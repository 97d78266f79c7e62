---------------------------- MODULE AnsweringProofs ----------------------------
(***************************************************************************)
(* Theorems about Answering, for all values of its constants.  The first    *)
(* part is about the code loop by itself (CodeLoop and its Spec), for every *)
(* number of candidates and of repair rounds.  The others show that what    *)
(* requests share is not leaked, that what holds of the code loop holds of  *)
(* it as a part of answering, that the orchestrator's answers rest on what  *)
(* was said and verified, and that claim-level reasoning scores and spends  *)
(* as it should.                                                            *)
(***************************************************************************)
EXTENDS Answering, SequenceTheorems, FiniteSetTheorems, WellFoundedInduction, TLAPS

-------------------------------------------------------------------------------
(* The code loop.  The invariants build on each other: types and stages      *)
(* first, then the batch, the effort and the result.                         *)

\* The loops over verify_results stop at the first match: there is one.
LEMMA ForemostExists ==
  ASSUME NEW S \in SUBSET Nat, S # {}
  PROVE  Foremost(S) \in S /\ \A j \in S : Foremost(S) <= j
<1> DEFINE Below == OpToRel(<, Nat)
<1>1. IsWellFoundedOn(Below, Nat)
  BY NatLessThanWellFounded
<1>2. \A k, m \in Nat : <<k, m>> \in Below <=> k < m
  BY DEF OpToRel
<1> HIDE DEF Below
<1>3. PICK m \in S : \A k \in S : <<k, m>> \notin Below
  BY <1>1, WFMin
<1>4. ASSUME NEW k \in S PROVE m <= k
  <2>1. k \in Nat /\ m \in Nat /\ ~ (k < m)
    BY <1>2, <1>3
  <2> QED BY <2>1
<1> QED BY <1>4 DEF Foremost

\* What a batch is.
LEMMA BatchDomain ==
  ASSUME cands \in Batches
  PROVE  /\ DOMAIN cands \in SUBSET (1..N) /\ DOMAIN cands \in SUBSET Nat
         /\ cands \in [DOMAIN cands -> Verdicts \cup {"waiting"}]
         /\ Passing \subseteq DOMAIN cands /\ Untried \subseteq Passing
<1>1. PICK n \in 0..N : cands \in [1..n -> Verdicts \cup {"waiting"}]
  BY DEF Batches
<1>2. DOMAIN cands = 1..n /\ n <= N /\ n \in Nat
  BY <1>1, CodeLoopAssumption
<1> QED BY <1>1, <1>2, CodeLoopAssumption DEF Passing, Untried

LEMMA UntriedForemost ==
  ASSUME cands \in Batches, Untried # {}
  PROVE  /\ Foremost(Untried) \in Untried
         /\ Foremost(Untried) \in Passing
         /\ Foremost(Untried) \in 1..N
         /\ \A j \in Untried : Foremost(Untried) <= j
<1>1. Untried \in SUBSET Nat
  BY BatchDomain
<1>2. Foremost(Untried) \in Untried /\ \A j \in Untried : Foremost(Untried) <= j
  BY <1>1, ForemostExists
<1> QED BY <1>2, BatchDomain

\* The sandbox answers for one candidate: still a batch.
LEMMA BatchAnswered ==
  ASSUME cands \in Batches, NEW i \in DOMAIN cands, NEW v \in Verdicts
  PROVE  /\ [cands EXCEPT ![i] = v] \in Batches
         /\ DOMAIN [cands EXCEPT ![i] = v] = DOMAIN cands
<1>1. PICK n \in 0..N : cands \in [1..n -> Verdicts \cup {"waiting"}]
  BY DEF Batches
<1>2. [cands EXCEPT ![i] = v] \in [1..n -> Verdicts \cup {"waiting"}]
  BY <1>1
<1> QED BY <1>1, <1>2 DEF Batches

LEMMA BatchGenerated ==
  ASSUME NEW n \in 1..N
  PROVE  [i \in 1..n |-> "waiting"] \in Batches
<1>1. [i \in 1..n |-> "waiting"] \in [1..n -> Verdicts \cup {"waiting"}]
  OBVIOUS
<1>2. n \in 0..N
  BY CodeLoopAssumption
<1> QED BY <1>1, <1>2 DEF Batches

-----------------------------------------------------------------------------
(* Types and stages.                                                        *)

\* Which tests are in use where: the n-th attempt uses the n-th spec.
StageInv ==
  /\ pc \in {"spec", "plain", "fallback", "generate"} => round = 0 /\ ~repaired
  /\ pc \in {"spec", "plain"} => specs = attempt
  /\ pc = "fallback" => specs = 0
  /\ repaired => round > 0
  /\ pc \in {"verify", "judge"} /\ round > 0 => repaired
  /\ pc \in {"generate", "verify", "judge", "repair"} =>
       tests = specs /\ specs = attempt + 1

TypeStage == TypeOK /\ StageInv

LEMMA TypeStageInit == Init => TypeStage
<1> SUFFICES ASSUME Init PROVE TypeStage
  OBVIOUS
<1>1. <<>> \in Batches
  <2>1. <<>> \in [1..0 -> Verdicts \cup {"waiting"}]
    OBVIOUS
  <2> QED BY <2>1, CodeLoopAssumption DEF Batches
<1>2. cands \in Batches /\ rejected \subseteq Passing
  BY <1>1 DEF Init
<1>3. StageInv
  BY DEF Init, StageInv
<1>4. result \in [route : Routes, verified : BOOLEAN, score : {0, 20, 65, 100},
                 cand : 0..N]
  BY CodeLoopAssumption DEF Init, Result, Routes
<1>5. /\ pc = "spec" /\ attempt = 0 /\ tries = 0 /\ specs = 0 /\ tests = 0
      /\ vacuous = {} /\ round = 0 /\ asked = 0 /\ calls = 0
      /\ config \in Configs
  BY DEF Init
<1>6. repaired \in BOOLEAN
  BY Zenon DEF Init
<1> QED BY <1>2, <1>3, <1>4, <1>5, <1>6, CodeLoopAssumption DEF TypeStage, TypeOK

LEMMA TypeStageStep == TypeStage /\ [Next]_vars => TypeStage'
<1> SUFFICES ASSUME TypeStage, [Next]_vars PROVE TypeStage'
  OBVIOUS
<1> USE CodeLoopAssumption DEF TypeStage, TypeOK, StageInv
<1>1. CASE SpecAccepted
  BY <1>1 DEF SpecAccepted, batchVars, Passing
<1>2. CASE SpecRejected
  BY <1>2 DEF SpecRejected, batchVars, Passing
<1>3. CASE GeneralistRaises
  BY <1>3 DEF GeneralistRaises, batchVars, Passing
<1>4. CASE SpecialistRaises
  BY <1>4 DEF SpecialistRaises, specVars, batchVars, Passing
<1>5. CASE PlainAnswer
  BY <1>5 DEF PlainAnswer, Return, Result, Routes, specVars, batchVars, Passing
<1>6. CASE FallbackRuns
  BY <1>6 DEF FallbackRuns, Return, Result, Routes, specVars, batchVars, Passing
<1>7. CASE FallbackTraps
  BY <1>7 DEF FallbackTraps, Return, Result, Routes, specVars, batchVars, Passing
<1>8. CASE StaticPasses
  BY <1>8 DEF StaticPasses, Return, Result, Routes, specVars, batchVars, Passing
<1>9. CASE NoFallback
  BY <1>9 DEF NoFallback, Return, Result, Routes, specVars, batchVars, Passing
<1>10. CASE NothingGenerated
  BY <1>10 DEF NothingGenerated, Return, Result, Routes, specVars, batchVars, Passing
<1>11. ASSUME NEW n \in 1..N, Generate(n) PROVE TypeStage'
  <2>1. cands' \in Batches
    BY <1>11, BatchGenerated DEF Generate, Generated
  <2>2. repaired' \in BOOLEAN /\ ~repaired'
    BY <1>11, Zenon DEF Generate
  <2> QED BY <1>11, <2>1, <2>2 DEF Generate, Generated, specVars
<1>12. ASSUME NEW i \in 1..N, NEW v \in Verdicts, Verified(i, v) PROVE TypeStage'
  <2>1. cands' \in Batches /\ DOMAIN cands' = DOMAIN cands
    BY <1>12, BatchAnswered DEF Verified, Waiting
  <2>2. Passing \subseteq Passing'
    BY <1>12, <2>1 DEF Verified, Waiting, Passing
  <2> QED BY <1>12, <2>1, <2>2 DEF Verified, specVars
<1>13. ASSUME NEW i \in 1..N, VerifierRaises(i) PROVE TypeStage'
  <2>1. cands' \in Batches /\ DOMAIN cands' = DOMAIN cands
    BY <1>13, BatchAnswered DEF VerifierRaises, Waiting, Verdicts
  <2>2. Passing \subseteq Passing'
    BY <1>13, <2>1 DEF VerifierRaises, Waiting, Passing
  <2> QED BY <1>13, <2>1, <2>2 DEF VerifierRaises, specVars
<1>14. CASE MutantFails
  <2>1. Foremost(Untried) \in 0..N
    BY <1>14, UntriedForemost DEF MutantFails
  <2> QED BY <1>14, <2>1
          DEF MutantFails, Return, Result, Routes, specVars, batchVars, Passing
<1>15. CASE MutantPasses
  <2>1. Foremost(Untried) \in Passing
    BY <1>15, UntriedForemost DEF MutantPasses
  <2>2. rejected' \subseteq Passing' /\ cands' = cands
    BY <1>15, <2>1 DEF MutantPasses, Passing
  <2>3. CASE round = 0 /\ attempt = 0
    BY <1>15, <2>2, <2>3 DEF MutantPasses, RetryTests
  <2>4. CASE ~ (round = 0 /\ attempt = 0)
    BY <1>15, <2>2, <2>4 DEF MutantPasses
  <2> QED BY <2>3, <2>4
<1>16. CASE NothingPasses
  BY <1>16 DEF NothingPasses, RetryTests, batchVars, Passing
<1>17. CASE NothingRepaired
  BY <1>17 DEF NothingRepaired, Repairable, specVars, batchVars, Passing
<1>18. CASE BestEffort
  BY <1>18 DEF BestEffort, Return, Result, Routes, specVars, batchVars, Passing
<1>19. ASSUME NEW n \in 1..N, Repair(n) PROVE TypeStage'
  <2>1. cands' \in Batches
    BY <1>19, BatchGenerated DEF Repair, Generated
  <2> QED BY <1>19, <2>1 DEF Repair, Repairable, Generated, specVars
<1>20. CASE UNCHANGED vars
  BY <1>20 DEF vars, specVars, batchVars, Passing
<1> QED BY <1>1, <1>2, <1>3, <1>4, <1>5, <1>6, <1>7, <1>8, <1>9, <1>10, <1>11, <1>12,
           <1>13, <1>14, <1>15, <1>16, <1>17, <1>18, <1>19, <1>20, Zenon DEF Next

\* _run_code_specialist_verified() keeps to its types, for every number of
\* candidates and repair rounds.
THEOREM TypeCorrect == Spec => []TypeOK
<1>1. TypeStage => TypeOK
  BY DEF TypeStage
<1> QED BY <1>1, TypeStageInit, TypeStageStep, PTL DEF Spec

-----------------------------------------------------------------------------
(* The batch of candidates.                                                 *)

\* What is known of the batch where: the sandbox is at work only while the
\* request verifies (or has raised); nothing passes without an executor; first
\* candidates are judged by tests not known to be vacuous; repair is reached
\* only with all passing candidates accounted for.
BatchInv ==
  /\ pc \notin {"verify", "raised"} => Waiting = {}
  /\ Passing # {} => config.executor
  /\ pc \in {"generate", "verify", "judge"} /\ ~repaired => tests \notin vacuous
  /\ pc = "repair" =>
       IF repaired THEN Untried = {} ELSE Untried # {} => tests \in vacuous

\* A step that leaves the batch alone leaves what is derived from it alone.
LEMMA BatchKept ==
  ASSUME UNCHANGED <<cands, rejected>>
  PROVE  UNCHANGED <<Waiting, Passing, Untried>>
BY DEF Waiting, Passing, Untried

\* No candidate of a new batch has passed anything yet.
LEMMA NewBatch ==
  ASSUME NEW n \in 1..N, Generated(n)
  PROVE  Passing' = {} /\ pc' = "verify"
BY DEF Generated, Passing

LEMMA BatchInvStep == TypeStage /\ BatchInv /\ [Next]_vars => BatchInv'
<1> SUFFICES ASSUME TypeStage, BatchInv, [Next]_vars PROVE BatchInv'
  OBVIOUS
<1> USE DEF TypeStage, StageInv, BatchInv
<1>1. CASE SpecAccepted
  <2>1. UNCHANGED <<Waiting, Passing, Untried, config, repaired, vacuous>>
    BY <1>1, BatchKept DEF SpecAccepted, batchVars
  <2>2. pc' = "generate" /\ tests' \notin vacuous
    BY <1>1 DEF SpecAccepted, TypeOK
  <2> QED BY <1>1, <2>1, <2>2 DEF SpecAccepted
<1>2. CASE SpecRejected
  BY <1>2, BatchKept DEF SpecRejected, batchVars
<1>3. CASE GeneralistRaises
  BY <1>3, BatchKept DEF GeneralistRaises, batchVars
<1>4. CASE SpecialistRaises
  BY <1>4, BatchKept DEF SpecialistRaises, batchVars
<1>5. CASE PlainAnswer
  BY <1>5, BatchKept DEF PlainAnswer, Return, batchVars
<1>6. CASE FallbackRuns
  BY <1>6, BatchKept DEF FallbackRuns, Return, batchVars
<1>7. CASE FallbackTraps
  BY <1>7, BatchKept DEF FallbackTraps, Return, batchVars
<1>8. CASE StaticPasses
  BY <1>8, BatchKept DEF StaticPasses, Return, batchVars
<1>9. CASE NoFallback
  BY <1>9, BatchKept DEF NoFallback, Return, batchVars
<1>10. CASE NothingGenerated
  BY <1>10, BatchKept DEF NothingGenerated, Return, batchVars
<1>11. ASSUME NEW n \in 1..N, Generate(n) PROVE BatchInv'
  <2>1. Passing' = {} /\ pc' = "verify"
    BY <1>11, NewBatch DEF Generate
  <2>2. tests \notin vacuous /\ UNCHANGED <<tests, vacuous>>
    BY <1>11 DEF Generate, specVars
  <2> QED BY <2>1, <2>2
<1>12. ASSUME NEW i \in 1..N, NEW v \in Verdicts, Verified(i, v) PROVE BatchInv'
  <2>1. /\ cands \in Batches /\ i \in DOMAIN cands /\ cands[i] = "waiting"
        /\ cands' = [cands EXCEPT ![i] = v] /\ DOMAIN cands' = DOMAIN cands
        /\ UNCHANGED <<config, tests, vacuous, repaired, rejected>>
    BY <1>12, BatchAnswered DEF Verified, Waiting, TypeOK, specVars
  <2>2. Waiting' = Waiting \ {i}
    BY <2>1 DEF Waiting, Verdicts
  <2>3. pc \in {"verify", "raised"}
    BY <1>12 DEF Verified
  <2>4. pc' # "generate" /\ pc' # "repair"
    BY <1>12, <2>3 DEF Verified
  <2>5. pc' \notin {"verify", "raised"} => Waiting' = {}
    BY <1>12, <2>2, <2>3 DEF Verified
  <2>6. Passing' # {} => config'.executor
    <3>1. CASE v = "other"
      <4>1. Passing' = Passing
        BY <2>1, <3>1 DEF Passing
      <4> QED BY <4>1, <2>1
    <3>2. CASE v # "other"
      BY <1>12, <2>1, <3>2 DEF Verified
    <3> QED BY <3>1, <3>2
  <2>7. pc' \in {"verify", "judge"} => pc = "verify"
    BY <1>12, <2>3 DEF Verified
  <2> QED BY <2>1, <2>4, <2>5, <2>6, <2>7
<1>13. ASSUME NEW i \in 1..N, VerifierRaises(i) PROVE BatchInv'
  <2>1. config.executor /\ UNCHANGED config /\ pc' = "raised"
    BY <1>13 DEF VerifierRaises
  <2> QED BY <2>1
<1>14. CASE MutantFails
  BY <1>14, BatchKept DEF MutantFails, Return, batchVars
<1>15. CASE MutantPasses
  <2>1. UNCHANGED <<Waiting, Passing, config, repaired, tests>> /\ Waiting = {}
    BY <1>15 DEF MutantPasses, Waiting, Passing
  <2>2. tests' \in vacuous'
    BY <1>15, <2>1 DEF MutantPasses
  <2>3. CASE round = 0
    <3>1. pc' \in {"spec", "repair"}
      BY <1>15, <2>3 DEF MutantPasses, RetryTests
    <3>2. ~repaired'
      BY <2>1, <2>3
    <3> QED BY <2>1, <2>2, <3>1, <3>2
  <2>4. CASE round # 0
    <3>1. pc' = "judge" /\ round > 0 /\ pc = "judge"
      BY <1>15, <2>4 DEF MutantPasses, TypeOK
    <3>2. repaired'
      BY <2>1, <3>1
    <3> QED BY <2>1, <3>1, <3>2
  <2> QED BY <2>3, <2>4
<1>16. CASE NothingPasses
  <2>1. UNCHANGED <<Waiting, Passing, Untried, config>> /\ Waiting = {} /\ Untried = {}
    BY <1>16, BatchKept DEF NothingPasses, batchVars
  <2>2. pc' \in {"spec", "repair"}
    BY <1>16 DEF NothingPasses, RetryTests
  <2> QED BY <2>1, <2>2
<1>17. CASE NothingRepaired
  BY <1>17, BatchKept DEF NothingRepaired, batchVars, specVars
<1>18. CASE BestEffort
  BY <1>18, BatchKept DEF BestEffort, Return, batchVars
<1>19. ASSUME NEW n \in 1..N, Repair(n) PROVE BatchInv'
  <2>1. Passing' = {} /\ pc' = "verify"
    BY <1>19, NewBatch DEF Repair
  <2>2. repaired'
    BY <1>19 DEF Repair
  <2> QED BY <2>1, <2>2
<1>20. CASE UNCHANGED vars
  BY <1>20, BatchKept DEF vars, specVars, batchVars
<1> QED BY <1>1, <1>2, <1>3, <1>4, <1>5, <1>6, <1>7, <1>8, <1>9, <1>10, <1>11, <1>12,
           <1>13, <1>14, <1>15, <1>16, <1>17, <1>18, <1>19, <1>20, Zenon DEF Next

-----------------------------------------------------------------------------
(* The result.                                                              *)

\* A request has no result until it is done, and then an honest one.
ResultInv ==
  /\ pc # "done" => result = Result("none", 0, 0)
  /\ VerifiedPassed /\ GoodCandidateNotLost /\ NoPartialCredit

\* A request that goes on, or that ends by raising, has no result.
LEMMA NoResult ==
  ASSUME result' = Result("none", 0, 0)
  PROVE  ResultInv'
<1>1. ~ result'.verified /\ result'.score = 0 /\ result'.cand = 0
  BY DEF Result
<1> QED BY <1>1 DEF ResultInv, VerifiedPassed, GoodCandidateNotLost, NoPartialCredit

\* An unverified answer without a candidate of the loop.
LEMMA PlainResult ==
  ASSUME NEW route \in Routes \ {"verified"}, NEW score \in {0, 20, 65},
         Return(route, score, 0),
         score # 0 => specs' = 0,
         score = 65 => Sandboxed',
         score = 20 => ~Sandboxed' /\ config'.static
  PROVE  ResultInv'
<1>1. /\ pc' = "done" /\ ~ result'.verified /\ result'.cand = 0
      /\ result'.score = score
  BY DEF Return, Result
<1> QED BY <1>1 DEF ResultInv, VerifiedPassed, GoodCandidateNotLost, NoPartialCredit

LEMMA ResultInvStep ==
  TypeStage /\ BatchInv /\ ResultInv /\ [Next]_vars => ResultInv'
<1> SUFFICES ASSUME TypeStage, BatchInv, ResultInv, [Next]_vars PROVE ResultInv'
  OBVIOUS
<1>1. CASE /\ pc # "done" /\ UNCHANGED result
  BY <1>1, NoResult DEF ResultInv
<1>2. CASE SpecAccepted \/ SpecRejected \/ GeneralistRaises \/ SpecialistRaises
  BY <1>1, <1>2 DEF SpecAccepted, SpecRejected, GeneralistRaises, SpecialistRaises
<1>3. CASE PlainAnswer
  <2>1. CASE attempt = 0
    BY <1>1, <1>3, <2>1 DEF PlainAnswer
  <2>2. CASE attempt # 0
    BY <1>3, <2>2, PlainResult DEF PlainAnswer, Routes
  <2> QED BY <2>1, <2>2
<1>4. CASE FallbackRuns
  <2>1. specs' = 0 /\ Sandboxed' /\ Return("sandbox", 65, 0)
    BY <1>4 DEF FallbackRuns, specVars, Sandboxed, TypeStage, StageInv
  <2> QED BY <2>1, PlainResult DEF Routes
<1>5. CASE FallbackTraps
  BY <1>5, PlainResult DEF FallbackTraps, Routes
<1>6. CASE StaticPasses
  <2>1. /\ specs' = 0 /\ ~Sandboxed' /\ config'.static
        /\ Return("static_only", 20, 0)
    BY <1>6 DEF StaticPasses, specVars, Sandboxed, TypeStage, StageInv
  <2> QED BY <2>1, PlainResult DEF Routes
<1>7. CASE NoFallback
  BY <1>7, PlainResult DEF NoFallback, Routes
<1>8. CASE NothingGenerated
  BY <1>8, PlainResult DEF NothingGenerated, Routes
<1>9. ASSUME NEW n \in 1..N, Generate(n) \/ Repair(n) PROVE ResultInv'
  BY <1>1, <1>9 DEF Generate, Repair
<1>10. ASSUME NEW i \in 1..N, NEW v \in Verdicts, Verified(i, v) PROVE ResultInv'
  BY <1>1, <1>10 DEF Verified, BatchInv
<1>11. ASSUME NEW i \in 1..N, VerifierRaises(i) PROVE ResultInv'
  BY <1>1, <1>11 DEF VerifierRaises, BatchInv
<1>12. CASE MutantFails
  <2> DEFINE best == Foremost(Untried)
  <2>1. /\ result'.verified /\ result'.score = 100 /\ result'.cand = best
        /\ pc' = "done"
    BY <1>12 DEF MutantFails, Return, Result
  <2>2. UNCHANGED <<Untried, config, repaired, tests, vacuous>>
    BY <1>12, BatchKept DEF MutantFails, batchVars, specVars
  <2>3. best \in Untried /\ best \in Passing /\ \A j \in Untried : best <= j
    BY <1>12, UntriedForemost DEF MutantFails, TypeStage, TypeOK
  <2>4. config.executor /\ (~repaired => tests \notin vacuous)
    BY <1>12, <2>3 DEF MutantFails, BatchInv
  <2>5. VerifiedPassed'
    BY <2>1, <2>2, <2>3, <2>4 DEF VerifiedPassed
  <2> QED BY <2>1, <2>5 DEF ResultInv, GoodCandidateNotLost, NoPartialCredit
<1>13. CASE MutantPasses \/ NothingPasses
  <2>1. pc # "done"
    BY <1>13 DEF MutantPasses, NothingPasses
  <2>2. UNCHANGED result
    BY <1>13 DEF MutantPasses, NothingPasses
  <2> QED BY <1>1, <2>1, <2>2
<1>14. CASE NothingRepaired
  BY <1>1, <1>14 DEF NothingRepaired
<1>15. CASE BestEffort
  <2>1. ~ result'.verified /\ result'.score = 0 /\ pc' = "done" /\ pc = "repair"
    BY <1>15 DEF BestEffort, Return, Result
  <2>2. UNCHANGED <<Untried, repaired, tests, vacuous>>
    BY <1>15, BatchKept DEF BestEffort, batchVars, specVars
  <2>3. GoodCandidateNotLost'
    BY <2>1, <2>2 DEF GoodCandidateNotLost, BatchInv
  <2> QED BY <2>1, <2>3 DEF ResultInv, VerifiedPassed, NoPartialCredit
<1>16. CASE UNCHANGED vars
  <2>1. UNCHANGED <<Untried, config, pc, repaired, tests, specs, vacuous, result>>
    BY <1>16, BatchKept DEF vars, batchVars, specVars
  <2> QED BY <2>1 DEF ResultInv, VerifiedPassed, GoodCandidateNotLost, NoPartialCredit,
                      Sandboxed
<1> QED BY <1>2, <1>3, <1>4, <1>5, <1>6, <1>7, <1>8, <1>9, <1>10, <1>11, <1>12,
           <1>13, <1>14, <1>15, <1>16, Zenon DEF Next

\* Types, stages, batch and result together.
IInv == TypeStage /\ BatchInv /\ ResultInv

LEMMA IInvInit == Init => IInv
<1> SUFFICES ASSUME Init PROVE IInv
  OBVIOUS
<1>1. TypeStage
  BY TypeStageInit
<1>2. Waiting = {} /\ Passing = {} /\ pc = "spec"
  BY DEF Init, Waiting, Passing
<1>3. BatchInv
  BY <1>2 DEF BatchInv
<1>4. ~ result.verified /\ result.score = 0 /\ result = Result("none", 0, 0)
  BY DEF Init, Result
<1>5. ResultInv
  BY <1>2, <1>4 DEF ResultInv, VerifiedPassed, GoodCandidateNotLost, NoPartialCredit
<1> QED BY <1>1, <1>3, <1>5 DEF IInv

LEMMA IInvStep == IInv /\ [Next]_vars => IInv'
BY TypeStageStep, BatchInvStep, ResultInvStep DEF IInv

LEMMA IInvInvariant == Spec => []IInv
BY IInvInit, IInvStep, PTL DEF Spec

\* What _run_code_specialist_verified() returns as verified was verified.
THEOREM VerifiedWasVerified == Spec => []VerifiedPassed
<1>1. IInv => VerifiedPassed
  BY DEF IInv, ResultInv
<1> QED BY <1>1, IInvInvariant, PTL

\* It gives up no candidate that passes, unless the mutation check rejected it
\* or its tests.
THEOREM NoGoodCandidateLost == Spec => []GoodCandidateNotLost
<1>1. IInv => GoodCandidateNotLost
  BY DEF IInv, ResultInv
<1> QED BY <1>1, IInvInvariant, PTL

\* Scores between 0 and 1 are for requests that never had a test spec.
THEOREM PartialCreditWithoutTests == Spec => []NoPartialCredit
<1>1. IInv => NoPartialCredit
  BY DEF IInv, ResultInv
<1> QED BY <1>1, IInvInvariant, PTL

\* The tests, or those that pass them, are at fault in this step.
AtFault == \/ \A i \in DOMAIN cands : cands[i] = "test_error"
           \/ tests \in vacuous' /\ Passing # {}

LEMMA RewriteStep == IInv /\ [Next]_vars => [attempt' # attempt => AtFault]_vars
<1> SUFFICES ASSUME IInv, [Next]_vars, attempt' # attempt PROVE AtFault
  OBVIOUS
<1>1. MutantPasses \/ NothingPasses
  BY Zenon DEF Next, vars, specVars, batchVars, SpecAccepted, SpecRejected,
     GeneralistRaises, SpecialistRaises, PlainAnswer, FallbackRuns, FallbackTraps,
     StaticPasses, NoFallback, NothingGenerated, Generate, Verified,
     VerifierRaises, MutantFails, NothingRepaired, BestEffort, Repair
<1>2. CASE MutantPasses
  BY <1>2 DEF AtFault, MutantPasses, Untried
<1>3. CASE NothingPasses
  BY <1>3 DEF AtFault, NothingPasses, TestsCrashed
<1> QED BY <1>1, <1>2, <1>3

LEMMA RewriteOnlyAtFault ==
  RewriteOnlyBadTests <=> [][attempt' # attempt => AtFault]_vars
BY DEF RewriteOnlyBadTests, AtFault

\* Tests are rewritten only when they are at fault.
THEOREM OnlyBadTestsRewritten == Spec => RewriteOnlyBadTests
<1>1. Spec => [][Next]_vars
  BY PTL DEF Spec
<1> QED BY <1>1, RewriteStep, RewriteOnlyAtFault, IInvInvariant, PTL

-----------------------------------------------------------------------------
(* The effort.                                                              *)

\* N calls for each batch: one per attempt and one per repair round.
EffortInv ==
  /\ asked <= IF pc = "spec" THEN 2 * attempt + tries ELSE 2 * attempt + 2
  /\ pc \in {"spec", "plain", "generate"} => calls = N * attempt
  /\ pc = "fallback" => calls <= N
  /\ pc \in {"verify", "judge", "repair"} => calls = N * (attempt + 1 + round)
  /\ calls <= N * (2 + MaxRepairs)

LEMMA Times ==
  ASSUME NEW k \in Nat, NEW m \in Nat
  PROVE  /\ N * k \in Nat /\ N * (k + 1) = N * k + N
         /\ k <= m => N * k <= N * m
<1>1. N \in Nat
  BY CodeLoopAssumption
<1>2. N * k \in Nat /\ N * (k + 1) = N * k + N
  BY <1>1
<1>3. ASSUME k <= m PROVE N * k <= N * m
  <2>1. PICK d \in Nat : m = k + d
    <3>1. m - k \in Nat /\ m = k + (m - k)
      BY <1>3
    <3> QED BY <3>1
  <2>2. N * d \in Nat /\ N * m = N * k + N * d
    BY <1>1, <2>1
  <2> QED BY <1>2, <2>2
<1> QED BY <1>2, <1>3

\* One more batch fits while there are attempts or rounds left.
LEMMA OneMoreBatch ==
  ASSUME TypeOK, NEW r \in 0..MaxRepairs
  PROVE  /\ N * (attempt + 1 + r) = N * (attempt + r) + N
         /\ N * (attempt + 1 + r) <= N * (2 + MaxRepairs)
         /\ N * (attempt + r) \in Nat
<1>1. /\ attempt + r \in Nat /\ attempt + 1 + r = (attempt + r) + 1
      /\ attempt + 1 + r \in Nat /\ 2 + MaxRepairs \in Nat
      /\ attempt + 1 + r <= 2 + MaxRepairs
  BY CodeLoopAssumption DEF TypeOK
<1> HIDE DEF TypeOK
<1>2. /\ N * (attempt + r) \in Nat
      /\ N * ((attempt + r) + 1) = N * (attempt + r) + N
  BY <1>1, Times
<1>3. N * (attempt + 1 + r) <= N * (2 + MaxRepairs)
  BY <1>1, Times
<1> QED BY <1>1, <1>2, <1>3

LEMMA EffortInvStep == TypeStage /\ EffortInv /\ [Next]_vars => EffortInv'
<1> SUFFICES ASSUME TypeStage, EffortInv, [Next]_vars PROVE EffortInv'
  OBVIOUS
<1>0. /\ N \in Nat /\ N >= 1 /\ attempt \in 0..1 /\ tries \in 0..1
      /\ asked \in Nat /\ calls \in Nat
  BY CodeLoopAssumption DEF TypeStage, TypeOK
<1>1. CASE SpecAccepted
  BY <1>0, <1>1 DEF SpecAccepted, EffortInv
<1>2. CASE SpecRejected
  BY <1>0, <1>2 DEF SpecRejected, EffortInv
<1>3. CASE GeneralistRaises
  BY <1>0, <1>3 DEF GeneralistRaises, EffortInv
<1>4. CASE SpecialistRaises \/ PlainAnswer
  <2>1. /\ pc = "plain" /\ calls' = calls + 1 /\ calls = N * attempt
        /\ UNCHANGED <<asked, attempt>>
    BY <1>4 DEF SpecialistRaises, PlainAnswer, specVars, EffortInv
  <2>2. \/ pc' = "raised" \/ pc' = "done"
        \/ pc' = "fallback" /\ attempt = 0
    BY <1>4 DEF SpecialistRaises, PlainAnswer, Return
  <2>3. N * attempt + N <= N * (2 + MaxRepairs)
    <3>1. 0 \in 0..MaxRepairs /\ attempt + 0 = attempt /\ attempt + 1 + 0 = attempt + 1
      BY <1>0, CodeLoopAssumption
    <3>2. N * (attempt + 1) = N * attempt + N
      BY <1>0, Times
    <3> QED BY <3>1, <3>2, OneMoreBatch DEF TypeStage
  <2>4. calls' <= N * (2 + MaxRepairs)
    <3>1. 2 + MaxRepairs \in Nat
      BY CodeLoopAssumption
    <3>2. N * (2 + MaxRepairs) \in Nat
      BY <3>1, Times
    <3> QED BY <1>0, <2>1, <2>3, <3>2
  <2>5. attempt = 0 => calls' <= N
    BY <1>0, <2>1
  <2>6. asked <= 2 * attempt + 2
    BY <2>1 DEF EffortInv
  <2> QED BY <2>1, <2>2, <2>4, <2>5, <2>6 DEF EffortInv
<1>5. CASE FallbackRuns \/ FallbackTraps \/ StaticPasses \/ NoFallback
  BY <1>5 DEF FallbackRuns, FallbackTraps, StaticPasses, NoFallback, Return,
              specVars, EffortInv
<1>6. ASSUME NothingGenerated \/ \E n \in 1..N : Generate(n) PROVE EffortInv'
  <2>1. /\ pc = "generate" /\ calls' = calls + N /\ round = 0
        /\ pc' \in {"done", "verify"} /\ UNCHANGED <<attempt, asked>>
        /\ pc' = "verify" => round' = 0
    BY <1>6 DEF NothingGenerated, Generate, Generated, Return, specVars,
                TypeStage, StageInv
  <2>2. calls' = N * (attempt + 1 + 0)
    <3>1. calls = N * attempt /\ attempt + 1 + 0 = attempt + 1
      BY <1>0, <2>1 DEF EffortInv
    <3>2. N * (attempt + 1) = N * attempt + N
      BY <1>0, Times
    <3> QED BY <2>1, <3>1, <3>2
  <2>3. calls' <= N * (2 + MaxRepairs)
    BY <2>2, OneMoreBatch, CodeLoopAssumption DEF TypeStage
  <2> QED BY <2>1, <2>2, <2>3 DEF EffortInv
<1>7. ASSUME \E i \in 1..N : VerifierRaises(i) \/ \E v \in Verdicts : Verified(i, v)
      PROVE  EffortInv'
  <2>1. /\ UNCHANGED <<attempt, asked, tries, round, calls>>
        /\ pc' = pc \/ pc' = "raised" \/ (pc = "verify" /\ pc' = "judge")
    BY <1>7 DEF VerifierRaises, Verified, specVars
  <2>2. asked <= 2 * attempt + 2
    BY <1>0 DEF EffortInv
  <2> QED BY <2>1, <2>2 DEF EffortInv
<1>8. CASE MutantFails \/ BestEffort
  BY <1>8 DEF MutantFails, BestEffort, Return, specVars, EffortInv
<1>9. CASE MutantPasses \/ NothingPasses
  <2>1. pc = "judge" /\ UNCHANGED <<asked, round, calls>>
    BY <1>9 DEF MutantPasses, NothingPasses
  <2>2. CASE RetryTests /\ attempt = 0 /\ round = 0
    <3>1. /\ pc' = "spec" /\ attempt' = 1 /\ tries' = 0
      BY <2>2 DEF RetryTests
    <3>2. calls = N * (0 + 1 + 0)
      BY <2>1, <2>2 DEF EffortInv
    <3>3. calls' = N * attempt'
      BY <1>0, <2>1, <3>1, <3>2
    <3> QED BY <2>1, <2>2, <3>1, <3>3 DEF EffortInv
  <2>3. CASE pc' \in {"judge", "repair"} /\ UNCHANGED <<attempt, tries>>
    BY <2>1, <2>3 DEF EffortInv
  <2> QED BY <1>9, <2>2, <2>3 DEF MutantPasses, NothingPasses
<1>10. ASSUME NothingRepaired \/ \E n \in 1..N : Repair(n) PROVE EffortInv'
  <2>1. /\ pc = "repair" /\ round < MaxRepairs /\ round' = round + 1
        /\ calls' = calls + N /\ pc' \in {"repair", "verify"}
        /\ UNCHANGED <<attempt, asked>>
    BY <1>10 DEF NothingRepaired, Repair, Repairable, Generated, specVars
  <2>2. /\ round + 1 \in 0..MaxRepairs
        /\ attempt + 1 + round = attempt + (round + 1)
    BY <1>0, <2>1, CodeLoopAssumption DEF TypeStage, TypeOK
  <2>3. calls = N * (attempt + (round + 1))
    BY <2>1, <2>2 DEF EffortInv
  <2>4. /\ calls' = N * (attempt + 1 + (round + 1))
        /\ calls' <= N * (2 + MaxRepairs)
    BY <2>1, <2>2, <2>3, OneMoreBatch DEF TypeStage
  <2> QED BY <2>1, <2>4 DEF EffortInv
<1>11. CASE UNCHANGED vars
  BY <1>11 DEF vars, specVars, EffortInv
<1> QED BY <1>1, <1>2, <1>3, <1>4, <1>5, <1>6, <1>7, <1>8, <1>9, <1>10, <1>11,
           Zenon DEF Next

\* Four calls of the generalist and N calls of the specialist per attempt and
\* per repair round, at most.
THEOREM EffortIsBounded == Spec => []EffortBounded
<1>1. Init => EffortInv
  <2> SUFFICES ASSUME Init PROVE EffortInv
    OBVIOUS
  <2>1. 2 + MaxRepairs \in Nat /\ N * 0 = 0
    BY CodeLoopAssumption
  <2>2. N * (2 + MaxRepairs) \in Nat
    BY <2>1, Times
  <2> QED BY <2>1, <2>2 DEF Init, EffortInv
<1>2. TypeStage /\ EffortInv => EffortBounded
  BY DEF TypeStage, TypeOK, EffortInv, EffortBounded
<1> QED BY <1>1, <1>2, TypeStageInit, TypeStageStep, EffortInvStep, PTL DEF Spec

-------------------------------------------------------------------------------
(* The shared session.                                                      *)

\* While cleanup() waits, no session is open, unless one was taken meanwhile.
SessionInv ==
  overlap \/ (open \subseteq {session} /\ (closing # 0 => open = {}))

LEMMA SessionTaken ==
  ASSUME SessionInv, Orch!TakesSession
  PROVE  SessionInv'
<1>1. CASE session \in open
  BY <1>1 DEF SessionInv, Orch!TakesSession, Orch!CurrentSession
<1>2. CASE session \notin open
  BY <1>2 DEF SessionInv, Orch!TakesSession, Orch!CurrentSession
<1> QED BY <1>1, <1>2

LEMMA SessionStep == SessionInv /\ [Orch!Next]_orchVars => SessionInv'
<1> SUFFICES ASSUME SessionInv, [Orch!Next]_orchVars PROVE SessionInv'
  OBVIOUS
<1>1. CASE Orch!Start
  BY <1>1 DEF SessionInv, Orch!Start, Orch!CurrentSession
<1>2. CASE Orch!CleanupBegins
  BY <1>2 DEF SessionInv, Orch!CleanupBegins
<1>3. CASE Orch!CleanupEnds
  BY <1>3 DEF SessionInv, Orch!CleanupEnds
<1>4. ASSUME NEW r \in Requests, Orch!CallBegins(r) \/ Orch!LoopCalls(r)
      PROVE  SessionInv'
  BY <1>4, SessionTaken DEF Orch!CallBegins, Orch!LoopCalls
<1>5. ASSUME NEW r \in Requests,
             \/ Orch!Run(r) \/ Orch!Chat(r) \/ Orch!Completion(r)
             \/ Orch!SolveBegins(r) \/ Orch!SolveEnds(r)
      PROVE  SessionInv'
  <2>1. UNCHANGED Orch!sessionVars
    BY <1>5 DEF Orch!Run, Orch!Chat, Orch!Completion, Orch!SolveBegins, Orch!SolveEnds
  <2> QED BY <2>1 DEF SessionInv, Orch!sessionVars
<1>6. CASE Orch!Restart
  BY <1>6 DEF SessionInv, Orch!Restart
<1>7. CASE UNCHANGED orchVars
  BY <1>7 DEF SessionInv, orchVars
<1> QED BY <1>1, <1>2, <1>3, <1>4, <1>5, <1>6, <1>7 DEF Orch!Next

-------------------------------------------------------------------------------
(* The instances of the specialist model.                                   *)

\* A thread has an instance exactly while it runs the model.
InstanceInv ==
  /\ Llm!InstancesKept
  /\ \A c \in Callers : held[c] # 0 <=> at[c] = "model"

LEMMA InstanceInit == Llm!Init => InstanceInv
<1> SUFFICES ASSUME Llm!Init PROVE InstanceInv
  OBVIOUS
<1> USE DEF Llm!Init
<1>1. PICK size \in 0..PoolSize : loaded \in 0..size
  BY DEF Llm!LoadedInstances
<1>2. PoolSize \in Nat /\ loaded \in Nat /\ loaded \in 0..PoolSize
  BY <1>1, SpecialistAssumption
<1>3. /\ free \in Seq(1..loaded) /\ DOMAIN free = 1..loaded
      /\ \A n \in 1..loaded : free[n] = n
  BY <1>2, IsASeq
<1>4. Llm!TypeOK
  BY <1>2, <1>3, SpecialistAssumption DEF Llm!TypeOK
<1> QED BY <1>2, <1>3, <1>4 DEF InstanceInv, Llm!InstancesKept

\* A step that moves no instance.
LEMMA InstancesStay ==
  ASSUME InstanceInv, UNCHANGED <<transport, loaded, free, held>>, Llm!TypeOK',
         \A c \in Callers : at'[c] = "model" <=> at[c] = "model"
  PROVE  InstanceInv'
BY DEF InstanceInv, Llm!InstancesKept

\* Instance i is in the queue or with a thread.
Placed(i) == (\E n \in DOMAIN free : free[n] = i) \/ (\E d \in Callers : held[d] = i)

\* The thread of c takes the oldest free instance.
LEMMA InstanceTaken ==
  ASSUME InstanceInv, NEW c \in Callers, Llm!CheckOut(c)
  PROVE  InstanceInv'
<1>0. /\ Llm!InstancesKept /\ Llm!TypeOK
      /\ \A d \in Callers : held[d] # 0 <=> at[d] = "model"
  BY DEF InstanceInv, Llm!InstancesKept
<1>1. /\ Len(free) \in Nat \ {0} /\ DOMAIN free = 1..Len(free)
      /\ Head(free) = free[1] /\ Head(free) \in 1..loaded
      /\ free' \in Seq(1..loaded) /\ DOMAIN free' = 1..(Len(free) - 1)
      /\ \A n \in 1..(Len(free) - 1) : free'[n] = free[n + 1] /\ n + 1 \in DOMAIN free
  BY <1>0, HeadTailProperties, EmptySeq, LenProperties DEF Llm!TypeOK, Llm!CheckOut
<1>2. loaded \in Nat /\ loaded' = loaded /\ held[c] = 0
  BY <1>0, SpecialistAssumption DEF Llm!TypeOK, Llm!CheckOut
<1>3. /\ held'[c] = free[1] /\ held'[c] # 0
      /\ \A d \in Callers \ {c} : held'[d] = held[d] /\ at'[d] = at[d]
      /\ at'[c] = "model"
  BY <1>0, <1>1, <1>2 DEF Llm!TypeOK, Llm!CheckOut
<1>4. Llm!TypeOK'
  BY <1>0, <1>1, <1>2 DEF Llm!TypeOK, Llm!CheckOut
<1>5. ASSUME NEW i \in 1..loaded
      PROVE  Placed(i)'
  <2>0. Placed(i)
    BY <1>0 DEF Llm!InstancesKept, Placed
  <2>1. CASE \E d \in Callers : held[d] = i
    BY <2>1, <1>2, <1>3 DEF Placed
  <2>2. ASSUME NEW n \in DOMAIN free, free[n] = i PROVE Placed(i)'
    <3>1. CASE n = 1
      BY <2>2, <3>1, <1>3 DEF Placed
    <3>2. CASE n # 1
      <4>1. n - 1 \in DOMAIN free' /\ free'[n - 1] = i
        BY <2>2, <3>2, <1>1
      <4> QED BY <4>1 DEF Placed
    <3> QED BY <3>1, <3>2
  <2> QED BY <2>0, <2>1, <2>2 DEF Placed
<1>6. ASSUME NEW m \in DOMAIN free', NEW n \in DOMAIN free', free'[m] = free'[n]
      PROVE  m = n
  <2>1. /\ m \in Nat /\ n \in Nat
        /\ m + 1 \in DOMAIN free /\ n + 1 \in DOMAIN free
        /\ free[m + 1] = free[n + 1]
    BY <1>1, <1>6
  <2>2. m + 1 = n + 1
    BY <1>0, <2>1 DEF Llm!InstancesKept
  <2> QED BY <2>1, <2>2
<1>7. ASSUME NEW d \in Callers, NEW e \in Callers, held'[d] = held'[e], held'[d] # 0
      PROVE  d = e
  <2>1. \A f \in Callers : held[f] # free[1]
    BY <1>0, <1>1 DEF Llm!InstancesKept
  <2>2. CASE d = c \/ e = c
    BY <1>3, <1>7, <2>1, <2>2
  <2>3. CASE d # c /\ e # c
    BY <1>0, <1>3, <1>7, <2>3 DEF Llm!InstancesKept
  <2> QED BY <2>2, <2>3
<1>8. ASSUME NEW n \in DOMAIN free', NEW d \in Callers
      PROVE  free'[n] # held'[d]
  <2>1. /\ n \in Nat /\ n >= 1 /\ n + 1 \in DOMAIN free /\ 1 \in DOMAIN free
        /\ free'[n] = free[n + 1] /\ n + 1 # 1
    BY <1>1
  <2>2. CASE d = c
    BY <1>0, <1>3, <2>1, <2>2 DEF Llm!InstancesKept
  <2>3. CASE d # c
    BY <1>0, <1>3, <2>1, <2>3 DEF Llm!InstancesKept
  <2> QED BY <2>2, <2>3
<1>9. \A d \in Callers : held'[d] # 0 <=> at'[d] = "model"
  BY <1>0, <1>3
<1> QED BY <1>2, <1>4, <1>5, <1>6, <1>7, <1>8, <1>9 DEF InstanceInv, Llm!InstancesKept, Placed

\* The thread of c puts its instance back, whatever the model has replied.
LEMMA InstanceBack ==
  ASSUME InstanceInv, NEW c \in Callers, Llm!ModelReturns(c)
  PROVE  InstanceInv'
<1>0. /\ Llm!InstancesKept /\ Llm!TypeOK
      /\ \A d \in Callers : held[d] # 0 <=> at[d] = "model"
  BY DEF InstanceInv, Llm!InstancesKept
<1>1. /\ at[c] = "model" /\ free' = Append(free, held[c])
      /\ held' = [held EXCEPT ![c] = 0] /\ at' = [at EXCEPT ![c] = "over"]
      /\ UNCHANGED <<transport, loaded>>
      /\ told' \in [Callers -> {"nothing", "text", "raised", "cancelled"}]
  BY <1>0 DEF Llm!TypeOK, Llm!ModelReturns, Llm!PutBack, Llm!Tell
<1>2. loaded \in Nat /\ loaded' = loaded /\ held[c] \in 1..loaded /\ held[c] # 0
  BY <1>0, <1>1, SpecialistAssumption DEF Llm!TypeOK
<1>3. /\ Len(free) \in Nat /\ DOMAIN free = 1..Len(free)
      /\ free' \in Seq(1..loaded) /\ DOMAIN free' = 1..(Len(free) + 1)
      /\ \A n \in 1..Len(free) : free'[n] = free[n]
      /\ free'[Len(free) + 1] = held[c]
  BY <1>0, <1>1, <1>2, AppendProperties, LenProperties DEF Llm!TypeOK
<1>4. /\ held'[c] = 0 /\ at'[c] = "over"
      /\ \A d \in Callers \ {c} : held'[d] = held[d] /\ at'[d] = at[d]
  BY <1>0, <1>1 DEF Llm!TypeOK
<1>5. Llm!TypeOK'
  BY <1>0, <1>1, <1>2, <1>3 DEF Llm!TypeOK
<1>6. ASSUME NEW i \in 1..loaded
      PROVE  Placed(i)'
  <2>0. Placed(i)
    BY <1>0 DEF Llm!InstancesKept, Placed
  <2>1. ASSUME NEW n \in DOMAIN free, free[n] = i PROVE Placed(i)'
    <3>1. n \in DOMAIN free' /\ free'[n] = i
      BY <2>1, <1>3
    <3> QED BY <3>1 DEF Placed
  <2>2. ASSUME NEW d \in Callers, held[d] = i PROVE Placed(i)'
    <3>1. CASE d = c
      <4>1. Len(free) + 1 \in DOMAIN free' /\ free'[Len(free) + 1] = i
        BY <2>2, <3>1, <1>3
      <4> QED BY <4>1 DEF Placed
    <3>2. CASE d # c
      BY <2>2, <3>2, <1>4 DEF Placed
    <3> QED BY <3>1, <3>2
  <2> QED BY <2>0, <2>1, <2>2 DEF Placed
<1>7. \A m, n \in DOMAIN free' : free'[m] = free'[n] => m = n
  BY <1>0, <1>3 DEF Llm!InstancesKept
<1>8. \A d, e \in Callers : held'[d] = held'[e] /\ held'[d] # 0 => d = e
  BY <1>0, <1>4 DEF Llm!InstancesKept
<1>9. ASSUME NEW n \in DOMAIN free', NEW d \in Callers
      PROVE  free'[n] # held'[d]
  <2>1. free'[n] \in 1..loaded /\ free'[n] # 0
    BY <1>2, <1>3, ElementOfSeq
  <2>2. CASE d = c
    BY <2>1, <2>2, <1>4
  <2>3. CASE d # c /\ n \in DOMAIN free
    BY <2>3, <1>0, <1>3, <1>4 DEF Llm!InstancesKept
  <2>4. CASE d # c /\ n = Len(free) + 1
    BY <2>4, <1>0, <1>2, <1>3, <1>4 DEF Llm!InstancesKept
  <2> QED BY <2>2, <2>3, <2>4, <1>3
<1>10. \A d \in Callers : held'[d] # 0 <=> at'[d] = "model"
  BY <1>0, <1>4
<1> QED BY <1>2, <1>5, <1>6, <1>7, <1>8, <1>9, <1>10 DEF InstanceInv, Llm!InstancesKept, Placed

LEMMA InstanceStep == InstanceInv /\ [Llm!Next]_llmVars => InstanceInv'
<1> SUFFICES ASSUME InstanceInv, [Llm!Next]_llmVars PROVE InstanceInv'
  OBVIOUS
<1>0. Llm!TypeOK
  BY DEF InstanceInv, Llm!InstancesKept
<1>1. ASSUME NEW c \in Callers,
             \/ Llm!CallModel(c) \/ Llm!ThreadStarts(c)
             \/ Llm!Permit(c) \/ Llm!PostEnds(c) \/ Llm!Cancel(c)
      PROVE  InstanceInv'
  <2>1. /\ UNCHANGED <<transport, loaded, free, held>>
        /\ \A d \in Callers : at'[d] = "model" <=> at[d] = "model"
    BY <1>0, <1>1 DEF Llm!TypeOK, Llm!CallModel, Llm!ThreadStarts, Llm!Permit,
                      Llm!PostEnds, Llm!Cancel, Llm!Busy
  <2>2. Llm!TypeOK'
    BY <1>0, <1>1, <2>1, ZenonT(60) DEF Llm!TypeOK, Llm!CallModel, Llm!ThreadStarts, Llm!Permit,
                            Llm!PostEnds, Llm!Cancel, Llm!Tell, Llm!ReadPost
  <2> QED BY <2>1, <2>2, InstancesStay
<1>2. CASE UNCHANGED llmVars
  BY <1>2 DEF llmVars, InstanceInv, Llm!InstancesKept, Llm!TypeOK
<1> QED BY <1>1, <1>2, InstanceTaken, InstanceBack DEF Llm!Next, Llm!CallStep

-------------------------------------------------------------------------------
(* All parts together.                                                      *)

\* A step of answering is a step of each part, or leaves it alone.
LEMMA StepOfEachPart ==
  [AnsweringNext]_answeringVars =>
    [Next]_vars /\ [Orch!Next]_orchVars /\ [Llm!Next]_llmVars
BY DEF AnsweringNext, answeringVars, Loops, Reasons, Routing, Calling

\* What requests share is neither leaked nor used twice: of the client sessions
\* only the one that _get_session() returns is open, unless cleanup() was
\* overtaken, and the instances that _call_model_inprocess() passes between
\* threads are all there, each with at most one thread.
THEOREM SharedIsKept == AnsweringSpec => []NothingLeaks
<1>1. AnsweringInit => SessionInv /\ InstanceInv
  <2>1. AnsweringInit => SessionInv
    BY DEF AnsweringInit, Orch!Init, SessionInv
  <2> QED BY <2>1, InstanceInit DEF AnsweringInit
<1>2. SessionInv /\ InstanceInv /\ [AnsweringNext]_answeringVars
        => (SessionInv /\ InstanceInv)'
  BY StepOfEachPart, SessionStep, InstanceStep
<1>3. SessionInv /\ InstanceInv => NothingLeaks
  BY DEF SessionInv, InstanceInv, NothingLeaks, Orch!NoSessionLeak
<1> QED BY <1>1, <1>2, <1>3, PTL DEF AnsweringSpec

\* A behaviour that is not about the code loop has a request of it that is over.
LEMMA LoopInit == AnsweringInit => IInv
<1> SUFFICES ASSUME AnsweringInit PROVE IInv
  OBVIOUS
<1>1. CASE part = "loop"
  BY <1>1, IInvInit DEF AnsweringInit
<1>2. CASE part # "loop"
  <2>1. /\ config = [executor |-> FALSE, wasm |-> FALSE, static |-> FALSE]
        /\ pc = "raised" /\ attempt = 0 /\ tries = 0 /\ tests = 0 /\ specs = 0
        /\ vacuous = {} /\ cands = <<>> /\ rejected = {} /\ repaired = FALSE
        /\ round = 0 /\ asked = 0 /\ calls = 0 /\ result = Result("none", 0, 0)
    BY <1>2 DEF AnsweringInit
  <2>2. <<>> \in Batches
    <3>1. <<>> \in [1..0 -> Verdicts \cup {"waiting"}]
      OBVIOUS
    <3> QED BY <3>1, CodeLoopAssumption DEF Batches
  <2>3. cands \in Batches /\ Passing = {} /\ Waiting = {}
    BY <2>1, <2>2 DEF Passing, Waiting
  <2>4. result \in [route : Routes, verified : BOOLEAN, score : {0, 20, 65, 100},
                   cand : 0..N]
    BY <2>1, CodeLoopAssumption DEF Result, Routes
  <2>5. config \in Configs
    BY <2>1 DEF Configs
  <2>6. repaired \in BOOLEAN
    BY <2>1, Zenon
  <2>7. TypeOK
    BY <2>1, <2>3, <2>4, <2>5, <2>6, CodeLoopAssumption DEF TypeOK
  <2>8. StageInv
    BY <2>1 DEF StageInv
  <2>9. BatchInv
    BY <2>1, <2>3 DEF BatchInv
  <2>10. ~ result.verified /\ result.score = 0 /\ result.cand = 0
    BY <2>1 DEF Result
  <2>11. ResultInv
    BY <2>1, <2>10 DEF ResultInv, VerifiedPassed, GoodCandidateNotLost, NoPartialCredit
  <2> QED BY <2>7, <2>8, <2>9, <2>11 DEF IInv, TypeStage
<1> QED BY <1>1, <1>2

LEMMA LoopInvariant == AnsweringSpec => []IInv /\ [][Next]_vars
<1>1. IInv /\ [AnsweringNext]_answeringVars => IInv' /\ [Next]_vars
  BY StepOfEachPart, IInvStep
<1> QED BY <1>1, LoopInit, PTL DEF AnsweringSpec

\* What is answered as verified was verified: whatever else the orchestrator
\* is doing, the candidate that _run_code_specialist_verified() returns as
\* verified passed its tests and no mutant of it did.
THEOREM AnswersVerified == AnsweringSpec => []VerifiedPassed
<1>1. IInv => VerifiedPassed
  BY DEF IInv, ResultInv
<1> QED BY <1>1, LoopInvariant, PTL

\* No candidate that passes is given up in favour of an unverified answer.
THEOREM GoodAnswersKept == AnsweringSpec => []GoodCandidateNotLost
<1>1. IInv => GoodCandidateNotLost
  BY DEF IInv, ResultInv
<1> QED BY <1>1, LoopInvariant, PTL

\* Tests are rewritten only when they crash with every candidate or are vacuous.
THEOREM AnswersKeepGoodTests == AnsweringSpec => RewriteOnlyBadTests
BY LoopInvariant, RewriteStep, RewriteOnlyAtFault, PTL
-------------------------------------------------------------------------------
(* The answers of the orchestrator.                                         *)

RouteEntry == [query : Queries, route : Orch!Routes]
Step == Orch!ModelCalls \cup {"clr", "verifiedClr", "loop"}
Gains == {"text", "empty", "weak", "verified", "none"}
RequestRecord ==
  [pc : {"none", "step", "chat", "completion", "solving", "ended"},
   query : Queries, route : Orch!Routes, forced : BOOLEAN, todo : Seq(Step),
   session : 0..MaxSessions, got : SUBSET Gains]

\* What a route cache holds is what the similarity says by one of the embedding
\* models there have been.
CacheSound(c) ==
  \A n \in DOMAIN c : \E m \in tried : c[n].route = Similar[m][c[n].query]

\* A decision for a query is the one of its kind.
AgreesWith(q, route) ==
  /\ Orch!TaskType[q] \in {"math", "code"} => route = "specialist"
  /\ Orch!TaskType[q] \in {"conversation", "summarization"} => route = "generalist"
  /\ Orch!TaskType[q] \in {"planning", "retrieval", "unknown"} =>
       IF installation.router THEN \E m \in tried : route = Similar[m][q]
       ELSE route = "hybrid"

\* A request at work has a step to do and the route of its kind.
RequestSound(x) ==
  /\ x \in RequestRecord
  /\ "empty" \notin x.got
  /\ x.pc \notin {"none", "ended"} =>
       /\ x.todo # <<>>
       /\ ~ x.forced => AgreesWith(x.query, x.route)

\* What the trajectory store has learned was accepted by a verifier.
Accepted(t) == t.result = "verified" /\ t.route = "specialist"

SessionTypes ==
  /\ session \in 0..MaxSessions /\ open \subseteq 1..MaxSessions
  /\ created \in 0..MaxSessions /\ closing \in 0..MaxSessions
  /\ overlap \in BOOLEAN
CacheTypes ==
  /\ model \in tried /\ tried \subseteq Models
  /\ routes \in Seq(RouteEntry) /\ Len(routes) <= RouteCache
  /\ disk \in Seq(RouteEntry) /\ Len(disk) <= RouteCache
Learned == [query : Queries, result : {"weak", "verified"}, route : Orch!Routes]

\* Requests, caches and the trajectory store are sound together.
BackedInv ==
  /\ installation \in Installations
  /\ SessionTypes
  /\ CacheTypes /\ CacheSound(routes) /\ CacheSound(disk)
  /\ req \in [Requests -> RequestRecord] /\ \A r \in Requests : RequestSound(req[r])
  /\ learned \subseteq Learned /\ \A t \in learned : Accepted(t)
  /\ cached \subseteq Queries
  /\ restarts \in 0..MaxRestarts

\* A cache without one of its entries.
LEMMA WithoutEntry ==
  ASSUME NEW c \in Seq(RouteEntry), NEW n \in DOMAIN c
  PROVE  /\ Orch!Without(c, n) \in Seq(RouteEntry)
         /\ Len(Orch!Without(c, n)) = Len(c) - 1
         /\ \A m \in DOMAIN Orch!Without(c, n) : \E k \in DOMAIN c : Orch!Without(c, n)[m] = c[k]
<1>1. Len(c) \in Nat /\ DOMAIN c = 1..Len(c) /\ Len(c) - 1 \in Nat
  BY LenProperties
<1>2. \A m \in 1..(Len(c) - 1) : m \in DOMAIN c /\ m + 1 \in DOMAIN c
  BY <1>1
<1> DEFINE w == [m \in 1..(Len(c) - 1) |-> IF m < n THEN c[m] ELSE c[m + 1]]
<1>3. \A m \in 1..(Len(c) - 1) : w[m] = c[m] \/ w[m] = c[m + 1]
  OBVIOUS
<1>4. \A m \in DOMAIN c : c[m] \in RouteEntry
  BY ElementOfSeq, <1>1
<1>5. w \in [1..(Len(c) - 1) -> RouteEntry]
  BY <1>2, <1>3, <1>4
<1>6. w \in Seq(RouteEntry) /\ Len(w) = Len(c) - 1 /\ DOMAIN w = 1..(Len(c) - 1)
  BY <1>1, <1>5, LenProperties
<1> QED BY <1>2, <1>3, <1>6 DEF Orch!Without

\* get_route() and put_route(): the cache stays within its size, ends with the
\* query's decision, and every decision in it was there or is the similarity.
LEMMA TouchedCache ==
  ASSUME CacheTypes, NEW q \in Queries
  PROVE  /\ Orch!Touched(q) \in Seq(RouteEntry)
         /\ Len(Orch!Touched(q)) \in 1..RouteCache
         /\ Orch!Touched(q)[Len(Orch!Touched(q))].query = q
         /\ \A m \in DOMAIN Orch!Touched(q) :
              \/ \E k \in DOMAIN routes : Orch!Touched(q)[m] = routes[k]
              \/ Orch!Touched(q)[m] = [query |-> q, route |-> Similar[model][q]]
<1>0. /\ routes \in Seq(RouteEntry) /\ Len(routes) <= RouteCache
      /\ RouteCache \in Nat \ {0}
      /\ Len(routes) \in Nat /\ DOMAIN routes = 1..Len(routes)
  BY OrchestratorAssumption, LenProperties DEF CacheTypes, RouteEntry
<1> DEFINE new == [query |-> q, route |-> Similar[model][q]]
<1>1. new \in RouteEntry /\ new.query = q
  BY OrchestratorAssumption DEF CacheTypes, RouteEntry, Orch!Routes
<1>2. CASE Orch!CachedRoute(q) # {}
  <2>1. PICK n \in Orch!CachedRoute(q) :
             Orch!Touched(q) = Append(Orch!Without(routes, n), routes[n])
    BY <1>2 DEF Orch!Touched
  <2>2. n \in DOMAIN routes /\ routes[n].query = q
    BY DEF Orch!CachedRoute
  <2>3. routes[n] \in RouteEntry
    BY <1>0, <2>2, ElementOfSeq
  <2> DEFINE w == Orch!Without(routes, n)
  <2>4. /\ w \in Seq(RouteEntry) /\ Len(w) = Len(routes) - 1
        /\ \A m \in DOMAIN w : \E k \in DOMAIN routes : w[m] = routes[k]
    BY <1>0, <2>2, WithoutEntry
  <2>5. Len(w) \in Nat /\ DOMAIN w = 1..Len(w)
    BY <2>4, LenProperties
  <2> HIDE DEF w
  <2>6. /\ Append(w, routes[n]) \in Seq(RouteEntry)
        /\ Len(Append(w, routes[n])) = Len(w) + 1
        /\ Append(w, routes[n])[Len(w) + 1] = routes[n]
        /\ \A m \in 1..Len(w) : Append(w, routes[n])[m] = w[m]
    BY <2>3, <2>4, AppendProperties
  <2>7. DOMAIN Append(w, routes[n]) = 1..(Len(w) + 1)
    BY <2>6, LenProperties
  <2>8. \A m \in 1..(Len(w) + 1) : m \in 1..Len(w) \/ m = Len(w) + 1
    BY <2>5
  <2>9. \A m \in DOMAIN Append(w, routes[n]) :
          \E k \in DOMAIN routes : Append(w, routes[n])[m] = routes[k]
    BY <2>2, <2>4, <2>5, <2>6, <2>7, <2>8
  <2>10. Len(w) + 1 \in 1..RouteCache
    BY <1>0, <2>4, <2>5
  <2>11. Orch!Touched(q) = Append(w, routes[n])
    BY <2>1 DEF w
  <2> QED BY <2>2, <2>6, <2>9, <2>10, <2>11
<1>3. CASE Orch!CachedRoute(q) = {}
  <2> DEFINE rest == IF Len(routes) >= RouteCache THEN Tail(routes) ELSE routes
  <2>1. Orch!Touched(q) = Append(rest, new)
    BY <1>3 DEF Orch!Touched
  <2>2. /\ rest \in Seq(RouteEntry) /\ Len(rest) \in Nat /\ DOMAIN rest = 1..Len(rest)
        /\ Len(rest) + 1 \in 1..RouteCache
        /\ \A m \in DOMAIN rest : \E k \in DOMAIN routes : rest[m] = routes[k]
    <3>1. CASE Len(routes) >= RouteCache
      <4>1. routes # <<>> /\ rest = Tail(routes)
        BY <1>0, <3>1, EmptySeq, SMTT(60)
      <4>2. /\ Tail(routes) \in Seq(RouteEntry) /\ Len(Tail(routes)) = Len(routes) - 1
            /\ \A m \in 1..Len(Tail(routes)) : Tail(routes)[m] = routes[m + 1]
        BY <1>0, <4>1, HeadTailProperties
      <4>3. DOMAIN Tail(routes) = 1..(Len(routes) - 1)
        BY <4>2, LenProperties
      <4>4. \A m \in 1..(Len(routes) - 1) : m + 1 \in DOMAIN routes
        BY <1>0
      <4>5. Len(routes) - 1 \in Nat /\ Len(routes) - 1 + 1 \in 1..RouteCache
        BY <1>0, <3>1
      <4> QED BY <4>1, <4>2, <4>3, <4>4, <4>5
    <3>2. CASE ~ (Len(routes) >= RouteCache)
      BY <1>0, <3>2
    <3> QED BY <3>1, <3>2, SMTT(60)
  <2> HIDE DEF rest, new
  <2>3. /\ Append(rest, new) \in Seq(RouteEntry)
        /\ Len(Append(rest, new)) = Len(rest) + 1
        /\ Append(rest, new)[Len(rest) + 1] = new
        /\ \A m \in 1..Len(rest) : Append(rest, new)[m] = rest[m]
    BY <1>1, <2>2, AppendProperties
  <2>4. DOMAIN Append(rest, new) = 1..(Len(rest) + 1)
    BY <2>3, LenProperties
  <2>5. \A m \in 1..(Len(rest) + 1) : m \in 1..Len(rest) \/ m = Len(rest) + 1
    BY <2>2
  <2>6. \A m \in DOMAIN Append(rest, new) :
          \/ \E k \in DOMAIN routes : Append(rest, new)[m] = routes[k]
          \/ Append(rest, new)[m] = new
    BY <2>2, <2>3, <2>4, <2>5
  <2> QED BY <1>1, <2>1, <2>2, <2>3, <2>6 DEF new
<1> QED BY <1>2, <1>3

\* classify() gives a route, the similarity's by a model there has been.
LEMMA ClassifiedRoute ==
  ASSUME CacheTypes, CacheSound(routes), NEW q \in Queries
  PROVE  /\ CacheSound(Orch!Touched(q))
         /\ Orch!Classified(q) \in Orch!Routes
         /\ \E m \in tried : Orch!Classified(q) = Similar[m][q]
<1> DEFINE t == Orch!Touched(q)
<1>1. /\ t \in Seq(RouteEntry) /\ Len(t) \in 1..RouteCache /\ t[Len(t)].query = q
      /\ \A m \in DOMAIN t : \/ \E k \in DOMAIN routes : t[m] = routes[k]
                             \/ t[m] = [query |-> q, route |-> Similar[model][q]]
  BY TouchedCache
<1> HIDE DEF t
<1>2. CacheSound(t)
  BY <1>1 DEF CacheSound, CacheTypes
<1>3. Len(t) \in DOMAIN t /\ t[Len(t)] \in RouteEntry
  BY <1>1, LenProperties, ElementOfSeq
<1>4. t[Len(t)].route \in Orch!Routes
  BY <1>3 DEF RouteEntry
<1> QED BY <1>1, <1>2, <1>3, <1>4 DEF CacheSound, t, Orch!Classified

\* The task type decides where it can, else the router.
LEMMA RouteOfKind ==
  ASSUME CacheTypes, CacheSound(routes), NEW q \in Queries
  PROVE  Orch!ClassifyRoute(q) \in Orch!Routes /\ AgreesWith(q, Orch!ClassifyRoute(q))
<1>1. CASE Orch!TaskType[q] \in {"math", "code"}
  BY <1>1 DEF Orch!ClassifyRoute, AgreesWith, Orch!Routes
<1>2. CASE Orch!TaskType[q] \in {"conversation", "summarization"}
  BY <1>2 DEF Orch!ClassifyRoute, AgreesWith, Orch!Routes
<1>3. CASE Orch!TaskType[q] \notin {"math", "code"} \cup {"conversation", "summarization"}
  <2>1. Orch!ClassifyRoute(q) = IF installation.router THEN Orch!Classified(q) ELSE "hybrid"
    BY <1>3 DEF Orch!ClassifyRoute
  <2> QED BY <1>3, <2>1, ClassifiedRoute DEF AgreesWith, Orch!Routes
<1> QED BY <1>1, <1>2, <1>3

\* The caches after _classify_route(): well formed and sound.
LEMMA ClassifiesStep ==
  ASSUME CacheTypes, CacheSound(routes), CacheSound(disk), NEW q \in Queries, Orch!Classifies(q)
  PROVE  /\ CacheTypes' /\ CacheSound(routes)' /\ CacheSound(disk)'
         /\ model' = model /\ tried' = tried
<1> DEFINE t == Orch!Touched(q)
<1>1. t \in Seq(RouteEntry) /\ Len(t) <= RouteCache /\ CacheSound(t)
  BY TouchedCache, ClassifiedRoute, OrchestratorAssumption
<1>2. /\ routes' = t \/ routes' = routes
      /\ disk' = t \/ disk' = disk
      /\ model' = model /\ tried' = tried
  BY DEF Orch!Classifies
<1> HIDE DEF t
<1>3. CacheSound(routes)' /\ CacheSound(disk)'
  BY <1>1, <1>2 DEF CacheSound
<1>4. CacheTypes'
  BY <1>1, <1>2 DEF CacheTypes
<1> QED BY <1>2, <1>3, <1>4

\* The caches of a step that does not classify.
LEMMA CachesStay ==
  ASSUME CacheTypes, CacheSound(routes), CacheSound(disk), UNCHANGED Orch!routeVars
  PROVE  /\ CacheTypes' /\ CacheSound(routes)' /\ CacheSound(disk)'
         /\ model' = model /\ tried' = tried
<1>1. routes' = routes /\ disk' = disk /\ model' = model /\ tried' = tried
  BY DEF Orch!routeVars
<1> QED BY <1>1 DEF CacheTypes, CacheSound

\* One request moves on, the others wait.
LEMMA RequestMoves ==
  ASSUME BackedInv, NEW r \in Requests, NEW x, RequestSound(x),
         req' = [req EXCEPT ![r] = x],
         installation' = installation, model' = model, tried' = tried
  PROVE  /\ req' \in [Requests -> RequestRecord]
         /\ \A p \in Requests : RequestSound(req[p])'
<1>1. /\ req \in [Requests -> RequestRecord] /\ x \in RequestRecord
      /\ \A p \in Requests : RequestSound(req[p])
  BY DEF BackedInv, RequestSound
<1>2. req' \in [Requests -> RequestRecord]
  BY <1>1
<1>3. \A p \in Requests : req'[p] = IF p = r THEN x ELSE req[p]
  BY <1>1
<1>4. ASSUME NEW y, RequestSound(y), NEW p \in Requests, req'[p] = y PROVE RequestSound(req[p])'
  BY <1>4 DEF RequestSound, AgreesWith
<1>5. \A p \in Requests : RequestSound(req[p])'
  BY <1>1, <1>3, <1>4
<1> QED BY <1>2, <1>5

\* No request moves.
LEMMA RequestsStay ==
  ASSUME BackedInv, req' = req,
         installation' = installation, model' = model, tried' = tried
  PROVE  /\ req' \in [Requests -> RequestRecord]
         /\ \A p \in Requests : RequestSound(req[p])'
BY DEF BackedInv, RequestSound, AgreesWith

\* What was accepted stays accepted.
LEMMA LearnedStays ==
  ASSUME BackedInv,
         \A t \in learned' : t \in learned \/ (t \in Learned /\ Accepted(t))
  PROVE  learned' \subseteq Learned /\ \A t \in learned' : Accepted(t)'
<1>1. learned \subseteq Learned /\ \A t \in learned : Accepted(t)
  BY DEF BackedInv
<1>2. ASSUME NEW t, Accepted(t) PROVE Accepted(t)'
  BY <1>2 DEF Accepted
<1> QED BY <1>1, <1>2

\* The steps of an answer: there are some.
LEMMA StepsOfRoute ==
  ASSUME NEW q \in Queries, NEW route \in Orch!Routes
  PROVE  Orch!Steps(q, route) \in Seq(Step) /\ Orch!Steps(q, route) # <<>>
<1> DEFINE solver == Orch!Solver(q, route)
<1>1. solver \in Step /\ "generalist" \in Step
  BY DEF Orch!Solver, Step, Orch!ModelCalls
<1>2. \/ Orch!Steps(q, route) = <<"generalist">>
      \/ Orch!Steps(q, route) = <<solver>>
      \/ Orch!Steps(q, route) = <<"generalist", solver, "generalist">>
  BY DEF Orch!Steps, Orch!Routes
<1> DEFINE s == Orch!Steps(q, route)
<1> HIDE DEF solver, s
<1>3. s \in Seq(Step) /\ s # <<>>
  <2>1. CASE s = <<"generalist">>
    BY <1>1, <2>1
  <2>2. CASE s = <<solver>>
    BY <1>1, <2>2
  <2>3. CASE s = <<"generalist", solver, "generalist">>
    BY <1>1, <2>3
  <2> QED BY <1>2, <2>1, <2>2, <2>3 DEF s
<1> QED BY <1>3 DEF s

\* The step at hand is done: the request is still sound.
LEMMA AdvancedSound ==
  ASSUME NEW r \in Requests, RequestSound(req[r]), req[r].pc \notin {"none", "ended"},
         NEW g \in Gains \ {"empty"}, RequestSound(Orch!NoRequest)
  PROVE  RequestSound(Orch!Advanced(r, g))
<1> DEFINE x == req[r]
<1>1. /\ x \in RequestRecord /\ "empty" \notin x.got
      /\ x.todo # <<>>
      /\ ~ x.forced => AgreesWith(x.query, x.route)
  BY DEF RequestSound
<1>2. x.got \cup {g} \in SUBSET Gains /\ "empty" \notin x.got \cup {g}
  BY <1>1 DEF RequestRecord
<1>3. CASE Len(x.todo) = 1
  <2>1. Orch!Advanced(r, g) = [Orch!NoRequest EXCEPT !.pc = "ended", !.got = x.got \cup {g}]
    BY <1>3 DEF Orch!Advanced, Orch!Ended
  <2>2. Orch!NoRequest \in RequestRecord
    BY DEF RequestSound
  <2> QED BY <1>2, <2>1, <2>2, ZenonT(60) DEF RequestSound, RequestRecord
<1>4. CASE Len(x.todo) # 1
  <2> DEFINE y == Orch!Advanced(r, g)
  <2>1. y = [x EXCEPT !.pc = "step", !.todo = Tail(@), !.session = 0, !.got = @ \cup {g}]
    BY <1>4 DEF Orch!Advanced
  <2>2. x.todo \in Seq(Step) /\ x.todo # <<>> /\ 0 \in 0..MaxSessions
    BY <1>1, OrchestratorAssumption DEF RequestRecord
  <2>3. /\ Tail(x.todo) \in Seq(Step) /\ Len(Tail(x.todo)) = Len(x.todo) - 1
        /\ \A m \in 1..Len(Tail(x.todo)) : Tail(x.todo)[m] = x.todo[m + 1]
    BY <2>2, HeadTailProperties
  <2>4. Len(x.todo) \in Nat /\ DOMAIN x.todo = 1..Len(x.todo) /\ Len(x.todo) # 0
        /\ DOMAIN Tail(x.todo) = 1..(Len(x.todo) - 1)
    BY <2>2, <2>3, LenProperties, EmptySeq
  <2>5. Tail(x.todo) # <<>>
    <3>1. ASSUME NEW n, n \in Nat, n # 1 PROVE n - 1 # 0
      BY <3>1
    <3>2. Len(x.todo) - 1 # 0
      BY <1>4, <2>4, <3>1
    <3>3. Len(Tail(x.todo)) # 0
      BY <2>3, <3>2
    <3>4. Len(<<>>) = 0
      OBVIOUS
    <3> QED BY <3>3, <3>4, Zenon
  <2>7. /\ y.todo = Tail(x.todo) /\ y.query = x.query /\ y.route = x.route
        /\ y.forced = x.forced /\ y.got = x.got \cup {g}
    BY <1>1, <2>1 DEF RequestRecord
  <2>8. y \in RequestRecord
    BY <1>1, <1>2, <2>1, <2>2, <2>3, ZenonT(60) DEF RequestRecord
  <2> HIDE DEF y
  <2> QED BY <1>1, <1>2, <2>5, <2>7, <2>8 DEF RequestSound, y
<1> QED BY <1>3, <1>4

\* A request that has not come, and one that has ended without an answer.
LEMMA NoRequestSound ==
  RequestSound(Orch!NoRequest) /\ RequestSound(Orch!Ended({}))
<1>1. /\ (CHOOSE q \in Queries : TRUE) \in Queries
      /\ <<>> \in Seq(Step) /\ 0 \in 0..MaxSessions
  BY OrchestratorAssumption
<1>2. Orch!NoRequest \in RequestRecord /\ Orch!NoRequest.got = {} /\ Orch!NoRequest.pc = "none"
  BY <1>1 DEF Orch!NoRequest, RequestRecord, Orch!Routes
<1>3. /\ Orch!Ended({}) \in RequestRecord
      /\ Orch!Ended({}).got = {} /\ Orch!Ended({}).pc = "ended"
  BY <1>2 DEF Orch!Ended, RequestRecord
<1> QED BY <1>2, <1>3 DEF RequestSound

\* _get_session() keeps the numbers of sessions within their bounds.
LEMMA TakenTypes ==
  ASSUME SessionTypes, Orch!TakesSession
  PROVE  SessionTypes' /\ Orch!CurrentSession \in 0..MaxSessions
<1>1. MaxSessions \in Nat
  BY OrchestratorAssumption
<1>2. overlap' \in BOOLEAN
  BY Zenon DEF SessionTypes, Orch!TakesSession
<1>3. CASE session \in open
  BY <1>1, <1>2, <1>3 DEF SessionTypes, Orch!TakesSession, Orch!CurrentSession
<1>4. CASE session \notin open
  BY <1>1, <1>2, <1>4 DEF SessionTypes, Orch!TakesSession, Orch!CurrentSession
<1> QED BY <1>3, <1>4

\* The session of a step that takes none.
LEMMA SessionsStay ==
  ASSUME SessionTypes, UNCHANGED Orch!sessionVars
  PROVE  SessionTypes'
<1>1. session' = session /\ open' = open /\ created' = created /\ closing' = closing
  BY DEF Orch!sessionVars
<1>2. overlap' = overlap
  BY DEF Orch!sessionVars
<1> QED BY <1>1, <1>2 DEF SessionTypes

\* start() and the halves of cleanup().
LEMMA LifecycleBacked ==
  ASSUME BackedInv, Orch!Start \/ Orch!CleanupBegins \/ Orch!CleanupEnds
  PROVE  BackedInv'
<1>1. /\ req' = req /\ installation' = installation /\ learned' = learned
      /\ cached' = cached /\ restarts' = restarts /\ UNCHANGED Orch!routeVars
  BY DEF Orch!Start, Orch!CleanupBegins, Orch!CleanupEnds
<1>2. SessionTypes'
  <2>1. MaxSessions \in Nat /\ SessionTypes
    BY OrchestratorAssumption DEF BackedInv
  <2>2. overlap' \in BOOLEAN
    BY <2>1, Zenon DEF SessionTypes, Orch!Start, Orch!CleanupBegins, Orch!CleanupEnds
  <2>3. CASE Orch!Start
    BY <2>1, <2>2, <2>3 DEF SessionTypes, Orch!Start, Orch!CurrentSession
  <2>4. CASE Orch!CleanupBegins
    BY <2>1, <2>2, <2>4 DEF SessionTypes, Orch!CleanupBegins
  <2>5. CASE Orch!CleanupEnds
    BY <2>1, <2>2, <2>5 DEF SessionTypes, Orch!CleanupEnds
  <2> QED BY <2>3, <2>4, <2>5
<1>3. /\ CacheTypes' /\ CacheSound(routes)' /\ CacheSound(disk)'
      /\ model' = model /\ tried' = tried
  BY <1>1, CachesStay DEF BackedInv
<1>4. req' \in [Requests -> RequestRecord] /\ \A p \in Requests : RequestSound(req[p])'
  BY <1>1, <1>3, RequestsStay
<1>5. learned' \subseteq Learned /\ \A t \in learned' : Accepted(t)'
  BY <1>1, LearnedStays
<1> QED BY <1>1, <1>2, <1>3, <1>4, <1>5 DEF BackedInv

\* run(): a request with the route of its kind, or the caller's.
LEMMA RunBacked ==
  ASSUME BackedInv, NEW r \in Requests, Orch!Run(r)
  PROVE  BackedInv'
<1>1. /\ installation' = installation /\ learned' = learned
      /\ cached' = cached /\ restarts' = restarts /\ UNCHANGED Orch!sessionVars
  BY DEF Orch!Run
<1> DEFINE RouteOf(q, forced) == IF forced = "no" THEN Orch!ClassifyRoute(q) ELSE forced
<1>0. PICK q \in Queries, forced \in Forced \cup {"no"} :
           /\ req' = [req EXCEPT ![r] = [pc |-> "step", query |-> q,
                        route |-> RouteOf(q, forced), forced |-> forced # "no",
                        todo |-> Orch!Steps(q, RouteOf(q, forced)),
                        session |-> 0, got |-> {}]]
           /\ IF forced = "no" THEN Orch!Classifies(q) ELSE UNCHANGED Orch!routeVars
  BY DEF Orch!Run
<1> DEFINE route == RouteOf(q, forced)
<1>2. /\ route = IF forced = "no" THEN Orch!ClassifyRoute(q) ELSE forced
      /\ req' = [req EXCEPT ![r] = [pc |-> "step", query |-> q, route |-> route,
                                    forced |-> forced # "no", todo |-> Orch!Steps(q, route),
                                    session |-> 0, got |-> {}]]
      /\ IF forced = "no" THEN Orch!Classifies(q) ELSE UNCHANGED Orch!routeVars
  BY <1>0
<1> HIDE DEF route, RouteOf
<1>3. CacheTypes /\ CacheSound(routes) /\ CacheSound(disk)
  BY DEF BackedInv
<1>4. route \in Orch!Routes /\ (forced = "no" => AgreesWith(q, route))
  <2>1. CASE forced = "no"
    BY <1>2, <1>3, <2>1, RouteOfKind
  <2>2. CASE forced # "no"
    BY <1>2, <2>2, OrchestratorAssumption DEF Orch!Routes
  <2> QED BY <2>1, <2>2
<1>5. /\ CacheTypes' /\ CacheSound(routes)' /\ CacheSound(disk)'
      /\ model' = model /\ tried' = tried
  <2>1. CASE forced = "no"
    BY <1>2, <1>3, <2>1, ClassifiesStep
  <2>2. CASE forced # "no"
    BY <1>2, <1>3, <2>2, CachesStay
  <2> QED BY <2>1, <2>2
<1> DEFINE x == [pc |-> "step", query |-> q, route |-> route,
                 forced |-> forced # "no", todo |-> Orch!Steps(q, route),
                 session |-> 0, got |-> {}]
<1>6. RequestSound(x)
  <2>1. Orch!Steps(q, route) \in Seq(Step) /\ Orch!Steps(q, route) # <<>>
    BY <1>4, StepsOfRoute
  <2>3. 0 \in 0..MaxSessions
    BY OrchestratorAssumption
  <2>4. (forced # "no") \in BOOLEAN
    OBVIOUS
  <2>5. x \in RequestRecord
    BY <1>4, <2>1, <2>3, <2>4 DEF RequestRecord
  <2>6. ~ x.forced => forced = "no"
    OBVIOUS
  <2>7. x.query = q /\ x.route = route /\ x.got = {} /\ x.todo # <<>>
    BY <2>1
  <2> HIDE DEF x
  <2> QED BY <1>4, <2>5, <2>6, <2>7 DEF RequestSound
<1>7. req' \in [Requests -> RequestRecord] /\ \A p \in Requests : RequestSound(req[p])'
  <2>1. req' = [req EXCEPT ![r] = x]
    BY <1>2
  <2> HIDE DEF x
  <2> QED BY <1>1, <1>5, <1>6, <2>1, RequestMoves
<1>8. learned' \subseteq Learned /\ \A t \in learned' : Accepted(t)'
  BY <1>1, LearnedStays
<1>9. SessionTypes'
  BY <1>1, SessionsStay DEF BackedInv
<1> QED BY <1>1, <1>5, <1>7, <1>8, <1>9 DEF BackedInv

\* A request that only moves on to another await.
LEMMA SameButStage ==
  ASSUME NEW x, RequestSound(x), x.pc \notin {"none", "ended"},
         NEW p \in {"step", "chat", "completion", "solving"}, NEW n \in 0..MaxSessions
  PROVE  RequestSound([x EXCEPT !.pc = p, !.session = n])
<1> DEFINE y == [x EXCEPT !.pc = p, !.session = n]
<1>1. x \in RequestRecord
  BY DEF RequestSound
<1>2. y \in RequestRecord
  BY <1>1 DEF RequestRecord
<1>3. /\ y.todo = x.todo /\ y.query = x.query /\ y.route = x.route
      /\ y.forced = x.forced /\ y.got = x.got
  BY <1>1 DEF RequestRecord
<1> HIDE DEF y
<1> QED BY <1>2, <1>3 DEF RequestSound, y

\* A model call takes a session.
LEMMA CallBacked ==
  ASSUME BackedInv, NEW r \in Requests, Orch!CallBegins(r) \/ Orch!LoopCalls(r)
  PROVE  BackedInv'
<1>1. /\ installation' = installation /\ learned' = learned
      /\ cached' = cached /\ restarts' = restarts /\ UNCHANGED Orch!routeVars
      /\ Orch!TakesSession
  BY DEF Orch!CallBegins, Orch!LoopCalls
<1>2. SessionTypes' /\ Orch!CurrentSession \in 0..MaxSessions
  BY <1>1, TakenTypes DEF BackedInv
<1>3. /\ CacheTypes' /\ CacheSound(routes)' /\ CacheSound(disk)'
      /\ model' = model /\ tried' = tried
  BY <1>1, CachesStay DEF BackedInv
<1>4. req' \in [Requests -> RequestRecord] /\ \A p \in Requests : RequestSound(req[p])'
  <2>1. CASE Orch!LoopCalls(r)
    <3>1. req' = req
      BY <2>1 DEF Orch!LoopCalls
    <3> QED BY <1>1, <1>3, <3>1, RequestsStay
  <2>2. CASE Orch!CallBegins(r)
    <3> DEFINE p == IF Head(req[r].todo) = "plain" THEN "completion" ELSE "chat"
               x == [req[r] EXCEPT !.pc = p, !.session = Orch!CurrentSession]
    <3>1. RequestSound(req[r]) /\ req[r].pc = "step"
      BY <2>2 DEF BackedInv, Orch!CallBegins
    <3>2. RequestSound(x)
      BY <1>2, <3>1, SameButStage
    <3>3. req' = [req EXCEPT ![r] = x]
      BY <2>2 DEF Orch!CallBegins
    <3> HIDE DEF x
    <3> QED BY <1>1, <1>3, <3>2, <3>3, RequestMoves
  <2> QED BY <2>1, <2>2
<1>5. learned' \subseteq Learned /\ \A t \in learned' : Accepted(t)'
  BY <1>1, LearnedStays
<1> QED BY <1>1, <1>2, <1>3, <1>4, <1>5 DEF BackedInv

\* A model call returns, fails over or raises.
LEMMA ReplyBacked ==
  ASSUME BackedInv, NEW r \in Requests, Orch!Chat(r) \/ Orch!Completion(r)
  PROVE  BackedInv'
<1>1. /\ installation' = installation /\ learned' = learned
      /\ cached' = cached /\ restarts' = restarts /\ UNCHANGED Orch!routeVars
      /\ UNCHANGED Orch!sessionVars
  BY DEF Orch!Chat, Orch!Completion
<1>2. SessionTypes'
  BY <1>1, SessionsStay DEF BackedInv
<1>3. /\ CacheTypes' /\ CacheSound(routes)' /\ CacheSound(disk)'
      /\ model' = model /\ tried' = tried
  BY <1>1, CachesStay DEF BackedInv
<1>4. RequestSound(req[r]) /\ req[r].pc \in {"chat", "completion"} /\ req[r] \in RequestRecord
  BY DEF BackedInv, Orch!Chat, Orch!Completion
<1>5. \/ req' = [req EXCEPT ![r] = Orch!Advanced(r, "text")]
      \/ req' = [req EXCEPT ![r] = Orch!Ended({})]
      \/ req' = [req EXCEPT ![r] = [req[r] EXCEPT !.pc = "completion", !.session = req[r].session]]
  <2>1. ASSUME NEW c \in {"text", "empty"}, Orch!Content(r, c)
        PROVE  \/ req' = [req EXCEPT ![r] = Orch!Advanced(r, "text")]
               \/ req' = [req EXCEPT ![r] = Orch!Ended({})]
    BY <2>1 DEF Orch!Content, Orch!Raises
  <2>2. [req[r] EXCEPT !.pc = "completion", !.session = req[r].session]
          = [req[r] EXCEPT !.pc = "completion"]
    BY <1>4 DEF RequestRecord
  <2>3. CASE Orch!Completion(r)
    BY <2>1, <2>3 DEF Orch!Completion
  <2>4. CASE Orch!Chat(r)
    BY <2>1, <2>2, <2>4 DEF Orch!Chat, Orch!Raises
  <2> QED BY <2>3, <2>4
<1>6. /\ RequestSound(Orch!Advanced(r, "text")) /\ RequestSound(Orch!Ended({}))
      /\ RequestSound([req[r] EXCEPT !.pc = "completion", !.session = req[r].session])
  <2>1. "text" \in Gains \ {"empty"}
    BY DEF Gains
  <2>2. req[r].session \in 0..MaxSessions
    BY <1>4 DEF RequestRecord
  <2> QED BY <1>4, <2>1, <2>2, NoRequestSound, AdvancedSound, SameButStage
<1>7. req' \in [Requests -> RequestRecord] /\ \A p \in Requests : RequestSound(req[p])'
  BY <1>1, <1>3, <1>5, <1>6, RequestMoves
<1>8. learned' \subseteq Learned /\ \A t \in learned' : Accepted(t)'
  BY <1>1, LearnedStays
<1> QED BY <1>1, <1>2, <1>3, <1>7, <1>8 DEF BackedInv

\* What run() stores was accepted by a verifier.
LEMMA StoredAccepted ==
  ASSUME BackedInv, NEW r \in Requests, NEW g,
         NEW t, t \in Orch!StoreIfVerified(r, g)
  PROVE  t \in learned \/ (t \in Learned /\ Accepted(t))
<1>1. req[r] \in RequestRecord
  BY DEF BackedInv
<1>2. SUFFICES ASSUME req[r].route = "specialist", g = "verified",
                      t = [query |-> req[r].query, result |-> g, route |-> req[r].route]
               PROVE  t \in Learned /\ Accepted(t)
  BY DEF Orch!StoreIfVerified
<1>3. t.result = "verified" /\ t.route = "specialist"
  BY <1>2
<1>4. t \in Learned
  BY <1>1, <1>2 DEF RequestRecord, Learned, Orch!Routes
<1> QED BY <1>3, <1>4 DEF Accepted

\* A solver begins, or the result cache spares it.
LEMMA SolveBeginsBacked ==
  ASSUME BackedInv, NEW r \in Requests, Orch!SolveBegins(r)
  PROVE  BackedInv'
<1>1. /\ installation' = installation /\ cached' = cached /\ restarts' = restarts
      /\ UNCHANGED Orch!sessionVars
  BY DEF Orch!SolveBegins
<1>2. SessionTypes'
  BY <1>1, SessionsStay DEF BackedInv
<1>3. RequestSound(req[r]) /\ req[r].pc = "step" /\ req[r] \in RequestRecord
  BY DEF BackedInv, Orch!SolveBegins
<1>4. req[r].query \in Queries /\ req[r].session \in 0..MaxSessions
  BY <1>3 DEF RequestRecord
<1>5. \/ /\ Head(req[r].todo) # "loop" /\ req[r].query \in cached
         /\ req' = [req EXCEPT ![r] = Orch!Advanced(r, "verified")]
         /\ learned' = Orch!StoreIfVerified(r, "verified")
         /\ UNCHANGED Orch!routeVars
      \/ /\ req' = [req EXCEPT ![r].pc = "solving"]
         /\ learned' = learned
         /\ UNCHANGED Orch!routeVars \/ Orch!Classifies(req[r].query)
  BY DEF Orch!SolveBegins
<1>6. /\ CacheTypes' /\ CacheSound(routes)' /\ CacheSound(disk)'
      /\ model' = model /\ tried' = tried
  <2>1. CacheTypes /\ CacheSound(routes) /\ CacheSound(disk)
    BY DEF BackedInv
  <2>2. CASE UNCHANGED Orch!routeVars
    BY <2>1, <2>2, CachesStay
  <2>3. CASE Orch!Classifies(req[r].query)
    BY <1>4, <2>1, <2>3, ClassifiesStep
  <2> QED BY <1>5, <2>2, <2>3
<1>7. "verified" \in Gains \ {"empty"}
  BY DEF Gains
<1>8. req' \in [Requests -> RequestRecord] /\ \A p \in Requests : RequestSound(req[p])'
  <2>1. CASE req' = [req EXCEPT ![r] = Orch!Advanced(r, "verified")]
    <3>1. RequestSound(Orch!Advanced(r, "verified"))
      BY <1>3, <1>7, NoRequestSound, AdvancedSound
    <3> QED BY <1>1, <1>6, <2>1, <3>1, RequestMoves
  <2>2. CASE req' = [req EXCEPT ![r].pc = "solving"]
    <3> DEFINE x == [req[r] EXCEPT !.pc = "solving", !.session = req[r].session]
    <3>1. x = [req[r] EXCEPT !.pc = "solving"]
      BY <1>3 DEF RequestRecord
    <3>2. req' = [req EXCEPT ![r] = x]
      BY <2>2, <3>1
    <3>3. RequestSound(x)
      BY <1>3, <1>4, SameButStage
    <3> HIDE DEF x
    <3> QED BY <1>1, <1>6, <3>2, <3>3, RequestMoves
  <2> QED BY <1>5, <2>1, <2>2
<1>9. learned' \subseteq Learned /\ \A t \in learned' : Accepted(t)'
  <2>1. CASE learned' = learned
    BY <1>1, <2>1, LearnedStays
  <2>2. CASE /\ Head(req[r].todo) # "loop" /\ req[r].query \in cached
             /\ learned' = Orch!StoreIfVerified(r, "verified")
    <3>1. \A t \in learned' : t \in learned \/ (t \in Learned /\ Accepted(t))
      BY <2>2, StoredAccepted
    <3> QED BY <1>1, <3>1, LearnedStays
  <2> QED BY <1>5, <2>1, <2>2
<1> QED BY <1>1, <1>2, <1>6, <1>8, <1>9 DEF BackedInv

\* A solver returns or raises.
LEMMA SolveEndsBacked ==
  ASSUME BackedInv, NEW r \in Requests, Orch!SolveEnds(r)
  PROVE  BackedInv'
<1>1. /\ installation' = installation /\ restarts' = restarts
      /\ UNCHANGED Orch!sessionVars /\ UNCHANGED Orch!routeVars
  BY DEF Orch!SolveEnds
<1>2. SessionTypes'
  BY <1>1, SessionsStay DEF BackedInv
<1>3. /\ CacheTypes' /\ CacheSound(routes)' /\ CacheSound(disk)'
      /\ model' = model /\ tried' = tried
  BY <1>1, CachesStay DEF BackedInv
<1>4. RequestSound(req[r]) /\ req[r].pc = "solving" /\ req[r] \in RequestRecord
  BY DEF BackedInv, Orch!SolveEnds
<1>5. cached \subseteq Queries /\ req[r].query \in Queries
  BY <1>4 DEF BackedInv, RequestRecord
<1>6. CASE req' = [req EXCEPT ![r] = Orch!Ended({})] /\ learned' = learned /\ cached' = cached
  <2>1. req' \in [Requests -> RequestRecord] /\ \A p \in Requests : RequestSound(req[p])'
    BY <1>1, <1>3, <1>6, NoRequestSound, RequestMoves
  <2>2. learned' \subseteq Learned /\ \A t \in learned' : Accepted(t)'
    BY <1>1, <1>6, LearnedStays
  <2> QED BY <1>1, <1>2, <1>3, <1>6, <2>1, <2>2 DEF BackedInv
<1>7. ASSUME NEW g \in Orch!Results(req[r].query, Head(req[r].todo)),
             req' = [req EXCEPT ![r] = Orch!Advanced(r, g)],
             learned' = Orch!StoreIfVerified(r, g),
             cached' \in {cached, cached \cup {req[r].query}}
      PROVE  BackedInv'
  <2>1. g \in Gains \ {"empty"}
    BY <1>7 DEF Orch!Results, Gains
  <2>2. RequestSound(Orch!Advanced(r, g))
    BY <1>4, <2>1, NoRequestSound, AdvancedSound
  <2>3. req' \in [Requests -> RequestRecord] /\ \A p \in Requests : RequestSound(req[p])'
    BY <1>1, <1>3, <1>7, <2>2, RequestMoves
  <2>4. \A t \in learned' : t \in learned \/ (t \in Learned /\ Accepted(t))
    BY <1>7, StoredAccepted
  <2>5. cached \subseteq cached' /\ cached' \subseteq Queries
    BY <1>5, <1>7
  <2>6. learned' \subseteq Learned /\ \A t \in learned' : Accepted(t)'
    BY <1>1, <2>4, <2>5, LearnedStays
  <2> QED BY <1>1, <1>2, <1>3, <2>3, <2>5, <2>6 DEF BackedInv
<1> QED BY <1>6, <1>7 DEF Orch!SolveEnds, Orch!Raises

\* The process restarts: the caches come back from the file.
LEMMA RestartBacked ==
  ASSUME BackedInv, Orch!Restart
  PROVE  BackedInv'
<1>1. /\ installation' = installation /\ learned' = learned /\ cached' = cached
      /\ restarts' = restarts + 1 /\ restarts < MaxRestarts
      /\ routes' = disk /\ disk' = disk
      /\ model' \in IF installation.router THEN Models ELSE {model}
      /\ req' = [r \in Requests |-> Orch!NoRequest]
  BY DEF Orch!Restart
<1>2. tried' = tried \cup {model'}
  BY DEF Orch!Restart
<1>3. SessionTypes'
  <2>1. overlap' \in BOOLEAN
    BY Zenon DEF Orch!Restart
  <2> QED BY <2>1, OrchestratorAssumption DEF Orch!Restart, SessionTypes
<1>4. CacheTypes'
  <2>1. model' \in Models
    BY <1>1 DEF BackedInv, CacheTypes
  <2> QED BY <1>1, <1>2, <2>1 DEF BackedInv, CacheTypes
<1>5. CacheSound(routes)' /\ CacheSound(disk)'
  BY <1>1, <1>2 DEF BackedInv, CacheSound
<1>6. req' \in [Requests -> RequestRecord] /\ \A p \in Requests : RequestSound(req[p])'
  <2>1. /\ Orch!NoRequest \in RequestRecord
        /\ Orch!NoRequest.got = {} /\ Orch!NoRequest.pc = "none"
    BY NoRequestSound DEF RequestSound, Orch!NoRequest
  <2>2. \A p \in Requests : req'[p] = Orch!NoRequest
    BY <1>1
  <2> QED BY <1>1, <2>1, <2>2 DEF RequestSound
<1>7. learned' \subseteq Learned /\ \A t \in learned' : Accepted(t)'
  BY <1>1, LearnedStays
<1>8. restarts' \in 0..MaxRestarts
  BY <1>1, OrchestratorAssumption DEF BackedInv
<1>9. cached' \subseteq Queries /\ installation' \in Installations
  BY <1>1 DEF BackedInv
<1> QED BY <1>3, <1>4, <1>5, <1>6, <1>7, <1>8, <1>9 DEF BackedInv

\* A new orchestrator has answered nobody.
LEMMA BackedInit == Orch!Init => BackedInv
<1> SUFFICES ASSUME Orch!Init PROVE BackedInv
  OBVIOUS
<1>1. /\ installation \in Installations /\ model = CHOOSE m \in Models : TRUE
      /\ routes = <<>> /\ disk = <<>> /\ session = 0 /\ open = {} /\ created = 0 /\ closing = 0
      /\ req = [r \in Requests |-> Orch!NoRequest]
      /\ learned = {} /\ cached \in IF installation.clr THEN Inherited ELSE {{}}
      /\ restarts = 0
  BY DEF Orch!Init
<1>2. overlap \in BOOLEAN /\ tried = {model}
  BY Zenon DEF Orch!Init
<1>3. SessionTypes
  BY <1>1, <1>2, OrchestratorAssumption DEF SessionTypes
<1>4. model \in Models
  BY <1>1, OrchestratorAssumption
<1>5. <<>> \in Seq(RouteEntry) /\ Len(<<>>) = 0 /\ DOMAIN <<>> = {}
  OBVIOUS
<1>6. CacheTypes /\ CacheSound(routes) /\ CacheSound(disk)
  BY <1>1, <1>2, <1>4, <1>5, OrchestratorAssumption DEF CacheTypes, CacheSound
<1>7. req \in [Requests -> RequestRecord] /\ \A p \in Requests : RequestSound(req[p])
  BY <1>1, NoRequestSound DEF RequestSound
<1>8. cached \subseteq Queries
  BY <1>1, OrchestratorAssumption
<1>9. restarts \in 0..MaxRestarts
  BY <1>1, OrchestratorAssumption
<1> QED BY <1>1, <1>3, <1>6, <1>7, <1>8, <1>9 DEF BackedInv

\* Every step of the orchestrator keeps it.
LEMMA BackedStep == BackedInv /\ [Orch!Next]_orchVars => BackedInv'
<1> SUFFICES ASSUME BackedInv, [Orch!Next]_orchVars PROVE BackedInv'
  OBVIOUS
<1>1. CASE UNCHANGED orchVars
  <2>1. /\ installation' = installation /\ learned' = learned /\ cached' = cached
        /\ restarts' = restarts /\ req' = req
    BY <1>1 DEF orchVars
  <2>2. UNCHANGED Orch!routeVars /\ UNCHANGED Orch!sessionVars
    BY <1>1 DEF orchVars, Orch!routeVars, Orch!sessionVars
  <2>3. SessionTypes'
    BY <2>2, SessionsStay DEF BackedInv
  <2>4. /\ CacheTypes' /\ CacheSound(routes)' /\ CacheSound(disk)'
        /\ model' = model /\ tried' = tried
    BY <2>2, CachesStay DEF BackedInv
  <2>5. req' \in [Requests -> RequestRecord] /\ \A p \in Requests : RequestSound(req[p])'
    BY <2>1, <2>4, RequestsStay
  <2>6. learned' \subseteq Learned /\ \A t \in learned' : Accepted(t)'
    BY <2>1, LearnedStays
  <2> QED BY <2>1, <2>3, <2>4, <2>5, <2>6 DEF BackedInv
<1> QED BY <1>1, LifecycleBacked, RunBacked, CallBacked, ReplyBacked, SolveBeginsBacked,
           SolveEndsBacked, RestartBacked DEF Orch!Next

\* It is what the run checks, and more.
LEMMA BackedAnswers == BackedInv => AnswersBacked
<1> SUFFICES ASSUME BackedInv PROVE AnswersBacked
  OBVIOUS
<1>1. Orch!TypeOK
  <2>1. overlap \in BOOLEAN /\ tried \subseteq Models
    BY DEF BackedInv, SessionTypes, CacheTypes
  <2>2. /\ installation \in Installations /\ model \in Models
        /\ \A c \in {routes, disk} :
             c \in Seq([query : Queries, route : Orch!Routes]) /\ Len(c) <= RouteCache
        /\ session \in 0..MaxSessions /\ open \subseteq 1..MaxSessions
        /\ created \in 0..MaxSessions /\ closing \in 0..MaxSessions
        /\ cached \subseteq Queries /\ restarts \in 0..MaxRestarts
    BY DEF BackedInv, SessionTypes, CacheTypes, RouteEntry
  <2>3. req \in [Requests -> [pc : {"none", "step", "chat", "completion", "solving", "ended"},
                              query : Queries, route : Orch!Routes, forced : BOOLEAN,
                              todo : Seq(Orch!ModelCalls \cup {"clr", "verifiedClr", "loop"}),
                              session : 0..MaxSessions,
                              got : SUBSET {"text", "empty", "weak", "verified", "none"}]]
    BY DEF BackedInv, RequestRecord, Step, Gains
  <2>4. learned \subseteq [query : Queries, result : {"weak", "verified"}, route : Orch!Routes]
    BY DEF BackedInv, Learned
  <2> QED BY <2>1, <2>2, <2>3, <2>4 DEF Orch!TypeOK
<1>2. Orch!AnswersBacked
  BY <1>1 DEF BackedInv, RequestSound, Accepted, Orch!AnswersBacked
<1>3. Orch!RoutesAgree
  BY DEF BackedInv, RequestSound, AgreesWith, Orch!Routed, Orch!RoutesAgree
<1> QED BY <1>2, <1>3 DEF AnswersBacked

\* Answers rest on what was said and verified: no answer on an empty reply, no
\* trajectory stored that no verifier accepted.  A request nobody forced gets
\* the route of its type where the type decides, and else what the router says
\* by a model it has been started with, whatever the route cache has evicted or
\* reloaded.
THEOREM AnswersAreBacked == AnsweringSpec => []AnswersBacked
<1>1. AnsweringInit => BackedInv
  BY BackedInit DEF AnsweringInit
<1>2. BackedInv /\ [AnsweringNext]_answeringVars => BackedInv'
  BY StepOfEachPart, BackedStep
<1> QED BY <1>1, <1>2, BackedAnswers, PTL DEF AnsweringSpec

-------------------------------------------------------------------------------
(* Scores and the best trajectory of claim-level reasoning.                  *)

\* The verified claims of a trajectory, if it has any.
Shares == (0..5) \cup {-1}

AtMost(S, f, top) == \A i \in S : f[i] <= top
HasFirstBest(S, f) == \E i \in S : \A j \in S : f[j] < f[i] \/ (f[j] = f[i] /\ i <= j)

\* Of a set of scored positions there is a first best one.
LEMMA FirstBest ==
  ASSUME NEW S, S \subseteq Nat, S # {}, NEW f \in [S -> Nat], NEW top \in Nat, AtMost(S, f, top)
  PROVE  HasFirstBest(S, f)
<1>0. \A i \in S : f[i] \in Nat /\ f[i] <= top
  BY DEF AtMost
<1> DEFINE short == {top - f[i] : i \in S}
<1>1. short \in SUBSET Nat /\ short # {}
  <2>1. ASSUME NEW i \in S PROVE top - f[i] \in Nat
    <3>1. f[i] \in Nat /\ f[i] <= top
      BY <1>0
    <3> QED BY <3>1
  <2> QED BY <2>1
<1>2. PICK d \in short : \A e \in short : d <= e
  BY <1>1, ForemostExists
<1>3. PICK k \in S : d = top - f[k]
  OBVIOUS
<1> DEFINE best == {i \in S : f[i] = f[k]}
<1>4. best \in SUBSET Nat /\ best # {}
  BY <1>3
<1>5. PICK i \in best : \A j \in best : i <= j
  BY <1>4, ForemostExists
<1>6. ASSUME NEW j \in S PROVE f[j] < f[i] \/ (f[j] = f[i] /\ i <= j)
  <2>1. f[j] \in Nat /\ f[k] \in Nat /\ f[i] = f[k] /\ f[j] <= top /\ f[k] <= top
    BY <1>0, <1>3, <1>5
  <2>2. top - f[j] \in short
    BY <1>6
  <2>3. top - f[k] <= top - f[j]
    BY <1>2, <1>3, <2>2
  <2>4. CASE f[j] = f[k]
    BY <1>5, <2>1, <2>4
  <2>5. CASE f[j] # f[k]
    BY <2>1, <2>3, <2>5
  <2> QED BY <2>4, <2>5
<1> QED BY <1>5, <1>6 DEF HasFirstBest

\* The score of a trajectory is within the cap.
LEMMA ScoreCapped ==
  ASSUME NEW p \in Shares, NEW c \in {"agrees", "contradicted", "unknown"}
  PROVE  Clr!Reliability(p, c) \in Nat /\ Clr!Reliability(p, c) <= 6500
<1>1. /\ p \in (0..5) \cup {-1} /\ Clr!Claims = 5 /\ Clr!Cap = 6500 /\ Clr!Unscored = -1
      /\ Clr!Full = 10000
  BY DEF Shares, Clr!Claims, Clr!Cap, Clr!Unscored, Clr!Full
<1>2. CASE p = -1
  BY <1>1, <1>2 DEF Clr!Reliability
<1>3. CASE p \in 0..5
  <2> DEFINE base == IF p < 5 THEN (p * 3000) \div 5 ELSE 10000
  <2>1. base \in Nat
    BY <1>3
  <2> HIDE DEF base
  <2>2. (base * 3) \div 4 \in Nat
    BY <2>1
  <2> DEFINE adjusted == CASE c = "agrees"       -> Clr!Lesser(base + 500, 6500)
                           [] c = "contradicted" -> (base * 3) \div 4
                           [] OTHER -> base
  <2>3. \/ adjusted = Clr!Lesser(base + 500, 6500)
        \/ adjusted = (base * 3) \div 4
        \/ adjusted = base
    OBVIOUS
  <2>4. Clr!Reliability(p, c) = Clr!Lesser(adjusted, 6500)
    BY <1>1, <1>3 DEF Clr!Reliability, base
  <2> HIDE DEF adjusted
  <2>5. adjusted \in Nat
    <3>1. Clr!Lesser(base + 500, 6500) \in Nat
      BY <2>1 DEF Clr!Lesser
    <3>2. CASE adjusted = Clr!Lesser(base + 500, 6500)
      BY <3>1, <3>2
    <3>3. CASE adjusted = (base * 3) \div 4
      BY <2>2, <3>3
    <3>4. CASE adjusted = base
      BY <2>1, <3>4
    <3> QED BY <2>3, <3>2, <3>3, <3>4
  <2> QED BY <2>4, <2>5 DEF Clr!Lesser
<1> QED BY <1>1, <1>2, <1>3

\* An answered trajectory the other traces agree with scores better than one they
\* contradict whose claims did no better, unless both have full marks.
LEMMA AgreedScoresBetter ==
  ASSUME NEW p \in (0..4) \cup {-1}, NEW q \in 0..5, p <= q
  PROVE  Clr!Reliability(p, "contradicted") < Clr!Reliability(q, "agrees")
<1>1. Clr!Claims = 5 /\ Clr!Cap = 6500 /\ Clr!Unscored = -1 /\ Clr!Full = 10000
  BY DEF Clr!Claims, Clr!Cap, Clr!Unscored, Clr!Full
<1> DEFINE pbase == (p * 3000) \div 5
           qbase == IF q < 5 THEN (q * 3000) \div 5 ELSE 10000
<1>2. CASE p = -1
  <2>1. Clr!Reliability(p, "contradicted") = 0
    BY <1>1, <1>2 DEF Clr!Reliability
  <2>2. Clr!Reliability(q, "agrees") = Clr!Lesser(Clr!Lesser(qbase + 500, 6500), 6500)
    BY <1>1 DEF Clr!Reliability
  <2>3. qbase \in Nat
    OBVIOUS
  <2> HIDE DEF qbase
  <2> QED BY <2>1, <2>2, <2>3 DEF Clr!Lesser
<1>3. CASE p \in 0..4
  <2>1. Clr!Reliability(p, "contradicted") = Clr!Lesser((pbase * 3) \div 4, 6500)
    BY <1>1, <1>3 DEF Clr!Reliability
  <2>2. Clr!Reliability(q, "agrees") = Clr!Lesser(Clr!Lesser(qbase + 500, 6500), 6500)
    BY <1>1 DEF Clr!Reliability
  <2>3. pbase \in Nat /\ pbase <= 2400 /\ qbase \in Nat /\ pbase <= qbase
    BY <1>3
  <2> HIDE DEF pbase, qbase
  <2>4. (pbase * 3) \div 4 <= pbase /\ (pbase * 3) \div 4 \in Nat
    BY <2>3
  <2> QED BY <2>1, <2>2, <2>3, <2>4 DEF Clr!Lesser
<1> QED BY <1>2, <1>3

\* The trajectories of a run and those that count.
LEMMA Positions ==
  ASSUME NEW s \in Seq(Clr!Slot)
  PROVE  /\ Len(s) \in Nat /\ DOMAIN s = 1..Len(s) /\ DOMAIN s \subseteq Nat
         /\ IsFiniteSet(DOMAIN s)
         /\ \A i \in DOMAIN s : s[i] \in Clr!Slot
         /\ Clr!Answered(s) \subseteq Clr!Produced(s) /\ Clr!Produced(s) \subseteq DOMAIN s
         /\ Clr!Boxed(s) \subseteq Clr!Answered(s)
<1>1. Len(s) \in Nat /\ DOMAIN s = 1..Len(s)
  BY LenProperties
<1>2. IsFiniteSet(1..Len(s))
  BY <1>1, FS_Interval
<1>3. \A i \in DOMAIN s : s[i] \in Clr!Slot
  BY <1>1, ElementOfSeq
<1> QED BY <1>1, <1>2, <1>3 DEF Clr!Answered, Clr!Produced, Clr!Boxed

\* What a trajectory scores by itself is within the cap.
LEMMA FinalScoreCapped ==
  ASSUME NEW s \in Seq(Clr!Slot), NEW i \in DOMAIN s
  PROVE  /\ Clr!FinalScore(s, i) \in Nat /\ Clr!FinalScore(s, i) <= 6500
         /\ Clr!FirstScore(s, i) \in Nat /\ Clr!FirstScore(s, i) <= 6500
<1>1. s[i] \in Clr!Slot
  BY Positions
<1>2. s[i].passed \in Shares
  BY <1>1 DEF Shares, Clr!Slot, Clr!Claims, Clr!Unscored
<1>3. Clr!Consistency(s, i) \in {"agrees", "contradicted", "unknown"}
  BY DEF Clr!Consistency
<1>4. ASSUME NEW c \in {"agrees", "contradicted", "unknown"}
      PROVE  Clr!Reliability(s[i].passed, c) \in Nat /\ Clr!Reliability(s[i].passed, c) <= 6500
  BY <1>2, ScoreCapped
<1>5. /\ Clr!FinalScore(s, i) = Clr!Reliability(s[i].passed, Clr!Consistency(s, i))
      /\ Clr!FirstScore(s, i) = Clr!Reliability(s[i].passed, "unknown")
  BY DEF Clr!FinalScore, Clr!FirstScore
<1> QED BY <1>3, <1>4, <1>5

\* max(answered, key=score) is an answered trajectory of the best score.
LEMMA BestAnswered ==
  ASSUME NEW s \in Seq(Clr!Slot), Clr!Answered(s) # {}
  PROVE  /\ Clr!BestOfFirst(s) \in Clr!Answered(s)
         /\ Clr!BestOfAll(s) \in Clr!Answered(s)
         /\ \A j \in Clr!Answered(s) : Clr!FinalScore(s, j) <= Clr!FinalScore(s, Clr!BestOfAll(s))
<1> DEFINE A == Clr!Answered(s)
<1>1. A \subseteq Nat /\ A # {} /\ \A i \in A : i \in DOMAIN s
  BY Positions
<1>2. /\ \A i \in A : Clr!FinalScore(s, i) \in Nat /\ Clr!FinalScore(s, i) <= 6500
      /\ \A i \in A : Clr!FirstScore(s, i) \in Nat /\ Clr!FirstScore(s, i) <= 6500
  BY <1>1, FinalScoreCapped
<1> HIDE DEF A
<1> DEFINE f == [i \in A |-> Clr!FirstScore(s, i)]
           g == [i \in A |-> Clr!FinalScore(s, i)]
<1>3. /\ f \in [A -> Nat] /\ AtMost(A, f, 6500)
      /\ g \in [A -> Nat] /\ AtMost(A, g, 6500)
  BY <1>2 DEF AtMost
<1> HIDE DEF f, g
<1>4. HasFirstBest(A, f) /\ HasFirstBest(A, g)
  <2>1. PICK t \in Nat : t = 6500
    OBVIOUS
  <2>2. A # {} /\ A \subseteq Nat
    BY <1>1
  <2>3. AtMost(A, f, t) /\ AtMost(A, g, t)
    BY <1>3, <2>1
  <2>4. f \in [A -> Nat] /\ g \in [A -> Nat]
    BY <1>3
  <2>5. HasFirstBest(A, f)
    BY <2>2, <2>3, <2>4, FirstBest, Zenon
  <2>6. HasFirstBest(A, g)
    BY <2>2, <2>3, <2>4, FirstBest, Zenon
  <2> QED BY <2>5, <2>6
<1>5. \E i \in A : \A j \in A :
        Clr!FirstScore(s, j) < Clr!FirstScore(s, i)
          \/ (Clr!FirstScore(s, j) = Clr!FirstScore(s, i) /\ i <= j)
  <2>1. \E i \in A : \A j \in A : f[j] < f[i] \/ (f[j] = f[i] /\ i <= j)
    BY <1>4 DEF HasFirstBest
  <2> QED BY <2>1 DEF f
<1>6. \E i \in A : \A j \in A :
        Clr!FinalScore(s, j) < Clr!FinalScore(s, i)
          \/ (Clr!FinalScore(s, j) = Clr!FinalScore(s, i) /\ i <= j)
  <2>1. \E i \in A : \A j \in A : g[j] < g[i] \/ (g[j] = g[i] /\ i <= j)
    BY <1>4 DEF HasFirstBest
  <2> QED BY <2>1 DEF g
<1>7. Clr!BestOfFirst(s) \in A
  BY <1>5 DEF Clr!BestOfFirst, Clr!First, A
<1>8. /\ Clr!BestOfAll(s) \in A
      /\ \A j \in A : \/ Clr!FinalScore(s, j) < Clr!FinalScore(s, Clr!BestOfAll(s))
                      \/ Clr!FinalScore(s, j) = Clr!FinalScore(s, Clr!BestOfAll(s))
  BY <1>6 DEF Clr!BestOfAll, Clr!First, A
<1>9. \A j \in A : Clr!FinalScore(s, j) <= Clr!FinalScore(s, Clr!BestOfAll(s))
  BY <1>2, <1>8
<1> QED BY <1>7, <1>8, <1>9 DEF A

-------------------------------------------------------------------------------
(* What holds during a run of claim-level reasoning.                         *)

\* The tasks of a run that have not failed.
Atwork(s) == {i \in DOMAIN s : s[i].state # "failed"}

\* Only what has returned has an answer, and a phase ends when every task has.
SlotsSound ==
  /\ slots \in Seq(Clr!Slot)
  /\ \A i \in DOMAIN slots : slots[i].state # "ok" => slots[i].answer = NoAnswer
  /\ phase \notin {"phase1", "phase3"} => Clr!Running(slots) = {}

\* The verifier is asked about an answer there is; in the last phase it has
\* confirmed none, and the budget of the run has been used.
StagesSound ==
  /\ phase \in {"check1", "check3"} => verifier /\ Clr!Answered(slots) # {}
  /\ phase \in {"phase1", "check1"} => verdicts = <<>>
  /\ phase \in {"phase3", "check3"} =>
       /\ \A n \in DOMAIN verdicts : verdicts[n].said # "confirms"
       /\ Len(slots) >= kTotal
  /\ ~verifier => verdicts = <<>>

\* What a finished run says.
RunSound == Clr!TrustModel /\ Clr!AgreedBeatsContradicted /\ Clr!EarlyExitExcused

RunTypes ==
  /\ adaptive \in BOOLEAN /\ verifier \in BOOLEAN /\ highRisk \in BOOLEAN /\ refuted \in BOOLEAN
  /\ maxK \in 1..OriginalMaxK
  /\ phase \in {"idle", "phase1", "check1", "phase3", "check3", "done", "raised"}
  /\ kTotal \in Nat
  /\ runs \in 0..MaxRuns
Verdict == [answer : Answers, said : Clr!Verdicts]

\* What holds during every run of claim-level reasoning.
ReasonInv ==
  /\ RunTypes /\ verdicts \in Seq(Verdict) /\ clrResult \in Clr!Result
  /\ SlotsSound /\ StagesSound /\ RunSound

\* AdaptiveCLR counts as everybody does.
LEMMA SameCount == \A S : Clr!Cardinality(S) = Cardinality(S)
BY DEF Clr!Cardinality, Cardinality

\* Tasks that have not returned.
LEMMA NewTasks ==
  ASSUME NEW n \in Nat, NEW kind \in {"light", "full"}
  PROVE  /\ Clr!Tasks(n, kind) \in Seq(Clr!Slot) /\ Len(Clr!Tasks(n, kind)) = n
         /\ \A i \in 1..n : Clr!Tasks(n, kind)[i].state = kind /\ Clr!Tasks(n, kind)[i].answer = NoAnswer
<1>1. Clr!Pending(kind) \in Clr!Slot
  BY DEF Clr!Pending, Clr!Slot, Clr!Unscored
<1>2. Clr!Pending(kind).state = kind /\ Clr!Pending(kind).answer = NoAnswer
  BY DEF Clr!Pending
<1> DEFINE t == [i \in 1..n |-> Clr!Pending(kind)]
<1>3. t \in [1..n -> Clr!Slot] /\ \A i \in 1..n : t[i] = Clr!Pending(kind)
  BY <1>1
<1>4. t \in Seq(Clr!Slot) /\ Len(t) = n
  BY <1>3
<1>5. Clr!Tasks(n, kind) = t
  BY DEF Clr!Tasks
<1> HIDE DEF t
<1> QED BY <1>2, <1>3, <1>4, <1>5

\* A task returns: the other trajectories stay as they were.
LEMMA OneGenerated ==
  ASSUME NEW s \in Seq(Clr!Slot), NEW i \in Clr!Running(s),
         NEW outcome \in Clr!Outcomes(s[i].state)
  PROVE  /\ outcome \in Clr!Slot /\ outcome.state \in {"ok", "failed"}
         /\ outcome.state # "ok" => outcome.answer = NoAnswer
         /\ [s EXCEPT ![i] = outcome] \in Seq(Clr!Slot)
         /\ Len([s EXCEPT ![i] = outcome]) = Len(s)
<1>1. Passed \subseteq 0..5 /\ Clr!Claims = 5
  BY PolicyAssumption DEF Clr!Claims
<1>2. outcome \in Clr!Made(Passed \cup {Clr!Unscored})
  BY DEF Clr!Outcomes, Clr!LightOutcomes, Clr!FullOutcomes, Clr!Made
<1>3. \/ \E x \in Answers, y \in Answers \cup {NoAnswer}, p \in Passed \cup {Clr!Unscored} :
           outcome = [state |-> "ok", answer |-> x, boxed |-> y, passed |-> p]
      \/ \E y \in Answers \cup {NoAnswer} : outcome = Clr!Mute(y)
      \/ outcome = Clr!Failed
  BY <1>2 DEF Clr!Made
<1>4. /\ outcome \in Clr!Slot /\ outcome.state \in {"ok", "failed"}
      /\ outcome.state # "ok" => outcome.answer = NoAnswer
  <2>1. CASE \E y \in Answers \cup {NoAnswer} : outcome = Clr!Mute(y)
    BY <2>1 DEF Clr!Mute, Clr!Pending, Clr!Slot
  <2>2. CASE outcome = Clr!Failed
    BY <2>2 DEF Clr!Failed, Clr!Pending, Clr!Slot
  <2>3. CASE \E x \in Answers, y \in Answers \cup {NoAnswer}, p \in Passed \cup {Clr!Unscored} :
               outcome = [state |-> "ok", answer |-> x, boxed |-> y, passed |-> p]
    BY <1>1, <2>3 DEF Clr!Slot
  <2> QED BY <1>3, <2>1, <2>2, <2>3
<1>5. /\ [s EXCEPT ![i] = outcome] \in Seq(Clr!Slot)
      /\ Len([s EXCEPT ![i] = outcome]) = Len(s)
  <2>1. i \in 1..Len(s)
    BY Positions DEF Clr!Running
  <2> QED BY <1>4, <2>1, ExceptSeq
<1> QED BY <1>4, <1>5

\* Full trajectories are added at the end.
LEMMA TasksAdded ==
  ASSUME NEW s \in Seq(Clr!Slot), NEW n \in Nat,
         \A i \in DOMAIN s : s[i].state # "ok" => s[i].answer = NoAnswer
  PROVE  /\ s \o Clr!Tasks(n, "full") \in Seq(Clr!Slot)
         /\ Len(s \o Clr!Tasks(n, "full")) = Len(s) + n
         /\ \A i \in 1..Len(s) : (s \o Clr!Tasks(n, "full"))[i] = s[i]
         /\ \A i \in 1..(Len(s) + n) : (s \o Clr!Tasks(n, "full"))[i].state # "ok" =>
                                         (s \o Clr!Tasks(n, "full"))[i].answer = NoAnswer
<1> DEFINE t == Clr!Tasks(n, "full")
<1>1. /\ t \in Seq(Clr!Slot) /\ Len(t) = n
      /\ \A i \in 1..n : t[i].state = "full" /\ t[i].answer = NoAnswer
  BY NewTasks
<1> HIDE DEF t
<1>2. /\ s \o t \in Seq(Clr!Slot) /\ Len(s \o t) = Len(s) + n
      /\ \A i \in 1..(Len(s) + n) : (s \o t)[i] = IF i <= Len(s) THEN s[i] ELSE t[i - Len(s)]
  BY <1>1, ConcatProperties
<1>3. Len(s) \in Nat /\ DOMAIN s = 1..Len(s)
  BY LenProperties
<1>4. \A i \in 1..Len(s) : (s \o t)[i] = s[i]
  BY <1>2, <1>3
<1>5. ASSUME NEW i \in 1..(Len(s) + n), (s \o t)[i].state # "ok"
      PROVE  (s \o t)[i].answer = NoAnswer
  <2>1. CASE i <= Len(s)
    <3>1. i \in DOMAIN s /\ (s \o t)[i] = s[i]
      BY <1>2, <1>3, <2>1
    <3> QED BY <1>5, <3>1
  <2>2. CASE ~ (i <= Len(s))
    <3>1. i - Len(s) \in 1..n /\ (s \o t)[i] = t[i - Len(s)]
      BY <1>2, <1>3, <2>2
    <3> QED BY <1>1, <3>1
  <2> QED BY <2>1, <2>2
<1> QED BY <1>2, <1>4, <1>5 DEF t

\* The scores there are.
LEMMA ScoresAre == \A x : x \in Clr!Scores <=> x \in Nat /\ x <= 10000
<1>1. Clr!Full = 10000
  BY DEF Clr!Full
<1>2. ASSUME NEW top \in Nat PROVE \A x : x \in 0..top <=> x \in Nat /\ x <= top
  OBVIOUS
<1>3. Clr!Full \in Nat
  BY <1>1
<1>4. \A x : x \in Clr!Scores <=> x \in Nat /\ x <= Clr!Full
  BY <1>2, <1>3, Zenon DEF Clr!Scores
<1> QED BY <1>1, <1>4

\* What a trajectory scores is a score, also blended with the verifier's.
LEMMA ScoresInRange ==
  ASSUME NEW n \in Nat, n <= 6500
  PROVE  /\ \A det \in Clr!DetScores : Clr!Blended(det, n) \in Clr!Scores
         /\ Clr!Lesser(n, Clr!Cap) \in Clr!Scores /\ Clr!Lesser(n, Clr!Cap) <= 6500
<1>1. ASSUME NEW det \in Clr!DetScores PROVE Clr!Blended(det, n) \in Clr!Scores
  <2>1. det \in Nat /\ det <= 10000
    BY <1>1 DEF Clr!DetScores, Clr!Full
  <2>2. PICK mean \in Nat : mean = (det * 7 + n * 3) \div 10 /\ mean <= 10000
    BY <2>1
  <2>3. mean \in Clr!Scores
    BY <2>2, ScoresAre
  <2>4. Clr!Blended(det, n) = mean
    BY <2>2 DEF Clr!Blended
  <2> QED BY <2>3, <2>4
<1>2. Clr!Lesser(n, Clr!Cap) \in Nat /\ Clr!Lesser(n, Clr!Cap) <= 6500
  BY DEF Clr!Cap, Clr!Lesser
<1>3. Clr!Lesser(n, Clr!Cap) \in Clr!Scores
  BY <1>2, ScoresAre
<1> QED BY <1>1, <1>2, <1>3

\* How many trajectories a run has used.
LEMMA UsedCounts ==
  ASSUME NEW s \in Seq(Clr!Slot)
  PROVE  /\ Clr!Cardinality(Clr!Produced(s)) \in Nat
         /\ Clr!Cardinality(Clr!Produced(s)) <= Len(s)
<1>1. /\ Len(s) \in Nat /\ DOMAIN s = 1..Len(s) /\ IsFiniteSet(DOMAIN s)
      /\ Clr!Produced(s) \in SUBSET DOMAIN s
  BY Positions
<1>2. Cardinality(DOMAIN s) = Len(s)
  <2>1. Cardinality(1..Len(s)) = IF 1 > Len(s) THEN 0 ELSE Len(s) - 1 + 1
    BY <1>1, FS_Interval, SMTT(60)
  <2> QED BY <1>1, <2>1
<1>3. IsFiniteSet(Clr!Produced(s)) /\ Cardinality(Clr!Produced(s)) <= Len(s)
  BY <1>1, <1>2, FS_Subset
<1>4. Cardinality(Clr!Produced(s)) \in Nat
  BY <1>3, FS_CardinalityType
<1> QED BY <1>3, <1>4, SameCount

\* What run() returns early: confirmed by the verifier, or by nobody.
ConfirmedResult(i, score) == Clr!EarlyResult(i, score, TRUE)
SelfResult(i, score) == Clr!EarlyResult(i, score, FALSE)

\* The results run() can return are results.
LEMMA EarlyTypes ==
  ASSUME RunTypes, slots \in Seq(Clr!Slot), NEW i \in Clr!Answered(slots), NEW score \in Clr!Scores
  PROVE  /\ slots[i].answer \in Answers
         /\ /\ ConfirmedResult(i, score) \in Clr!Result
            /\ ConfirmedResult(i, score).verified
            /\ ConfirmedResult(i, score).answer = slots[i].answer
            /\ ConfirmedResult(i, score).early # "none"
         /\ /\ SelfResult(i, score) \in Clr!Result
            /\ ~ SelfResult(i, score).verified
            /\ SelfResult(i, score).score <= 6500
            /\ SelfResult(i, score).early # "none"
<1>1. slots[i] \in Clr!Slot /\ slots[i].answer # NoAnswer
  BY Positions DEF Clr!Answered
<1>2. slots[i].answer \in Answers
  BY <1>1 DEF Clr!Slot
<1>3. Clr!Cardinality(Clr!Produced(slots)) \in Nat /\ kTotal \in Nat
  BY UsedCounts DEF RunTypes
<1>4. Clr!Lesser(score, Clr!Cap) \in Clr!Scores /\ Clr!Lesser(score, Clr!Cap) <= 6500
  <2>1. score \in Nat /\ score <= 10000
    BY ScoresAre
  <2>2. Clr!Lesser(score, Clr!Cap) \in Nat /\ Clr!Lesser(score, Clr!Cap) <= 6500
    BY <2>1 DEF Clr!Lesser, Clr!Cap
  <2> QED BY <2>2, ScoresAre
<1>5. /\ ConfirmedResult(i, score) \in Clr!Result
      /\ ConfirmedResult(i, score).verified
      /\ ConfirmedResult(i, score).answer = slots[i].answer
      /\ ConfirmedResult(i, score).early # "none"
  BY <1>2, <1>3 DEF ConfirmedResult, Clr!EarlyResult, Clr!Result
<1>6. /\ SelfResult(i, score) \in Clr!Result
      /\ ~ SelfResult(i, score).verified
      /\ SelfResult(i, score).score <= 6500
      /\ SelfResult(i, score).early # "none"
  BY <1>2, <1>3, <1>4 DEF SelfResult, Clr!EarlyResult, Clr!Result
<1> QED BY <1>2, <1>5, <1>6

\* After the last phase the verifier's word decides what the answer scores.
LEMMA LateTypes ==
  ASSUME RunTypes, slots \in Seq(Clr!Slot), NEW i \in Clr!Answered(slots),
         NEW v \in Clr!Verdicts \cup {"absent"}, NEW det \in Clr!DetScores \cup {0},
         v = "confirms" => det # 0
  PROVE  /\ Clr!LateResult(i, v, det) \in Clr!Result
         /\ Clr!LateResult(i, v, det).answer = slots[i].answer
         /\ slots[i].answer \in Answers
         /\ v = "confirms" => Clr!LateResult(i, v, det).verified
         /\ v # "confirms" => /\ ~ Clr!LateResult(i, v, det).verified
                              /\ Clr!LateResult(i, v, det).score <= 6500
         /\ v = "refutes" => Clr!LateResult(i, v, det).score = 0
         /\ Clr!LateResult(i, v, det).status # "error"
<1>1. slots[i] \in Clr!Slot /\ slots[i].answer # NoAnswer /\ i \in DOMAIN slots
  BY Positions DEF Clr!Answered, Clr!Produced
<1>2. slots[i].answer \in Answers
  BY <1>1 DEF Clr!Slot
<1>3. Clr!Cardinality(Clr!Produced(slots)) \in Nat /\ kTotal \in Nat
  BY UsedCounts DEF RunTypes
<1>4. Clr!FinalScore(slots, i) \in Nat /\ Clr!FinalScore(slots, i) <= 6500
  BY <1>1, FinalScoreCapped
<1> DEFINE r == Clr!LateResult(i, v, det)
           answer == slots[i].answer
           final == Clr!FinalScore(slots, i)
           used == Clr!Cardinality(Clr!Produced(slots))
           score == CASE v = "confirms" -> Clr!Blended(det, final)
                      [] v = "refutes"  -> 0
                      [] OTHER -> Clr!Lesser(final, Clr!Cap)
           confirmed == v = "confirms"
           status == CASE v = "confirms" -> "verified" [] v = "refutes" -> "refuted"
                       [] v = "unsupported" -> "unsupported" [] OTHER -> "self_only"
           method == IF v \in {"raises", "absent"} THEN "self_claims_only" ELSE "verifier"
<1>5. r = [answer |-> answer, score |-> score, verified |-> confirmed, status |-> status,
           method |-> method, early |-> "none", used |-> used, max |-> kTotal]
  BY DEF Clr!LateResult
<1>6. v = "confirms" => det \in Clr!DetScores
  OBVIOUS
<1>7. status \in {"self_only", "verified", "refuted", "unsupported"}
  OBVIOUS
<1>8. method \in {"self_claims_only", "verifier"}
  OBVIOUS
<1>9. confirmed \in BOOLEAN
  OBVIOUS
<1>10. answer \in Answers /\ used \in Nat /\ kTotal \in Nat
  BY <1>2, <1>3
<1>11. PICK n \in Nat : n = final /\ n <= 6500
  BY <1>4
<1>12. /\ v = "confirms" => score = Clr!Blended(det, n)
       /\ v = "refutes" => score = 0
       /\ v # "confirms" /\ v # "refutes" => score = Clr!Lesser(n, Clr!Cap)
  BY <1>11
<1> HIDE DEF answer, final, used, score, status, method
<1>13. /\ score \in Clr!Scores /\ (v = "refutes" => score = 0)
       /\ v # "confirms" => score <= 6500
  <2>2. /\ 0 \in Clr!Scores /\ 0 <= 6500
        /\ Clr!Lesser(n, Clr!Cap) \in Clr!Scores /\ Clr!Lesser(n, Clr!Cap) <= 6500
        /\ \A d \in Clr!DetScores : Clr!Blended(d, n) \in Clr!Scores
    <3>1. 0 \in Clr!Scores
      BY ScoresAre
    <3>2. /\ Clr!Lesser(n, Clr!Cap) \in Clr!Scores /\ Clr!Lesser(n, Clr!Cap) <= 6500
          /\ \A d \in Clr!DetScores : Clr!Blended(d, n) \in Clr!Scores
      BY <1>11, ScoresInRange
    <3> QED BY <3>1, <3>2
  <2>3. CASE v = "confirms"
    <3>1. Clr!Blended(det, n) \in Clr!Scores
      BY <1>6, <2>2, <2>3
    <3> QED BY <1>12, <2>3, <3>1
  <2>4. CASE v = "refutes"
    BY <1>12, <2>2, <2>4
  <2>5. CASE v # "confirms" /\ v # "refutes"
    BY <1>12, <2>2, <2>5
  <2> QED BY <2>3, <2>4, <2>5
<1> HIDE DEF r
<1>14. r \in Clr!Result
  <2>1. /\ answer \in Answers \cup {NoAnswer}
        /\ status \in {"none", "error", "self_only", "verified", "refuted", "unsupported"}
        /\ method \in {"none", "self_claims_only", "verifier"}
    BY <1>7, <1>8, <1>10
  <2> HIDE DEF confirmed
  <2> QED BY <1>5, <1>9, <1>10, <1>13, <2>1 DEF Clr!Result
<1>15. r.answer = answer /\ r.score = score /\ r.status = status
  BY <1>5
<1>16. r.verified = confirmed
  BY <1>5
<1>17. r.status # "error"
  BY <1>7, <1>15
<1>18. r.score = score /\ (v = "confirms" => r.verified) /\ (v # "confirms" => ~ r.verified)
  BY <1>15, <1>16 DEF confirmed
<1>19. /\ r \in Clr!Result /\ r.answer = slots[i].answer /\ slots[i].answer \in Answers
       /\ v # "confirms" => r.score <= 6500
       /\ v = "refutes" => r.score = 0
  BY <1>2, <1>13, <1>14, <1>15, <1>18 DEF answer
<1> HIDE DEF confirmed, answer
<1> QED BY <1>17, <1>18, <1>19 DEF r

\* A field of a result is set.
LEMMA StatusSet ==
  ASSUME NEW r \in Clr!Result
  PROVE  /\ [r EXCEPT !.status = "error"] \in Clr!Result
         /\ [r EXCEPT !.status = "error"].verified = r.verified
         /\ [r EXCEPT !.status = "error"].score = r.score
         /\ [r EXCEPT !.status = "error"].status = "error"
<1>1. [r EXCEPT !.status = "error"] \in Clr!Result
  BY DEF Clr!Result
<1>2. /\ [r EXCEPT !.status = "error"].verified = r.verified
      /\ [r EXCEPT !.status = "error"].score = r.score
  BY DEF Clr!Result
<1>3. [r EXCEPT !.status = "error"].status = "error"
  BY DEF Clr!Result
<1> QED BY <1>1, <1>2, <1>3, Zenon

\* So is the method.
LEMMA MethodSet ==
  ASSUME NEW r \in Clr!Result
  PROVE  /\ [r EXCEPT !.method = "self_claims_only"] \in Clr!Result
         /\ [r EXCEPT !.method = "self_claims_only"].verified = r.verified
         /\ [r EXCEPT !.method = "self_claims_only"].score = r.score
         /\ [r EXCEPT !.method = "self_claims_only"].status = r.status
<1>1. [r EXCEPT !.method = "self_claims_only"] \in Clr!Result
  BY DEF Clr!Result
<1>2. /\ [r EXCEPT !.method = "self_claims_only"].verified = r.verified
      /\ [r EXCEPT !.method = "self_claims_only"].score = r.score
  BY DEF Clr!Result
<1>3. [r EXCEPT !.method = "self_claims_only"].status = r.status
  BY DEF Clr!Result
<1> QED BY <1>1, <1>2, <1>3, Zenon

\* And what was used of the budget.
LEMMA CountsSet ==
  ASSUME NEW r \in Clr!Result, NEW n \in Nat
  PROVE  /\ [r EXCEPT !.used = n] \in Clr!Result
         /\ [r EXCEPT !.used = n].used = n /\ [r EXCEPT !.max = n].max = n
         /\ [r EXCEPT !.max = n].used = r.used
         /\ [r EXCEPT !.used = n].verified = r.verified
         /\ [r EXCEPT !.used = n].score = r.score
         /\ [r EXCEPT !.used = n].status = r.status
         /\ [r EXCEPT !.max = n] \in Clr!Result
         /\ [r EXCEPT !.max = n].verified = r.verified
         /\ [r EXCEPT !.max = n].score = r.score
         /\ [r EXCEPT !.max = n].status = r.status
<1>1. [r EXCEPT !.used = n] \in Clr!Result
  BY DEF Clr!Result
<1>2. /\ [r EXCEPT !.used = n].verified = r.verified
      /\ [r EXCEPT !.used = n].score = r.score
      /\ [r EXCEPT !.used = n].status = r.status
  BY DEF Clr!Result
<1>3. [r EXCEPT !.max = n] \in Clr!Result
  BY DEF Clr!Result
<1>4. /\ [r EXCEPT !.max = n].verified = r.verified
      /\ [r EXCEPT !.max = n].score = r.score
      /\ [r EXCEPT !.max = n].status = r.status
  BY DEF Clr!Result
<1>5. [r EXCEPT !.used = n].used = n
  BY DEF Clr!Result
<1>6. [r EXCEPT !.max = n].max = n
  BY DEF Clr!Result
<1>7. [r EXCEPT !.max = n].used = r.used
  BY DEF Clr!Result
<1> QED BY <1>1, <1>2, <1>3, <1>4, <1>5, <1>6, <1>7, Zenon

\* A run nobody answered has a result, as a run that is new.
LEMMA NoAnswerTypes ==
  ASSUME RunTypes, slots \in Seq(Clr!Slot)
  PROVE  /\ Clr!NoAnswerResult(slots) \in Clr!Result
         /\ ~ Clr!NoAnswerResult(slots).verified
         /\ Clr!NoAnswerResult(slots).score = 0
         /\ Clr!NoAnswerResult(slots).status = "error"
         /\ Clr!NoResult \in Clr!Result
<1>1. Clr!Cardinality(Clr!Produced(slots)) \in Nat /\ kTotal \in Nat
  BY UsedCounts DEF RunTypes
<1>2. Clr!NoResult \in Clr!Result /\ ~ Clr!NoResult.verified /\ Clr!NoResult.score = 0
  <2>1. 0 \in Clr!Scores
    BY ScoresAre
  <2> QED BY <2>1 DEF Clr!NoResult, Clr!Result
<1> DEFINE used == Clr!Cardinality(Clr!Produced(slots))
           r1 == [Clr!NoResult EXCEPT !.status = "error"]
           r2 == [r1 EXCEPT !.method = "self_claims_only"]
           r3 == [r2 EXCEPT !.used = used]
           r4 == [r3 EXCEPT !.max = kTotal]
<1>3. Clr!NoAnswerResult(slots) = r4
  BY DEF Clr!NoAnswerResult
<1>4. used \in Nat
  BY <1>1
<1> HIDE DEF used
<1> HIDE DEF r1, r2, r3, r4
<1>5. r1 \in Clr!Result /\ r1.verified = Clr!NoResult.verified /\ r1.score = 0 /\ r1.status = "error"
  BY <1>2, StatusSet DEF r1
<1>6. r2 \in Clr!Result /\ r2.verified = r1.verified /\ r2.score = r1.score /\ r2.status = r1.status
  BY <1>5, MethodSet DEF r2
<1>7. r3 \in Clr!Result /\ r3.verified = r2.verified /\ r3.score = r2.score /\ r3.status = r2.status
  BY <1>4, <1>6, CountsSet DEF r3
<1>8. r4 \in Clr!Result /\ r4.verified = r3.verified /\ r4.score = r3.score /\ r4.status = r3.status
  BY <1>1, <1>7, CountsSet DEF r4
<1> QED BY <1>2, <1>3, <1>5, <1>6, <1>7, <1>8

\* The verifier's word is kept.
LEMMA SaidOf ==
  ASSUME verdicts \in Seq(Verdict), NEW i, slots[i].answer \in Answers,
         NEW v \in Clr!Verdicts, Clr!Said(i, v)
  PROVE  /\ verdicts' \in Seq(Verdict)
         /\ Len(verdicts') = Len(verdicts) + 1 /\ Len(verdicts) \in Nat
         /\ DOMAIN verdicts' = 1..(Len(verdicts) + 1)
         /\ verdicts'[Len(verdicts) + 1] = [answer |-> slots[i].answer, said |-> v]
         /\ \A n \in DOMAIN verdicts : n \in DOMAIN verdicts' /\ verdicts'[n] = verdicts[n]
         /\ \A n \in DOMAIN verdicts' : n \in DOMAIN verdicts \/ n = Len(verdicts) + 1
<1> DEFINE w == [answer |-> slots[i].answer, said |-> v]
<1>1. w \in Verdict /\ verdicts' = Append(verdicts, w)
  BY DEF Verdict, Clr!Said
<1> HIDE DEF w
<1>2. /\ verdicts' \in Seq(Verdict) /\ Len(verdicts') = Len(verdicts) + 1
      /\ verdicts'[Len(verdicts) + 1] = w
      /\ \A n \in 1..Len(verdicts) : verdicts'[n] = verdicts[n]
  BY <1>1, AppendProperties
<1>3. /\ Len(verdicts) \in Nat /\ DOMAIN verdicts = 1..Len(verdicts)
      /\ DOMAIN verdicts' = 1..(Len(verdicts) + 1)
  BY <1>2, LenProperties
<1>4. \A n \in 1..(Len(verdicts) + 1) : n \in 1..Len(verdicts) \/ n = Len(verdicts) + 1
  BY <1>3
<1>5. \A n \in 1..Len(verdicts) : n \in 1..(Len(verdicts) + 1)
  BY <1>3
<1> QED BY <1>2, <1>3, <1>4, <1>5 DEF w

\* The slots as they are serve the next phase.
LEMMA SlotsStay ==
  ASSUME SlotsSound, slots' = slots, phase' = phase \/ Clr!Running(slots) = {}
  PROVE  SlotsSound'
<1>1. Clr!Running(slots)' = Clr!Running(slots)
  BY DEF Clr!Running
<1> QED BY <1>1 DEF SlotsSound

\* A run that is not over says nothing yet.
LEMMA NotOver == phase' # "done" => RunSound'
BY DEF RunSound, Clr!TrustModel, Clr!VerifiedIffConfirmed, Clr!OnlyVerifierExceedsCap,
       Clr!LastRefutationZeroes, Clr!AgreedBeatsContradicted, Clr!EarlyExitExcused, Clr!Done

\* The parts of RunSound for a run that is just over.
Over ==
  /\ clrResult'.verified <=> \E n \in DOMAIN verdicts' :
       verdicts'[n] = [answer |-> clrResult'.answer, said |-> "confirms"]
  /\ ~ clrResult'.verified => clrResult'.score <= 6500
  /\ verdicts' # <<>> /\ verdicts'[Len(verdicts')].said = "refutes" => clrResult'.score = 0

\* They are all there is to it, with the ranking and the excuse.
LEMMA OverSound ==
  ASSUME Over, Clr!AgreedBeatsContradicted', Clr!EarlyExitExcused'
  PROVE  RunSound'
BY DEF Over, RunSound, Clr!TrustModel, Clr!VerifiedIffConfirmed, Clr!OnlyVerifierExceedsCap,
       Clr!LastRefutationZeroes, Clr!AgreedBeatsContradicted, Clr!EarlyExitExcused, Clr!Done

\* An answer that was not ranked need not be the best.
LEMMA NotRanked ==
  ASSUME clrResult'.early # "none" \/ clrResult'.status # "self_only"
  PROVE  Clr!AgreedBeatsContradicted'
BY DEF Clr!AgreedBeatsContradicted

\* A run that has used its budget, is verified or has failed needs no excuse.
LEMMA NoExcuseNeeded ==
  ASSUME clrResult'.status = "error" \/ ~ (Len(slots') < kTotal') \/ clrResult'.verified
  PROVE  Clr!EarlyExitExcused'
BY DEF Clr!EarlyExitExcused

\* The answer kept in the last phase is not contradicted by traces that agree with
\* another whose claims did as well.
LEMMA LateRanking ==
  ASSUME SlotsSound, Clr!Answered(slots) # {}, NEW v, NEW det,
         slots' = slots, adaptive' = adaptive,
         clrResult' = Clr!LateResult(Clr!BestOfAll(slots), v, det)
  PROVE  Clr!AgreedBeatsContradicted'
<1> DEFINE b == Clr!BestOfAll(slots)
           A == Clr!Answered(slots)
<1>1. /\ slots \in Seq(Clr!Slot) /\ b \in A
      /\ \A j \in A : Clr!FinalScore(slots, j) <= Clr!FinalScore(slots, b)
  BY BestAnswered DEF SlotsSound
<1>2. clrResult'.answer = slots[b].answer
  BY DEF Clr!LateResult
<1>3. A \subseteq DOMAIN slots /\ \A i \in A : slots[i] \in Clr!Slot
  BY <1>1, Positions
<1> HIDE DEF b
<1>4. ASSUME NEW i \in A, NEW j \in A,
             slots[i].answer = slots[b].answer,
             \A n \in A : slots[n].answer = slots[b].answer => slots[n].passed <= slots[i].passed,
             slots[i].passed \in 0..(Clr!Claims - 1), slots[j].passed >= slots[i].passed,
             Clr!Consistency(slots, i) = "contradicted", Clr!Consistency(slots, j) = "agrees"
      PROVE  FALSE
  <2>1. /\ slots[b].passed \in (0..5) \cup {-1} /\ slots[j].passed \in (0..5) \cup {-1}
        /\ Clr!Claims = 5
    BY <1>1, <1>3 DEF Clr!Slot, Clr!Claims, Clr!Unscored
  <2>2. slots[b].passed <= slots[i].passed /\ slots[i].passed \in 0..4
    BY <1>1, <1>4, <2>1
  <2> DEFINE p == slots[b].passed
             q == slots[j].passed
  <2>3. p \in (0..4) \cup {-1} /\ q \in 0..5 /\ p <= q
    BY <1>4, <2>1, <2>2
  <2>4. Clr!Consistency(slots, b) = "contradicted"
    BY <1>4 DEF Clr!Consistency
  <2>5. /\ Clr!FinalScore(slots, b) = Clr!Reliability(p, "contradicted")
        /\ Clr!FinalScore(slots, j) = Clr!Reliability(q, "agrees")
    BY <1>4, <2>4 DEF Clr!FinalScore
  <2> HIDE DEF p, q
  <2>6. Clr!FinalScore(slots, b) < Clr!FinalScore(slots, j)
    BY <2>3, <2>5, AgreedScoresBetter
  <2>7. /\ Clr!FinalScore(slots, j) <= Clr!FinalScore(slots, b)
        /\ Clr!FinalScore(slots, b) \in Nat /\ Clr!FinalScore(slots, j) \in Nat
    BY <1>1, <1>3, FinalScoreCapped
  <2> QED BY <2>6, <2>7
<1>5. Clr!Answered(slots)' = A
  BY DEF Clr!Answered, Clr!Produced
<1>6. \A i : Clr!Consistency(slots, i)' = Clr!Consistency(slots, i)
  BY DEF Clr!Consistency, Clr!Produced
<1> QED BY <1>2, <1>4, <1>5, <1>6 DEF Clr!AgreedBeatsContradicted

\* All but the budget is as it was.
LEMMA ReasonsStay ==
  ASSUME ReasonInv, maxK' \in 1..OriginalMaxK,
         UNCHANGED <<adaptive, phase, verifier, highRisk, kTotal, slots, refuted, verdicts,
                     clrResult, runs>>
  PROVE  ReasonInv'
<1>0. /\ RunTypes /\ verdicts \in Seq(Verdict) /\ clrResult \in Clr!Result
      /\ SlotsSound /\ StagesSound /\ RunSound
  BY DEF ReasonInv
<1>1. /\ adaptive' = adaptive /\ phase' = phase /\ verifier' = verifier /\ highRisk' = highRisk
      /\ kTotal' = kTotal /\ slots' = slots /\ refuted' = refuted /\ verdicts' = verdicts
      /\ clrResult' = clrResult /\ runs' = runs
  OBVIOUS
<1>2. RunTypes'
  BY <1>0, <1>1 DEF RunTypes
<1>3. SlotsSound'
  BY <1>0, <1>1, SlotsStay
<1>4. Clr!Answered(slots)' = Clr!Answered(slots)
  BY <1>1 DEF Clr!Answered, Clr!Produced
<1>5. StagesSound'
  BY <1>0, <1>1, <1>4 DEF StagesSound
<1>6. Clr!TrustModel'
  BY <1>0, <1>1 DEF RunSound, Clr!TrustModel, Clr!VerifiedIffConfirmed,
                    Clr!OnlyVerifierExceedsCap, Clr!LastRefutationZeroes, Clr!Done
<1>7. Clr!AgreedBeatsContradicted'
  <2>1. \A i : Clr!Consistency(slots, i)' = Clr!Consistency(slots, i)
    BY <1>1 DEF Clr!Consistency, Clr!Produced
  <2>2. Clr!AgreedBeatsContradicted
    BY <1>0 DEF RunSound
  <2> QED BY <1>1, <1>4, <2>1, <2>2 DEF Clr!AgreedBeatsContradicted, Clr!Done
<1>8. Clr!EarlyExitExcused'
  BY <1>0, <1>1 DEF RunSound, Clr!EarlyExitExcused, Clr!Done
<1> QED BY <1>0, <1>1, <1>2, <1>3, <1>5, <1>6, <1>7, <1>8 DEF ReasonInv, RunSound

\* The load moves the budget of the next run only.
LEMMA AdjustSound == ASSUME ReasonInv, Clr!AdjustMaxK PROVE ReasonInv'
<1>1. PICK limit \in {2, 4, OriginalMaxK} : maxK' = Clr!Lesser(limit, OriginalMaxK)
  BY DEF Clr!AdjustMaxK
<1>2. OriginalMaxK \in Nat \ {0}
  BY PolicyAssumption
<1>3. maxK' \in 1..OriginalMaxK
  BY <1>1, <1>2 DEF Clr!Lesser
<1> QED BY <1>3, ReasonsStay DEF Clr!AdjustMaxK

\* The values run() starts with.
LEMMA StartSound == ASSUME ReasonInv, Clr!Start PROVE ReasonInv'
<1>0. /\ RunTypes /\ StagesSound
      /\ {InitialWithVerifier, InitialWithoutVerifier, OriginalMaxK, K} \subseteq Nat \ {0}
      /\ MaxRuns \in Nat
  BY PolicyAssumption DEF ReasonInv
<1>1. /\ runs < MaxRuns /\ runs' = runs + 1 /\ verifier' \in BOOLEAN /\ highRisk' \in BOOLEAN
      /\ refuted' = FALSE /\ verdicts' = <<>> /\ clrResult' = Clr!NoResult
      /\ adaptive' = adaptive /\ maxK' = maxK
  BY DEF Clr!Start
<1>2. \/ /\ phase' = "phase1" /\ kTotal' = maxK
         /\ \/ slots' = Clr!Tasks(InitialWithVerifier, "light")
            \/ slots' = Clr!Tasks(InitialWithoutVerifier, "full")
      \/ phase' = "phase3" /\ kTotal' = K /\ slots' = Clr!Tasks(K, "full")
  BY DEF Clr!Start
<1>3. PICK n \in Nat, kind \in {"light", "full"} :
        /\ slots' = Clr!Tasks(n, kind)
        /\ phase' = "phase3" => n = kTotal'
  BY <1>0, <1>2
<1>4. /\ slots' \in Seq(Clr!Slot) /\ Len(slots') = n /\ DOMAIN slots' = 1..n
      /\ \A i \in 1..n : slots'[i].answer = NoAnswer
  BY <1>3, NewTasks, LenProperties, ZenonT(60)
<1>5. phase' \in {"phase1", "phase3"} /\ kTotal' \in Nat
  BY <1>0, <1>2 DEF RunTypes
<1>6. verdicts' \in Seq(Verdict) /\ DOMAIN verdicts' = {}
  BY <1>1
<1>7. SlotsSound'
  BY <1>4, <1>5 DEF SlotsSound
<1>8. StagesSound'
  <2>1. Len(slots') \in Nat
    BY <1>4
  <2>2. phase' = "phase3" => Len(slots') >= kTotal'
    BY <1>3, <1>4, <1>5
  <2> QED BY <1>1, <1>5, <1>6, <2>2 DEF StagesSound
<1>9. RunTypes'
  <2>1. runs' \in 0..MaxRuns
    BY <1>0, <1>1 DEF RunTypes
  <2>2. refuted' \in BOOLEAN
    BY <1>1, Zenon
  <2>3. adaptive' \in BOOLEAN /\ maxK' \in 1..OriginalMaxK
    BY <1>0, <1>1 DEF RunTypes
  <2>4. phase' \in {"idle", "phase1", "check1", "phase3", "check3", "done", "raised"}
    BY <1>5
  <2>5. verifier' \in BOOLEAN /\ highRisk' \in BOOLEAN
    BY <1>1
  <2> QED BY <1>5, <2>1, <2>2, <2>3, <2>4, <2>5 DEF RunTypes
<1>10. RunSound'
  BY <1>5, NotOver
<1>11. clrResult' \in Clr!Result
  <2>1. slots \in Seq(Clr!Slot)
    BY DEF ReasonInv, SlotsSound
  <2> QED BY <1>0, <1>1, <2>1, NoAnswerTypes
<1> QED BY <1>6, <1>7, <1>8, <1>9, <1>10, <1>11 DEF ReasonInv

\* One trajectory more.
LEMMA GenerateSound ==
  ASSUME ReasonInv, NEW i \in DOMAIN slots, Clr!Generate(i)
  PROVE  ReasonInv'
<1>0. /\ RunTypes /\ verdicts \in Seq(Verdict) /\ clrResult \in Clr!Result
      /\ SlotsSound /\ StagesSound
  BY DEF ReasonInv
<1>1. /\ i \in Clr!Running(slots)
      /\ adaptive' = adaptive /\ maxK' = maxK /\ phase' = phase /\ verifier' = verifier
      /\ highRisk' = highRisk /\ kTotal' = kTotal /\ refuted' = refuted
      /\ verdicts' = verdicts /\ clrResult' = clrResult /\ runs' = runs
  BY DEF Clr!Generate
<1>2. PICK outcome \in Clr!Outcomes(slots[i].state) : slots' = [slots EXCEPT ![i] = outcome]
  BY DEF Clr!Generate
<1>3. phase = "phase1" \/ phase = "phase3"
  BY <1>0, <1>1 DEF SlotsSound
<1>4. slots \in Seq(Clr!Slot)
  BY <1>0 DEF SlotsSound
<1>5. /\ slots' \in Seq(Clr!Slot) /\ Len(slots') = Len(slots)
      /\ outcome.state # "ok" => outcome.answer = NoAnswer
  BY <1>1, <1>2, <1>4, OneGenerated
<1>6. DOMAIN slots' = DOMAIN slots /\ \A j \in DOMAIN slots : slots'[j] = IF j = i THEN outcome ELSE slots[j]
  BY <1>2, <1>4
<1>7. SlotsSound'
  <2>1. \A j \in DOMAIN slots : slots[j].state # "ok" => slots[j].answer = NoAnswer
    BY <1>0 DEF SlotsSound
  <2>2. \A j \in DOMAIN slots' : slots'[j].state # "ok" => slots'[j].answer = NoAnswer
    BY <1>5, <1>6, <2>1
  <2> QED BY <1>1, <1>3, <1>5, <2>2 DEF SlotsSound
<1>8. StagesSound'
  BY <1>0, <1>1, <1>3, <1>5 DEF StagesSound
<1>9. RunTypes'
  BY <1>0, <1>1 DEF RunTypes
<1>10. RunSound'
  BY <1>1, <1>3, NotOver
<1> QED BY <1>0, <1>1, <1>7, <1>8, <1>9, <1>10 DEF ReasonInv

\* A run that goes on, or is over without a result, with the slots it has.
LEMMA GoesOn ==
  ASSUME ReasonInv, Clr!Running(slots) = {},
         UNCHANGED <<adaptive, maxK, verifier, highRisk, kTotal, slots, refuted, verdicts,
                     clrResult, runs>>,
         \/ phase' = "raised"
         \/ verifier /\ Clr!Answered(slots) # {} /\ phase = "phase1" /\ phase' = "check1"
         \/ verifier /\ Clr!Answered(slots) # {} /\ phase = "phase3" /\ phase' = "check3"
  PROVE  ReasonInv'
<1>0. /\ RunTypes /\ verdicts \in Seq(Verdict) /\ clrResult \in Clr!Result
      /\ SlotsSound /\ StagesSound
  BY DEF ReasonInv
<1>1. /\ adaptive' = adaptive /\ maxK' = maxK /\ verifier' = verifier
      /\ highRisk' = highRisk /\ kTotal' = kTotal /\ slots' = slots /\ refuted' = refuted
      /\ verdicts' = verdicts /\ clrResult' = clrResult /\ runs' = runs
  OBVIOUS
<1>2. phase' = "raised" \/ phase' = "check1" \/ phase' = "check3"
  OBVIOUS
<1>3. SlotsSound'
  BY <1>0, <1>1, SlotsStay
<1>4. Clr!Answered(slots)' = Clr!Answered(slots)
  BY <1>1 DEF Clr!Answered, Clr!Produced
<1>5. StagesSound'
  BY <1>0, <1>1, <1>2, <1>4 DEF StagesSound
<1>6. RunTypes'
  BY <1>0, <1>1, <1>2 DEF RunTypes
<1>7. RunSound'
  BY <1>2, NotOver
<1> QED BY <1>0, <1>1, <1>3, <1>5, <1>6, <1>7 DEF ReasonInv

\* A run that is over with a result.
LEMMA FinishSound ==
  ASSUME ReasonInv, Clr!Running(slots) = {}, NEW r \in Clr!Result, Clr!Finish(r),
         verdicts' \in Seq(Verdict), refuted' \in BOOLEAN, ~ verifier => verdicts' = <<>>,
         Over, Clr!AgreedBeatsContradicted', Clr!EarlyExitExcused'
  PROVE  ReasonInv'
<1>0. /\ RunTypes /\ SlotsSound
  BY DEF ReasonInv
<1>1. /\ clrResult' = r /\ phase' = "done"
      /\ adaptive' = adaptive /\ maxK' = maxK /\ verifier' = verifier
      /\ highRisk' = highRisk /\ kTotal' = kTotal /\ slots' = slots /\ runs' = runs
  BY DEF Clr!Finish
<1>2. SlotsSound'
  BY <1>0, <1>1, SlotsStay
<1>3. StagesSound'
  BY <1>1 DEF StagesSound
<1>4. RunTypes'
  BY <1>0, <1>1 DEF RunTypes
<1>5. RunSound'
  BY OverSound
<1> QED BY <1>1, <1>2, <1>3, <1>4, <1>5 DEF ReasonInv

\* Nobody has an answer: there is nothing the verifier could have confirmed.
LEMMA NobodySound == ASSUME ReasonInv, Clr!NobodyAnswered PROVE ReasonInv'
<1>0. /\ RunTypes /\ verdicts \in Seq(Verdict) /\ SlotsSound /\ StagesSound
      /\ slots \in Seq(Clr!Slot)
  BY DEF ReasonInv, SlotsSound
<1> DEFINE r == Clr!NoAnswerResult(slots)
<1>1. /\ phase \in {"phase1", "phase3"} /\ Clr!Running(slots) = {}
      /\ Clr!Finish(r) /\ refuted' = refuted /\ verdicts' = verdicts
  BY DEF Clr!NobodyAnswered, Clr!Gathered
<1>2. r \in Clr!Result /\ ~ r.verified /\ r.score = 0 /\ r.status = "error" /\ r.answer = NoAnswer
  <2>1. r.answer = NoAnswer
    BY DEF Clr!NoAnswerResult, Clr!NoResult
  <2> QED BY <1>0, <2>1, NoAnswerTypes
<1> HIDE DEF r
<1>3. clrResult' = r
  BY <1>1 DEF Clr!Finish
<1>4. ASSUME NEW n \in DOMAIN verdicts', verdicts'[n] = [answer |-> NoAnswer, said |-> "confirms"]
      PROVE  FALSE
  <2>1. verdicts[n] \in Verdict /\ verdicts[n].answer = NoAnswer
    BY <1>0, <1>1, <1>4, ElementOfSeq, LenProperties
  <2> QED BY <2>1, PolicyAssumption DEF Verdict
<1>5. Over
  BY <1>2, <1>3, <1>4 DEF Over
<1>6. Clr!AgreedBeatsContradicted' /\ Clr!EarlyExitExcused'
  BY <1>2, <1>3, NotRanked, NoExcuseNeeded
<1>7. refuted' \in BOOLEAN /\ verdicts' \in Seq(Verdict) /\ (~ verifier => verdicts' = <<>>)
  BY <1>0, <1>1 DEF RunTypes, StagesSound
<1> QED BY <1>1, <1>2, <1>5, <1>6, <1>7, FinishSound

\* Phases 2 and 3: consensus ends the run, or the budget is used.
LEMMA BranchSound ==
  ASSUME ReasonInv, phase \in {"phase1", "check1"}, Clr!Running(slots) = {},
         Clr!Answered(slots) # {}, NEW w \in BOOLEAN, Clr!Branch(w),
         verdicts' \in Seq(Verdict), refuted' \in BOOLEAN, ~ verifier => verdicts' = <<>>,
         \A n \in DOMAIN verdicts' : verdicts'[n].said # "confirms",
         ~ w => \A n \in DOMAIN verdicts' : verdicts'[n].said # "refutes"
  PROVE  ReasonInv'
<1>0. /\ RunTypes /\ SlotsSound /\ clrResult \in Clr!Result /\ slots \in Seq(Clr!Slot)
  BY DEF ReasonInv, SlotsSound
<1> DEFINE best == Clr!BestOfFirst(slots)
           first == Clr!FirstScore(slots, best)
           left == kTotal - Clr!Cardinality(Clr!Produced(slots))
<1>1. CASE Clr!Consensus(w)
  <2>1. Clr!Finish(SelfResult(best, first))
    BY <1>1 DEF Clr!Branch, SelfResult
  <2>2. best \in Clr!Answered(slots)
    BY <1>0, BestAnswered
  <2>3. first \in Nat /\ first <= 6500
    BY <1>0, <2>2, Positions, FinalScoreCapped
  <2> HIDE DEF first, best
  <2>4. first \in Clr!Scores
    BY <2>3, ScoresAre
  <2> DEFINE r == SelfResult(best, first)
  <2>5. /\ r \in Clr!Result /\ ~ r.verified /\ r.score <= 6500 /\ r.early # "none"
    BY <1>0, <2>2, <2>4, EarlyTypes
  <2> HIDE DEF r
  <2>6. clrResult' = r /\ slots' = slots /\ highRisk' = highRisk
    BY <2>1 DEF Clr!Finish, r
  <2>7. ~ w /\ ~ highRisk /\ Clr!Unanimous(slots)
    BY <1>1 DEF Clr!Consensus, Clr!MayExitOnConsensus
  <2>8. Over
    <3>1. ~ \E n \in DOMAIN verdicts' : verdicts'[n] = [answer |-> clrResult'.answer, said |-> "confirms"]
      OBVIOUS
    <3>2. verdicts' # <<>> => verdicts'[Len(verdicts')].said # "refutes"
      <4>1. ASSUME verdicts' # <<>> PROVE Len(verdicts') \in DOMAIN verdicts'
        BY <4>1, EmptySeq, LenProperties
      <4> QED BY <2>7, <4>1
    <3> QED BY <2>5, <2>6, <3>1, <3>2 DEF Over
  <2>9. ASSUME NEW i \in DOMAIN slots, NEW j \in DOMAIN slots,
               slots[i].answer # NoAnswer, slots[j].answer # NoAnswer
        PROVE  slots[i].boxed = slots[j].boxed \/ NoAnswer \in {slots[i].boxed, slots[j].boxed}
    <3>1. slots[i].state = "ok" /\ slots[j].state = "ok"
      BY <1>0, <2>9 DEF SlotsSound
    <3>2. CASE slots[i].boxed # NoAnswer /\ slots[j].boxed # NoAnswer
      <4>1. i \in Clr!Boxed(slots) /\ j \in Clr!Boxed(slots)
        BY <2>9, <3>1, <3>2 DEF Clr!Boxed, Clr!Answered, Clr!Produced
      <4> QED BY <2>7, <4>1 DEF Clr!Unanimous
    <3> QED BY <3>2
  <2>10. Clr!EarlyExitExcused'
    BY <2>6, <2>7, <2>9 DEF Clr!EarlyExitExcused
  <2>11. Clr!AgreedBeatsContradicted'
    BY <2>5, <2>6, NotRanked
  <2>12. Clr!Finish(r) /\ r \in Clr!Result
    BY <2>1, <2>5 DEF r, Clr!Finish
  <2> QED BY <2>8, <2>10, <2>11, <2>12, FinishSound
<1>2. CASE ~ Clr!Consensus(w)
  <2>1. /\ phase' = "phase3"
        /\ slots' = IF left > 0 THEN slots \o Clr!Tasks(left, "full") ELSE slots
        /\ adaptive' = adaptive /\ maxK' = maxK /\ verifier' = verifier /\ highRisk' = highRisk
        /\ kTotal' = kTotal /\ clrResult' = clrResult /\ runs' = runs
    BY <1>2 DEF Clr!Branch
  <2>2. /\ Clr!Cardinality(Clr!Produced(slots)) \in Nat /\ kTotal \in Nat /\ Len(slots) \in Nat
        /\ Clr!Cardinality(Clr!Produced(slots)) <= Len(slots)
    BY <1>0, UsedCounts, LenProperties DEF RunTypes
  <2>3. left \in Int /\ kTotal <= Len(slots) + left
    BY <2>2
  <2> HIDE DEF left
  <2>4. /\ slots' \in Seq(Clr!Slot) /\ Len(slots') >= kTotal
        /\ \A i \in DOMAIN slots' : slots'[i].state # "ok" => slots'[i].answer = NoAnswer
    <3>0. \A i \in DOMAIN slots : slots[i].state # "ok" => slots[i].answer = NoAnswer
      BY <1>0 DEF SlotsSound
    <3>1. CASE left > 0
      <4>1. left \in Nat /\ slots' = slots \o Clr!Tasks(left, "full")
        BY <2>1, <2>3, <3>1
      <4>2. /\ slots' \in Seq(Clr!Slot) /\ Len(slots') = Len(slots) + left
            /\ \A i \in 1..(Len(slots) + left) : slots'[i].state # "ok" => slots'[i].answer = NoAnswer
        BY <1>0, <3>0, <4>1, TasksAdded
      <4>3. DOMAIN slots' = 1..(Len(slots) + left)
        BY <4>2, LenProperties
      <4> QED BY <2>2, <2>3, <4>2, <4>3
    <3>2. CASE ~ (left > 0)
      <4>1. slots' = slots /\ Len(slots) >= kTotal
        BY <2>1, <2>2, <2>3, <3>2
      <4> QED BY <1>0, <3>0, <4>1
    <3> QED BY <3>1, <3>2
  <2>5. SlotsSound'
    BY <2>1, <2>4 DEF SlotsSound
  <2>6. StagesSound'
    BY <2>1, <2>4 DEF StagesSound
  <2>7. RunTypes'
    BY <1>0, <2>1 DEF RunTypes
  <2>8. RunSound'
    BY <2>1, NotOver
  <2>9. clrResult' \in Clr!Result
    BY <1>0, <2>1
  <2> QED BY <2>5, <2>6, <2>7, <2>8, <2>9 DEF ReasonInv
<1> QED BY <1>1, <1>2

\* Without a verifier nobody has refuted anything.
LEMMA Phase1UnverifiedSound == ASSUME ReasonInv, Clr!Phase1Unverified PROVE ReasonInv'
<1>0. /\ RunTypes /\ verdicts \in Seq(Verdict) /\ StagesSound
  BY DEF ReasonInv
<1>1. /\ phase = "phase1" /\ Clr!Running(slots) = {} /\ Clr!Answered(slots) # {}
      /\ Clr!Branch(FALSE) /\ refuted' = refuted /\ verdicts' = verdicts
  BY DEF Clr!Phase1Unverified, Clr!Gathered
<1>2. verdicts' = <<>> /\ verdicts' \in Seq(Verdict)
  BY <1>0, <1>1 DEF StagesSound
<1>3. DOMAIN verdicts' = {}
  BY <1>2
<1>4. refuted' \in BOOLEAN
  BY <1>0, <1>1 DEF RunTypes
<1>5. phase \in {"phase1", "check1"} /\ FALSE \in BOOLEAN
  BY <1>1
<1>6. /\ \A n \in DOMAIN verdicts' : verdicts'[n].said # "confirms"
      /\ \A n \in DOMAIN verdicts' : verdicts'[n].said # "refutes"
  BY <1>3
<1> QED BY <1>1, <1>2, <1>4, <1>5, <1>6, BranchSound, Zenon

\* Phase 1: the verifier's word about the first best answer.
LEMMA Phase1VerdictSound ==
  ASSUME ReasonInv, NEW v \in Clr!Verdicts, Clr!Phase1Verdict(v)
  PROVE  ReasonInv'
<1>0. /\ RunTypes /\ verdicts \in Seq(Verdict) /\ SlotsSound /\ StagesSound
      /\ slots \in Seq(Clr!Slot)
  BY DEF ReasonInv, SlotsSound
<1> DEFINE best == Clr!BestOfFirst(slots)
<1>1. /\ phase = "check1" /\ Clr!Said(best, v) /\ refuted' = (v = "refutes")
      /\ IF v = "confirms"
           THEN \E det \in Clr!DetScores : Clr!Finish(ConfirmedResult(best, Clr!Blended(det, Clr!Cap)))
           ELSE Clr!Branch(v = "refutes")
  BY DEF Clr!Phase1Verdict, ConfirmedResult
<1>2. /\ verifier /\ Clr!Answered(slots) # {} /\ verdicts = <<>> /\ Clr!Running(slots) = {}
  BY <1>0, <1>1 DEF StagesSound, SlotsSound
<1>3. best \in Clr!Answered(slots)
  BY <1>0, <1>2, BestAnswered
<1> HIDE DEF best
<1>4. slots[best].answer \in Answers
  <2>1. 0 \in Clr!Scores
    BY ScoresAre
  <2> QED BY <1>0, <1>3, <2>1, EarlyTypes
<1>5. /\ verdicts' \in Seq(Verdict)
      /\ Len(verdicts') = Len(verdicts) + 1 /\ Len(verdicts) \in Nat
      /\ DOMAIN verdicts' = 1..(Len(verdicts) + 1)
      /\ verdicts'[Len(verdicts) + 1] = [answer |-> slots[best].answer, said |-> v]
  BY <1>0, <1>1, <1>4, SaidOf
<1>6. /\ Len(verdicts') = 1 /\ DOMAIN verdicts' = {1}
      /\ verdicts'[1] = [answer |-> slots[best].answer, said |-> v]
  BY <1>2, <1>5
<1>7. refuted' \in BOOLEAN
  BY <1>1
<1>8. CASE v = "confirms"
  <2>1. PICK det \in Clr!DetScores :
          Clr!Finish(ConfirmedResult(best, Clr!Blended(det, Clr!Cap)))
    BY <1>1, <1>8
  <2> DEFINE score == Clr!Blended(det, Clr!Cap)
  <2>2. score \in Clr!Scores
    <3>1. Clr!Cap \in Nat /\ Clr!Cap <= 6500
      BY DEF Clr!Cap
    <3> QED BY <3>1, ScoresInRange
  <2> HIDE DEF score
  <2> DEFINE r == ConfirmedResult(best, score)
  <2>3. /\ r \in Clr!Result /\ r.verified /\ r.answer = slots[best].answer /\ r.early # "none"
    BY <1>0, <1>3, <2>2, EarlyTypes
  <2>4. Clr!Finish(r)
    BY <2>1 DEF score
  <2> HIDE DEF r
  <2>5. clrResult' = r
    BY <2>4 DEF Clr!Finish
  <2>6. Over
    <3>1. \E n \in DOMAIN verdicts' : verdicts'[n] = [answer |-> clrResult'.answer, said |-> "confirms"]
      BY <1>6, <1>8, <2>3, <2>5
    <3>2. verdicts'[Len(verdicts')].said # "refutes"
      BY <1>6, <1>8
    <3> QED BY <2>3, <2>5, <3>1, <3>2 DEF Over
  <2>7. Clr!AgreedBeatsContradicted' /\ Clr!EarlyExitExcused'
    BY <2>3, <2>5, NotRanked, NoExcuseNeeded
  <2> QED BY <1>2, <1>5, <1>7, <2>3, <2>4, <2>6, <2>7, FinishSound
<1>9. CASE v # "confirms"
  <2> DEFINE w == v = "refutes"
  <2>1. w \in BOOLEAN /\ Clr!Branch(w)
    BY <1>1, <1>9
  <2>2. phase \in {"phase1", "check1"}
    BY <1>1
  <2>3. \A n \in DOMAIN verdicts' : verdicts'[n].said # "confirms"
    BY <1>6, <1>9
  <2>4. ~ w => \A n \in DOMAIN verdicts' : verdicts'[n].said # "refutes"
    BY <1>6
  <2> HIDE DEF w
  <2>5. ~ verifier => verdicts' = <<>>
    BY <1>2
  <2> QED BY <1>2, <1>5, <1>7, <2>1, <2>2, <2>3, <2>4, <2>5, BranchSound
<1> QED BY <1>8, <1>9

\* No verifier: the best of all, capped.
LEMMA LastUnverifiedSound == ASSUME ReasonInv, Clr!LastUnverified PROVE ReasonInv'
<1>0. /\ RunTypes /\ verdicts \in Seq(Verdict) /\ SlotsSound /\ StagesSound
      /\ slots \in Seq(Clr!Slot) /\ kTotal \in Nat
  BY DEF ReasonInv, SlotsSound, RunTypes
<1> DEFINE best == Clr!BestOfAll(slots)
           r == Clr!LateResult(best, "absent", 0)
<1>1. /\ phase = "phase3" /\ Clr!Running(slots) = {} /\ Clr!Answered(slots) # {}
      /\ ~ verifier /\ Clr!Finish(r)
      /\ refuted' = refuted /\ verdicts' = verdicts
  BY DEF Clr!LastUnverified, Clr!Gathered
<1>2. verdicts' = <<>> /\ verdicts' \in Seq(Verdict) /\ Len(slots) >= kTotal
  BY <1>0, <1>1 DEF StagesSound
<1>3. best \in Clr!Answered(slots)
  BY <1>0, <1>1, BestAnswered
<1>4. clrResult' = r /\ slots' = slots /\ kTotal' = kTotal /\ adaptive' = adaptive
  BY <1>1 DEF Clr!Finish
<1>5. Clr!AgreedBeatsContradicted'
  BY <1>0, <1>1, <1>4, LateRanking
<1> HIDE DEF best
<1>6. r \in Clr!Result /\ ~ r.verified /\ r.score <= 6500
  <2>1. "absent" \in Clr!Verdicts \cup {"absent"} /\ 0 \in Clr!DetScores \cup {0}
    OBVIOUS
  <2>2. "absent" # "confirms"
    OBVIOUS
  <2> QED BY <1>0, <1>3, <2>1, <2>2, LateTypes
<1> HIDE DEF r
<1>7. Over
  <2>1. DOMAIN verdicts' = {} /\ verdicts' = <<>>
    BY <1>2
  <2> QED BY <1>4, <1>6, <2>1 DEF Over
<1>8. Clr!EarlyExitExcused'
  <2>1. Len(slots) \in Nat
    BY <1>0, LenProperties
  <2>2. ~ (Len(slots') < kTotal')
    BY <1>0, <1>2, <1>4, <2>1
  <2> QED BY <2>2, NoExcuseNeeded
<1>9. refuted' \in BOOLEAN
  BY <1>0, <1>1 DEF RunTypes
<1> QED BY <1>1, <1>2, <1>5, <1>6, <1>7, <1>8, <1>9, FinishSound

\* The verifier's word about the best of all.
LEMMA LastVerdictSound ==
  ASSUME ReasonInv, NEW v \in Clr!Verdicts, Clr!LastVerdict(v)
  PROVE  ReasonInv'
<1>0. /\ RunTypes /\ verdicts \in Seq(Verdict) /\ SlotsSound /\ StagesSound
      /\ slots \in Seq(Clr!Slot) /\ kTotal \in Nat
  BY DEF ReasonInv, SlotsSound, RunTypes
<1>1. PICK det \in Clr!DetScores :
        /\ phase = "check3" /\ Clr!Said(Clr!BestOfAll(slots), v)
        /\ Clr!Finish(Clr!LateResult(Clr!BestOfAll(slots), v, det))
        /\ refuted' = refuted
  BY DEF Clr!LastVerdict
<1> DEFINE best == Clr!BestOfAll(slots)
           r == Clr!LateResult(best, v, det)
<1>2. /\ verifier /\ Clr!Answered(slots) # {} /\ Clr!Running(slots) = {}
      /\ Len(slots) >= kTotal
      /\ \A n \in DOMAIN verdicts : verdicts[n].said # "confirms"
  BY <1>0, <1>1 DEF StagesSound, SlotsSound
<1>3. best \in Clr!Answered(slots)
  BY <1>0, <1>2, BestAnswered
<1>4. /\ Clr!Finish(r) /\ clrResult' = r /\ slots' = slots /\ kTotal' = kTotal
      /\ adaptive' = adaptive
  BY <1>1 DEF Clr!Finish
<1>5. Clr!AgreedBeatsContradicted'
  BY <1>0, <1>2, <1>4, LateRanking
<1> HIDE DEF best
<1>6. /\ r \in Clr!Result /\ r.answer = slots[best].answer /\ slots[best].answer \in Answers
      /\ v = "confirms" => r.verified
      /\ v # "confirms" => ~ r.verified /\ r.score <= 6500
      /\ v = "refutes" => r.score = 0
  <2>1. det # 0 /\ det \in Clr!DetScores \cup {0} /\ v \in Clr!Verdicts \cup {"absent"}
    BY DEF Clr!DetScores, Clr!Full
  <2> QED BY <1>0, <1>3, <2>1, LateTypes
<1> HIDE DEF r
<1>7. /\ verdicts' \in Seq(Verdict)
      /\ Len(verdicts') = Len(verdicts) + 1 /\ Len(verdicts) \in Nat
      /\ DOMAIN verdicts' = 1..(Len(verdicts) + 1)
      /\ verdicts'[Len(verdicts) + 1] = [answer |-> slots[best].answer, said |-> v]
      /\ \A n \in DOMAIN verdicts : n \in DOMAIN verdicts' /\ verdicts'[n] = verdicts[n]
      /\ \A n \in DOMAIN verdicts' : n \in DOMAIN verdicts \/ n = Len(verdicts) + 1
  <2>1. Clr!Said(best, v)
    BY <1>1 DEF best
  <2> QED BY <1>0, <1>6, <2>1, SaidOf
<1>8. Len(verdicts') \in DOMAIN verdicts' /\ verdicts'[Len(verdicts')].said = v
  BY <1>7
<1>9. Over
  <2>1. CASE v = "confirms"
    <3>1. \E n \in DOMAIN verdicts' : verdicts'[n] = [answer |-> clrResult'.answer, said |-> "confirms"]
      BY <1>4, <1>6, <1>7, <1>8, <2>1
    <3>2. clrResult'.verified /\ verdicts'[Len(verdicts')].said # "refutes"
      BY <1>4, <1>6, <1>8, <2>1
    <3> QED BY <3>1, <3>2 DEF Over
  <2>2. CASE v # "confirms"
    <3>1. ASSUME NEW n \in DOMAIN verdicts',
                 verdicts'[n] = [answer |-> clrResult'.answer, said |-> "confirms"]
          PROVE  FALSE
      <4>1. verdicts'[n].said = "confirms"
        BY <3>1
      <4>2. CASE n = Len(verdicts) + 1
        BY <1>7, <2>2, <4>1, <4>2
      <4>3. CASE n \in DOMAIN verdicts
        BY <1>2, <1>7, <4>1, <4>3
      <4> QED BY <1>7, <4>2, <4>3
    <3>2. ~ clrResult'.verified /\ clrResult'.score <= 6500 /\ (v = "refutes" => clrResult'.score = 0)
      BY <1>4, <1>6, <2>2
    <3> QED BY <1>8, <3>1, <3>2 DEF Over
  <2> QED BY <2>1, <2>2
<1>10. Clr!EarlyExitExcused'
  <2>1. Len(slots) \in Nat
    BY <1>0, LenProperties
  <2>2. ~ (Len(slots') < kTotal')
    BY <1>0, <1>2, <1>4, <2>1
  <2> QED BY <2>2, NoExcuseNeeded
<1>11. refuted' \in BOOLEAN
  BY <1>0, <1>1 DEF RunTypes
<1> QED BY <1>2, <1>4, <1>5, <1>6, <1>7, <1>9, <1>10, <1>11, FinishSound

\* Every step of run() keeps it.
LEMMA ReasonStep == ReasonInv /\ [Clr!Next]_clrVars => ReasonInv'
<1> SUFFICES ASSUME ReasonInv, [Clr!Next]_clrVars PROVE ReasonInv'
  OBVIOUS
<1>1. CASE Clr!AllFailed
  BY <1>1, GoesOn DEF Clr!AllFailed, Clr!Gathered
<1>2. CASE Clr!AskVerifier
  <2>1. /\ Clr!Running(slots) = {} /\ verifier /\ Clr!Answered(slots) # {}
        /\ \/ phase = "phase1" /\ phase' = "check1"
           \/ phase = "phase3" /\ phase' = "check3"
        /\ UNCHANGED <<adaptive, maxK, verifier, highRisk, kTotal, slots, refuted, verdicts,
                       clrResult, runs>>
    BY <1>2 DEF Clr!AskVerifier, Clr!Gathered
  <2> QED BY <2>1, GoesOn
<1>3. CASE UNCHANGED clrVars
  <2>1. maxK' \in 1..OriginalMaxK
    BY <1>3 DEF clrVars, ReasonInv, RunTypes
  <2> QED BY <1>3, <2>1, ReasonsStay DEF clrVars
<1>4. CASE Clr!Next
  BY <1>1, <1>2, <1>4, AdjustSound, StartSound, GenerateSound, NobodySound,
     Phase1UnverifiedSound, Phase1VerdictSound, LastUnverifiedSound, LastVerdictSound
  DEF Clr!Next
<1> QED BY <1>3, <1>4

\* A new reasoner has not run.
LEMMA ReasonInit == Clr!Init => ReasonInv
<1> SUFFICES ASSUME Clr!Init PROVE ReasonInv
  OBVIOUS
<1>1. /\ adaptive \in BOOLEAN /\ maxK = OriginalMaxK /\ phase = "idle"
      /\ verifier = FALSE /\ highRisk = FALSE /\ refuted = FALSE
      /\ kTotal = 0 /\ slots = <<>> /\ verdicts = <<>> /\ clrResult = Clr!NoResult /\ runs = 0
  BY DEF Clr!Init
<1>2. RunTypes
  <2>1. /\ maxK \in 1..OriginalMaxK /\ runs \in 0..MaxRuns /\ kTotal \in Nat
    BY <1>1, PolicyAssumption
  <2>2. verifier \in BOOLEAN /\ highRisk \in BOOLEAN /\ refuted \in BOOLEAN
    BY <1>1, Zenon
  <2> QED BY <1>1, <2>1, <2>2 DEF RunTypes
<1>3. slots \in Seq(Clr!Slot) /\ DOMAIN slots = {}
  BY <1>1
<1>4. Clr!Running(slots) = {}
  BY <1>3 DEF Clr!Running
<1>5. SlotsSound /\ StagesSound
  BY <1>1, <1>3, <1>4 DEF SlotsSound, StagesSound
<1>6. RunSound
  BY <1>1 DEF RunSound, Clr!TrustModel, Clr!VerifiedIffConfirmed, Clr!OnlyVerifierExceedsCap,
              Clr!LastRefutationZeroes, Clr!AgreedBeatsContradicted, Clr!EarlyExitExcused, Clr!Done
<1>7. verdicts \in Seq(Verdict) /\ clrResult \in Clr!Result
  BY <1>1, <1>2, <1>3, NoAnswerTypes
<1> QED BY <1>2, <1>5, <1>6, <1>7 DEF ReasonInv

\* It holds whatever else is answered.
LEMMA ReasonInvariant == AnsweringSpec => []ReasonInv
<1>1. ReasonInv /\ [AnsweringNext]_answeringVars => ReasonInv'
  <2>1. [AnsweringNext]_answeringVars => [Clr!Next]_clrVars
    BY DEF AnsweringNext, answeringVars, Loops, Reasons, Routing, Calling
  <2> QED BY <2>1, ReasonStep
<1>2. AnsweringInit => ReasonInv
  BY ReasonInit DEF AnsweringInit
<1> QED BY <1>1, <1>2, PTL DEF AnsweringSpec

\* Scores above the cap are earned: the answer run() returns is verified exactly
\* when the verifier confirmed this answer in this run, scores at most the cap
\* otherwise and nothing once refuted at the end, and below full marks ranking
\* follows the claims and the agreement of the traces.
THEOREM ScoresAreEarned == AnsweringSpec => []ScoresEarned
<1>1. ReasonInv => ScoresEarned
  BY DEF ReasonInv, RunSound, ScoresEarned
<1> QED BY <1>1, ReasonInvariant, PTL

\* A run that ends with an answer before its budget is used was confirmed, or is
\* low-risk, unrefuted and unanimous, whatever the policy and the load.
THEOREM ExitsAreExcused == AnsweringSpec => []Clr!EarlyExitExcused
<1>1. ReasonInv => Clr!EarlyExitExcused
  BY DEF ReasonInv, RunSound
<1> QED BY <1>1, ReasonInvariant, PTL

-------------------------------------------------------------------------------
(* The budget of a run.                                                     *)

\* The policies leave every budget of adjust_max_k_for_queue_load() room for the
\* trajectories of phase 1: the default one starts with 1 and 2, the lowest budget
\* is 2.  make_fast_specialist_policy() starts with 3 and 5 and does not fit.
PolicyFits ==
  /\ InitialWithVerifier <= Clr!Lesser(2, OriginalMaxK)
  /\ InitialWithoutVerifier <= Clr!Lesser(2, OriginalMaxK)

\* What is at work or has produced a trajectory is within the budget of the run.
BudgetInv ==
  /\ maxK >= Clr!Lesser(2, OriginalMaxK)
  /\ phase # "idle" => Cardinality(Atwork(slots)) <= kTotal
  /\ phase = "done" => clrResult.used <= clrResult.max

\* Every result says what the run has used of its budget.
Counted(r) == r.used = Clr!Cardinality(Clr!Produced(slots)) /\ r.max = kTotal

\* An early exit says so,
LEMMA EarlyCounted ==
  ASSUME NEW i, NEW score
  PROVE  Counted(ConfirmedResult(i, score)) /\ Counted(SelfResult(i, score))
BY DEF Counted, ConfirmedResult, SelfResult, Clr!EarlyResult

\* so does the last phase,
LEMMA LateCounted ==
  ASSUME NEW i, NEW v, NEW det
  PROVE  Counted(Clr!LateResult(i, v, det))
<1> DEFINE answer == slots[i].answer
           used == Clr!Cardinality(Clr!Produced(slots))
           score == CASE v = "confirms" -> Clr!Blended(det, Clr!FinalScore(slots, i))
                      [] v = "refutes"  -> 0
                      [] OTHER -> Clr!Lesser(Clr!FinalScore(slots, i), Clr!Cap)
           confirmed == v = "confirms"
           status == CASE v = "confirms" -> "verified" [] v = "refutes" -> "refuted"
                       [] v = "unsupported" -> "unsupported" [] OTHER -> "self_only"
           method == IF v \in {"raises", "absent"} THEN "self_claims_only" ELSE "verifier"
<1>1. Clr!LateResult(i, v, det) =
        [answer |-> answer, score |-> score, verified |-> confirmed, status |-> status,
         method |-> method, early |-> "none", used |-> used, max |-> kTotal]
  BY DEF Clr!LateResult
<1> HIDE DEF answer, score, confirmed, status, method
<1> QED BY <1>1 DEF Counted

\* and a run nobody answered.
LEMMA NobodyCounted ==
  ASSUME RunTypes, slots \in Seq(Clr!Slot)
  PROVE  Counted(Clr!NoAnswerResult(slots))
<1>1. Clr!Cardinality(Clr!Produced(slots)) \in Nat /\ kTotal \in Nat
  BY UsedCounts DEF RunTypes
<1> DEFINE used == Clr!Cardinality(Clr!Produced(slots))
           r1 == [Clr!NoResult EXCEPT !.status = "error"]
           r2 == [r1 EXCEPT !.method = "self_claims_only"]
           r3 == [r2 EXCEPT !.used = used]
           r4 == [r3 EXCEPT !.max = kTotal]
<1>2. Clr!NoAnswerResult(slots) = r4
  BY DEF Clr!NoAnswerResult
<1> HIDE DEF r1, r2, r3, r4, used
<1>3. r2 \in Clr!Result
  BY NoAnswerTypes, StatusSet, MethodSet DEF r1, r2
<1>4. used \in Nat
  BY <1>1 DEF used
<1>5. r3 \in Clr!Result /\ r3.used = used
  BY <1>3, <1>4, CountsSet DEF r3
<1>6. r4.used = r3.used /\ r4.max = kTotal
  BY <1>1, <1>5, CountsSet DEF r4
<1> QED BY <1>2, <1>5, <1>6 DEF Counted, used

\* What has failed is not at work; all else is, until it has produced something.
LEMMA AtworkCounts ==
  ASSUME NEW s \in Seq(Clr!Slot)
  PROVE  /\ IsFiniteSet(Atwork(s)) /\ Cardinality(Atwork(s)) \in Nat
         /\ Cardinality(Atwork(s)) <= Len(s)
         /\ Clr!Cardinality(Clr!Produced(s)) <= Cardinality(Atwork(s))
         /\ Clr!Running(s) = {} => Clr!Cardinality(Clr!Produced(s)) = Cardinality(Atwork(s))
<1>1. /\ Len(s) \in Nat /\ DOMAIN s = 1..Len(s) /\ IsFiniteSet(DOMAIN s)
      /\ \A i \in DOMAIN s : s[i] \in Clr!Slot
  BY Positions
<1>2. Atwork(s) \in SUBSET DOMAIN s
  BY DEF Atwork
<1>3. Cardinality(DOMAIN s) = Len(s)
  <2>1. Cardinality(1..Len(s)) = IF 1 > Len(s) THEN 0 ELSE Len(s) - 1 + 1
    BY <1>1, FS_Interval, SMTT(60)
  <2> QED BY <1>1, <2>1
<1>4. IsFiniteSet(Atwork(s)) /\ Cardinality(Atwork(s)) <= Len(s)
  BY <1>1, <1>2, <1>3, FS_Subset
<1>5. Clr!Produced(s) \in SUBSET Atwork(s)
  BY DEF Clr!Produced, Atwork
<1>6. Cardinality(Clr!Produced(s)) <= Cardinality(Atwork(s))
  BY <1>4, <1>5, FS_Subset
<1>7. ASSUME Clr!Running(s) = {} PROVE Clr!Produced(s) = Atwork(s)
  BY <1>1, <1>7 DEF Clr!Produced, Atwork, Clr!Running, Clr!Slot
<1>8. Cardinality(Atwork(s)) \in Nat
  BY <1>4, FS_CardinalityType
<1> QED BY <1>4, <1>6, <1>7, <1>8, SameCount

\* New tasks count, whatever becomes of them.
LEMMA AtworkAdded ==
  ASSUME NEW s \in Seq(Clr!Slot), NEW n \in Nat,
         \A i \in DOMAIN s : s[i].state # "ok" => s[i].answer = NoAnswer
  PROVE  Cardinality(Atwork(s \o Clr!Tasks(n, "full"))) <= Cardinality(Atwork(s)) + n
<1> DEFINE t == s \o Clr!Tasks(n, "full")
           fresh == (Len(s) + 1)..(Len(s) + n)
<1>1. /\ t \in Seq(Clr!Slot) /\ Len(t) = Len(s) + n /\ \A i \in 1..Len(s) : t[i] = s[i]
  BY TasksAdded
<1> HIDE DEF t
<1>2. /\ Len(s) \in Nat /\ DOMAIN s = 1..Len(s) /\ DOMAIN t = 1..(Len(s) + n)
  BY <1>1, LenProperties
<1>3. IsFiniteSet(fresh) /\ Cardinality(fresh) = n
  <2> DEFINE a == Len(s) + 1
             b == Len(s) + n
  <2>1. a \in Int /\ b \in Int /\ b - a + 1 = n /\ (a > b => n = 0)
    BY <1>2
  <2> HIDE DEF a, b
  <2>2. IsFiniteSet(a..b) /\ Cardinality(a..b) = IF a > b THEN 0 ELSE b - a + 1
    BY <2>1, FS_Interval
  <2>3. IsFiniteSet(a..b) /\ Cardinality(a..b) = n
    BY <2>1, <2>2
  <2> QED BY <2>3 DEF a, b
<1>4. ASSUME NEW i \in Atwork(t) PROVE i \in Atwork(s) \cup fresh
  <2>1. i \in 1..(Len(s) + n) /\ t[i].state # "failed"
    BY <1>2 DEF Atwork
  <2>2. CASE i <= Len(s)
    <3>1. i \in DOMAIN s /\ t[i] = s[i]
      BY <1>1, <1>2, <2>1, <2>2
    <3> QED BY <2>1, <3>1 DEF Atwork
  <2>3. CASE ~ (i <= Len(s))
    BY <1>2, <2>1, <2>3
  <2> QED BY <2>2, <2>3
<1> HIDE DEF fresh
<1>5. IsFiniteSet(Atwork(s)) /\ Cardinality(Atwork(s)) \in Nat
  BY AtworkCounts
<1>6. /\ IsFiniteSet(Atwork(s) \cup fresh)
      /\ Cardinality(Atwork(s) \cup fresh) <= Cardinality(Atwork(s)) + n
  <2>1. /\ IsFiniteSet(Atwork(s) \cup fresh) /\ IsFiniteSet(Atwork(s) \cap fresh)
        /\ Cardinality(Atwork(s) \cup fresh)
             = Cardinality(Atwork(s)) + Cardinality(fresh) - Cardinality(Atwork(s) \cap fresh)
    <3>1. IsFiniteSet(Atwork(s) \cap fresh)
      BY <1>5, FS_Intersection
    <3> QED BY <1>3, <1>5, <3>1, FS_Union
  <2>2. Cardinality(Atwork(s) \cap fresh) \in Nat
    BY <2>1, FS_CardinalityType
  <2> QED BY <1>3, <1>5, <2>1, <2>2
<1>7. Cardinality(Atwork(t)) <= Cardinality(Atwork(s) \cup fresh)
  <2>1. Atwork(t) \in SUBSET (Atwork(s) \cup fresh)
    BY <1>4
  <2> QED BY <1>6, <2>1, FS_Subset
<1>8. Cardinality(Atwork(t)) \in Nat /\ Cardinality(Atwork(s) \cup fresh) \in Nat
  <2>1. IsFiniteSet(Atwork(t))
    BY <1>1, AtworkCounts
  <2> QED BY <1>6, <2>1, FS_CardinalityType
<1>9. Cardinality(Atwork(t)) <= Cardinality(Atwork(s)) + n
  BY <1>5, <1>6, <1>7, <1>8
<1> QED BY <1>9 DEF t

\* A finished run says what it has used.
LEMMA FinishCounts ==
  ASSUME ReasonInv, BudgetInv, phase # "idle", NEW r, Counted(r), Clr!Finish(r)
  PROVE  BudgetInv'
<1>1. /\ clrResult' = r /\ phase' = "done" /\ maxK' = maxK /\ slots' = slots /\ kTotal' = kTotal
  BY DEF Clr!Finish
<1>2. slots \in Seq(Clr!Slot) /\ kTotal \in Nat
  BY DEF ReasonInv, SlotsSound, RunTypes
<1>3. /\ Cardinality(Atwork(slots)) \in Nat /\ Cardinality(Atwork(slots)) <= kTotal
      /\ Clr!Cardinality(Clr!Produced(slots)) \in Nat
      /\ Clr!Cardinality(Clr!Produced(slots)) <= Cardinality(Atwork(slots))
  BY <1>2, AtworkCounts, UsedCounts DEF BudgetInv
<1>4. r.used <= r.max
  BY <1>2, <1>3 DEF Counted
<1>5. Atwork(slots)' = Atwork(slots)
  BY <1>1 DEF Atwork
<1> QED BY <1>1, <1>4, <1>5 DEF BudgetInv

\* A step that starts nothing and finishes nothing.
LEMMA BudgetStays ==
  ASSUME BudgetInv, maxK' >= Clr!Lesser(2, OriginalMaxK), slots' = slots, kTotal' = kTotal,
         clrResult' = clrResult, phase' = phase \/ (phase # "idle" /\ phase' # "done")
  PROVE  BudgetInv'
<1>1. Atwork(slots)' = Atwork(slots)
  BY DEF Atwork
<1> QED BY <1>1 DEF BudgetInv

\* No load takes the budget below the least.
LEMMA AdjustCounts == ASSUME BudgetInv, Clr!AdjustMaxK PROVE BudgetInv'
<1>1. PICK limit \in {2, 4, OriginalMaxK} : maxK' = Clr!Lesser(limit, OriginalMaxK)
  BY DEF Clr!AdjustMaxK
<1>2. OriginalMaxK \in Nat \ {0}
  BY PolicyAssumption
<1>3. maxK' >= Clr!Lesser(2, OriginalMaxK)
  BY <1>1, <1>2 DEF Clr!Lesser
<1>4. /\ slots' = slots /\ kTotal' = kTotal /\ clrResult' = clrResult /\ phase' = phase
  BY DEF Clr!AdjustMaxK
<1> QED BY <1>3, <1>4, BudgetStays

\* The first trajectories fit the budget just read.
LEMMA StartCounts == ASSUME PolicyFits, ReasonInv, BudgetInv, Clr!Start PROVE BudgetInv'
<1>0. /\ {InitialWithVerifier, InitialWithoutVerifier, OriginalMaxK, K} \subseteq Nat \ {0}
      /\ maxK \in Nat /\ maxK >= Clr!Lesser(2, OriginalMaxK)
  BY PolicyAssumption DEF BudgetInv, ReasonInv, RunTypes
<1>1. \/ /\ phase' = "phase1" /\ kTotal' = maxK
         /\ \/ slots' = Clr!Tasks(InitialWithVerifier, "light")
            \/ slots' = Clr!Tasks(InitialWithoutVerifier, "full")
      \/ phase' = "phase3" /\ kTotal' = K /\ slots' = Clr!Tasks(K, "full")
  BY DEF Clr!Start
<1>2. Clr!Lesser(2, OriginalMaxK) \in Nat
  BY <1>0 DEF Clr!Lesser
<1>3. PICK n \in Nat, kind \in {"light", "full"} :
        slots' = Clr!Tasks(n, kind) /\ n <= kTotal' /\ kTotal' \in Nat
  BY <1>0, <1>1, <1>2 DEF PolicyFits
<1> DEFINE t == Clr!Tasks(n, kind)
<1>4. t \in Seq(Clr!Slot) /\ Len(t) = n
  BY NewTasks
<1> HIDE DEF t
<1>5. Cardinality(Atwork(t)) \in Nat /\ Cardinality(Atwork(t)) <= n
  BY <1>4, AtworkCounts
<1>6. Atwork(slots)' = Atwork(t)
  BY <1>3 DEF Atwork, t
<1>7. Cardinality(Atwork(slots)') <= kTotal'
  BY <1>3, <1>5, <1>6
<1>8. phase' # "done" /\ maxK' = maxK
  BY <1>1 DEF Clr!Start
<1> QED BY <1>0, <1>7, <1>8 DEF BudgetInv

\* A task that ends counts at most as it did.
LEMMA GenerateCounts ==
  ASSUME ReasonInv, BudgetInv, NEW i \in DOMAIN slots, Clr!Generate(i)
  PROVE  BudgetInv'
<1>0. slots \in Seq(Clr!Slot) /\ SlotsSound /\ kTotal \in Nat
  BY DEF ReasonInv, SlotsSound, RunTypes
<1>1. /\ i \in Clr!Running(slots) /\ phase' = phase /\ maxK' = maxK /\ kTotal' = kTotal
      /\ clrResult' = clrResult
  BY DEF Clr!Generate
<1>2. PICK outcome \in Clr!Outcomes(slots[i].state) : slots' = [slots EXCEPT ![i] = outcome]
  BY DEF Clr!Generate
<1>3. phase = "phase1" \/ phase = "phase3"
  BY <1>0, <1>1 DEF SlotsSound
<1>4. slots' \in Seq(Clr!Slot)
  BY <1>0, <1>1, <1>2, OneGenerated
<1>5. /\ DOMAIN slots' = DOMAIN slots
      /\ \A j \in DOMAIN slots : j # i => slots'[j] = slots[j]
  BY <1>0, <1>2
<1>6. slots[i].state # "failed"
  BY <1>1 DEF Clr!Running
<1>7. Atwork(slots)' \in SUBSET Atwork(slots)
  BY <1>5, <1>6 DEF Atwork
<1>8. /\ IsFiniteSet(Atwork(slots)) /\ Cardinality(Atwork(slots)) \in Nat
      /\ Cardinality(Atwork(slots)) <= kTotal
  BY <1>0, <1>3, AtworkCounts DEF BudgetInv
<1>9. IsFiniteSet(Atwork(slots)') /\ Cardinality(Atwork(slots)') <= Cardinality(Atwork(slots))
  BY <1>7, <1>8, FS_Subset
<1>10. Cardinality(Atwork(slots)') \in Nat
  BY <1>9, FS_CardinalityType
<1>11. Cardinality(Atwork(slots)') <= kTotal'
  BY <1>0, <1>1, <1>8, <1>9, <1>10
<1> QED BY <1>1, <1>3, <1>11 DEF BudgetInv

\* The trajectories of phase 3 are those the budget leaves.
LEMMA BranchCounts ==
  ASSUME ReasonInv, BudgetInv, phase # "idle", Clr!Running(slots) = {}, NEW w, Clr!Branch(w)
  PROVE  BudgetInv'
<1>0. slots \in Seq(Clr!Slot) /\ SlotsSound /\ kTotal \in Nat
  BY DEF ReasonInv, SlotsSound, RunTypes
<1>1. CASE Clr!Consensus(w)
  <2>1. Clr!Finish(SelfResult(Clr!BestOfFirst(slots),
                              Clr!FirstScore(slots, Clr!BestOfFirst(slots))))
    BY <1>1 DEF Clr!Branch, SelfResult
  <2>2. Counted(SelfResult(Clr!BestOfFirst(slots),
                           Clr!FirstScore(slots, Clr!BestOfFirst(slots))))
    BY EarlyCounted
  <2> QED BY <2>1, <2>2, FinishCounts
<1>2. CASE ~ Clr!Consensus(w)
  <2> DEFINE left == kTotal - Clr!Cardinality(Clr!Produced(slots))
  <2>1. /\ phase' = "phase3" /\ maxK' = maxK /\ kTotal' = kTotal
        /\ slots' = IF left > 0 THEN slots \o Clr!Tasks(left, "full") ELSE slots
    BY <1>2 DEF Clr!Branch
  <2>2. /\ Cardinality(Atwork(slots)) \in Nat /\ Cardinality(Atwork(slots)) <= kTotal
        /\ Clr!Cardinality(Clr!Produced(slots)) = Cardinality(Atwork(slots))
    BY <1>0, AtworkCounts DEF BudgetInv
  <2>3. left \in Int /\ Cardinality(Atwork(slots)) + left = kTotal
    BY <1>0, <2>2
  <2> HIDE DEF left
  <2>4. Cardinality(Atwork(slots)') <= kTotal
    <3>1. CASE left > 0
      <4>1. left \in Nat /\ slots' = slots \o Clr!Tasks(left, "full")
        BY <2>1, <2>3, <3>1
      <4>2. Cardinality(Atwork(slots \o Clr!Tasks(left, "full")))
              <= Cardinality(Atwork(slots)) + left
        BY <1>0, <4>1, AtworkAdded DEF SlotsSound
      <4>3. Atwork(slots)' = Atwork(slots \o Clr!Tasks(left, "full"))
        BY <4>1 DEF Atwork
      <4> QED BY <2>3, <4>2, <4>3
    <3>2. CASE ~ (left > 0)
      <4>1. Atwork(slots)' = Atwork(slots)
        BY <2>1, <3>2 DEF Atwork
      <4> QED BY <2>2, <4>1
    <3> QED BY <3>1, <3>2
  <2> QED BY <2>1, <2>4 DEF BudgetInv
<1> QED BY <1>1, <1>2

\* Every step of run() stays within the budget.
LEMMA BudgetStep ==
  ASSUME PolicyFits
  PROVE  ReasonInv /\ BudgetInv /\ [Clr!Next]_clrVars => BudgetInv'
<1> SUFFICES ASSUME ReasonInv, BudgetInv, [Clr!Next]_clrVars PROVE BudgetInv'
  OBVIOUS
<1>0. slots \in Seq(Clr!Slot) /\ SlotsSound /\ RunTypes /\ maxK >= Clr!Lesser(2, OriginalMaxK)
  BY DEF ReasonInv, SlotsSound, BudgetInv
<1>1. CASE Clr!AllFailed
  <2>1. /\ slots' = slots /\ kTotal' = kTotal /\ clrResult' = clrResult /\ maxK' = maxK
        /\ phase # "idle" /\ phase' # "done"
    BY <1>1 DEF Clr!AllFailed
  <2> QED BY <1>0, <2>1, BudgetStays
<1>2. CASE Clr!AskVerifier
  <2>1. /\ slots' = slots /\ kTotal' = kTotal /\ clrResult' = clrResult /\ maxK' = maxK
        /\ phase # "idle" /\ phase' # "done"
    BY <1>2 DEF Clr!AskVerifier
  <2> QED BY <1>0, <2>1, BudgetStays
<1>3. CASE UNCHANGED clrVars
  BY <1>0, <1>3, BudgetStays DEF clrVars
<1>4. CASE Clr!NobodyAnswered
  <2>1. phase # "idle" /\ Clr!Finish(Clr!NoAnswerResult(slots))
    BY <1>4 DEF Clr!NobodyAnswered
  <2>2. Counted(Clr!NoAnswerResult(slots))
    BY <1>0, NobodyCounted
  <2> QED BY <2>1, <2>2, FinishCounts
<1>5. CASE Clr!Phase1Unverified
  <2>1. phase # "idle" /\ Clr!Running(slots) = {} /\ Clr!Branch(FALSE)
    BY <1>5 DEF Clr!Phase1Unverified, Clr!Gathered
  <2> QED BY <2>1, BranchCounts
<1>6. ASSUME NEW v \in Clr!Verdicts, Clr!Phase1Verdict(v) PROVE BudgetInv'
  <2>1. /\ phase = "check1"
        /\ IF v = "confirms"
             THEN \E det \in Clr!DetScores :
                    Clr!Finish(ConfirmedResult(Clr!BestOfFirst(slots), Clr!Blended(det, Clr!Cap)))
             ELSE Clr!Branch(v = "refutes")
    BY <1>6 DEF Clr!Phase1Verdict, ConfirmedResult
  <2>2. Clr!Running(slots) = {} /\ phase # "idle"
    BY <1>0, <2>1 DEF SlotsSound
  <2>3. CASE v = "confirms"
    <3>1. PICK det \in Clr!DetScores :
            Clr!Finish(ConfirmedResult(Clr!BestOfFirst(slots), Clr!Blended(det, Clr!Cap)))
      BY <2>1, <2>3
    <3>2. Counted(ConfirmedResult(Clr!BestOfFirst(slots), Clr!Blended(det, Clr!Cap)))
      BY EarlyCounted
    <3> QED BY <2>2, <3>1, <3>2, FinishCounts
  <2>4. CASE v # "confirms"
    <3> DEFINE w == v = "refutes"
    <3>1. Clr!Branch(w)
      BY <2>1, <2>4
    <3> HIDE DEF w
    <3> QED BY <2>2, <3>1, BranchCounts
  <2> QED BY <2>3, <2>4
<1>7. CASE Clr!LastUnverified
  <2>1. phase # "idle" /\ Clr!Finish(Clr!LateResult(Clr!BestOfAll(slots), "absent", 0))
    BY <1>7 DEF Clr!LastUnverified
  <2>2. Counted(Clr!LateResult(Clr!BestOfAll(slots), "absent", 0))
    BY LateCounted
  <2> QED BY <2>1, <2>2, FinishCounts
<1>8. ASSUME NEW v \in Clr!Verdicts, Clr!LastVerdict(v) PROVE BudgetInv'
  <2>1. PICK det \in Clr!DetScores :
          phase # "idle" /\ Clr!Finish(Clr!LateResult(Clr!BestOfAll(slots), v, det))
    BY <1>8 DEF Clr!LastVerdict
  <2>2. Counted(Clr!LateResult(Clr!BestOfAll(slots), v, det))
    BY LateCounted
  <2> QED BY <2>1, <2>2, FinishCounts
<1>9. CASE Clr!Next
  BY <1>1, <1>2, <1>4, <1>5, <1>6, <1>7, <1>8, <1>9, AdjustCounts, StartCounts, GenerateCounts
  DEF Clr!Next
<1> QED BY <1>3, <1>9

\* ReasonInv types the variables as AdaptiveCLR does.
LEMMA ReasonTypes == ReasonInv => Clr!TypeOK
BY DEF ReasonInv, RunTypes, SlotsSound, Verdict, Clr!TypeOK

\* The effort of run() is excused: under a policy that fits, no run uses more
\* trajectories than the budget it read, whatever fails and however the load moves
\* the budget, and an early exit has its reason.
THEOREM EffortIsExcused ==
  ASSUME PolicyFits
  PROVE  AnsweringSpec => []EffortExcused
<1>1. BudgetInv /\ ReasonInv /\ [AnsweringNext]_answeringVars => BudgetInv'
  <2>1. [AnsweringNext]_answeringVars => [Clr!Next]_clrVars
    BY DEF AnsweringNext, answeringVars, Loops, Reasons, Routing, Calling
  <2> QED BY <2>1, BudgetStep
<1>2. AnsweringInit => BudgetInv
  <2> SUFFICES ASSUME Clr!Init PROVE BudgetInv
    BY DEF AnsweringInit
  <2>1. maxK = OriginalMaxK /\ phase = "idle" /\ OriginalMaxK \in Nat \ {0}
    BY PolicyAssumption DEF Clr!Init
  <2> QED BY <2>1 DEF BudgetInv, Clr!Lesser
<1>3. BudgetInv /\ ReasonInv => EffortExcused
  <2> SUFFICES ASSUME BudgetInv, ReasonInv PROVE EffortExcused
    OBVIOUS
  <2>1. Clr!WithinBudget
    BY ReasonTypes DEF BudgetInv, Clr!WithinBudget, Clr!Done
  <2>2. Clr!EarlyExitExcused
    BY DEF ReasonInv, RunSound
  <2> QED BY <2>1, <2>2 DEF EffortExcused
<1> QED BY <1>1, <1>2, <1>3, ReasonInvariant, PTL DEF AnsweringSpec
===============================================================================
