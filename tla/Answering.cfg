\* One code request; one claim-level run; two requests at a time over one orchestrator.
CONSTANTS
  N = 3
  MaxRepairs = 2
  a = a
  b = b
  Answers = {a, b}
  NoAnswer = NoAnswer
  InitialWithVerifier = 1
  InitialWithoutVerifier = 2
  OriginalMaxK = 3
  K = 2
  Passed = {4, 5}
  ModelFails = TRUE
  MaxRuns = 1
  r1 = r1
  r2 = r2
  qMath = qMath
  qCode = qCode
  qPlan = qPlan
  qAsk = qAsk
  mA = mA
  mB = mB
  Requests = {r1, r2}
  Queries = {qMath, qCode, qPlan, qAsk}
  Signals <- Kinds
  Models = {mA, mB}
  Similar <- Similarities
  RouteCache = 1
  Forced = {"specialist"}
  Inherited <- OldFiles
  Installations <- TwoInstallations
  MaxSessions = 2
  MaxRestarts = 1
  Callers = {s1, s2, s3}
  s1 = s1
  s2 = s2
  s3 = s3
  PoolSize = 2
  Threads = 2
  MaxConcurrent = 2
  Transports = {"completion", "anthropic"}
CHECK_DEADLOCK FALSE
SPECIFICATION FairAnsweringSpec
INVARIANTS
  VerifiedPassed
  GoodCandidateNotLost
  ScoresEarned
  EffortExcused
  NothingLeaks
  AnswersBacked
PROPERTIES
  RewriteOnlyBadTests
  AnswersCome
