------------------------------ MODULE MCAnswering ------------------------------
(***************************************************************************)
(* Small instances for TLC: two requests at a time, four kinds of query,    *)
(* two embedding models that disagree; three calls of two instances over    *)
(* two threads.                                                             *)
(***************************************************************************)
EXTENDS Answering, TLC

CONSTANTS a, b, r1, r2, qMath, qCode, qPlan, qAsk, mA, mB, s1, s2, s3

\* What is found in a query: keywords of two types, and the patterns.
Found(m, c, p, other, strong, math, expect) ==
  [hits |-> [t \in {"math", "code", "planning", "retrieval", "summarization", "conversation"} |->
               CASE t = "math" -> m [] t = "code" -> c [] t = "planning" -> p [] OTHER -> 0],
   otherCode |-> other, strongCode |-> strong, mathIntent |-> math, expectation |-> expect]

\* An equation the math solver can solve; "LeetCode: sum of a series", code in
\* spite of its math; a plan; and a question about a code of conduct.
Kinds == (qMath :> Found(1, 0, 1, FALSE, FALSE, TRUE, TRUE))
      @@ (qCode :> Found(2, 1, 0, FALSE, TRUE, TRUE, FALSE))
      @@ (qPlan :> Found(0, 0, 1, FALSE, FALSE, FALSE, FALSE))
      @@ (qAsk :> Found(0, 1, 0, TRUE, FALSE, FALSE, FALSE))

Similarities ==
  (mA :> ((qMath :> "hybrid") @@ (qCode :> "generalist") @@
          (qPlan :> "generalist") @@ (qAsk :> "specialist"))) @@
  (mB :> ((qMath :> "hybrid") @@ (qCode :> "generalist") @@
          (qPlan :> "hybrid") @@ (qAsk :> "generalist")))

\* Everything configured, and a bare installation.
TwoInstallations ==
  {[clr |-> TRUE, coder |-> TRUE, verifier |-> TRUE, router |-> TRUE],
   [clr |-> FALSE, coder |-> TRUE, verifier |-> FALSE, router |-> FALSE]}

OldFiles == {{}, {qMath}}
===============================================================================
