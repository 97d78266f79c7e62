-------------------------------- MODULE MCSwarm --------------------------------
(***************************************************************************)
(* A small instance of Swarm for TLC.                                      *)
(***************************************************************************)
EXTENDS Swarm, TLC

CONSTANTS j1, j2, c1, c2, c3, n1, n2, n3, pA, pB

ThreeUrls == <<c1, c2, c3>>

\* Two nodes learn a pattern each; the third only listens.
Learners == (pA :> n1) @@ (pB :> n2)
===============================================================================
