-------------------------- MODULE MCRedisFederation ---------------------------
(***************************************************************************)
(* A small instance of RedisFederation for TLC: workers, and coordinators,  *)
(* are interchangeable.                                                     *)
(***************************************************************************)
EXTENDS RedisFederation, TLC

CONSTANTS jobA, w1, w2, c1, c2

OneJob == jobA :> 0

Anyone == Permutations(Workers) \cup Permutations(Coordinators)
===============================================================================
