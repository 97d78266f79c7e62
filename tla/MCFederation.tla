----------------------------- MODULE MCFederation -----------------------------
(***************************************************************************)
(* A small instance of Federation for TLC.                                 *)
(***************************************************************************)
EXTENDS Federation, TLC

CONSTANTS jobA, w1, w2

OneJob == jobA :> 0
===============================================================================
