------------------------------ MODULE MCJobQueue ------------------------------
(***************************************************************************)
(* Small instances of JobQueue for TLC.                                     *)
(***************************************************************************)
EXTENDS JobQueue, TLC

CONSTANTS jobA, jobB

TwoPriorities == jobA :> 0 @@ jobB :> 1
TwoEqual      == jobA :> 0 @@ jobB :> 0
===============================================================================
