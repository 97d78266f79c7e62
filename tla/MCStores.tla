-------------------------------- MODULE MCStores --------------------------------
(***************************************************************************)
(* A small instance of Stores for TLC: two classes of queries, two          *)
(* problems that are alike, two writers of the log.                         *)
(***************************************************************************)
EXTENDS Stores, TLC

CONSTANTS math, code, p1, p2, w1, w2, j1, j2

Alike == {{p1, p2}}

Symmetry == Permutations(Problems) \cup Permutations(Writers) \cup Permutations(Jobs)
===============================================================================
