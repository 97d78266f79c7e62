------------------------------ MODULE MCAuditLog ------------------------------
(* The audit log with two processes that write to it.                        *)
EXTENDS AuditLog, TLC

CONSTANTS w1, w2, j1, j2

Symmetry == Permutations(Writers) \cup Permutations(Jobs)
===============================================================================
