------------------------------ MODULE MCWarmPool ------------------------------
(***************************************************************************)
(* Small instances of WarmPool for TLC.                                     *)
(***************************************************************************)
EXTENDS WarmPool, TLC

CONSTANTS s1

\* Five candidates over three containers that were started once; four over two,
\* of which two are cancelled; two calls over one container that meet a start of
\* the orchestrator and a cleanup, with a timeout or with a cancellation.
FourSetups ==
  {[poolSize |-> 3, startFirst |-> TRUE, calls |-> 5, faults |-> 2, timeouts |-> 2,
    cleanups |-> 0, cancels |-> 0],
   [poolSize |-> 2, startFirst |-> TRUE, calls |-> 4, faults |-> 0, timeouts |-> 2,
    cleanups |-> 0, cancels |-> 2],
   [poolSize |-> 1, startFirst |-> FALSE, calls |-> 2, faults |-> 2, timeouts |-> 1,
    cleanups |-> 1, cancels |-> 0],
   [poolSize |-> 1, startFirst |-> FALSE, calls |-> 2, faults |-> 0, timeouts |-> 0,
    cleanups |-> 1, cancels |-> 1]}
===============================================================================
