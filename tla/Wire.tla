---------------------------------- MODULE Wire ----------------------------------
(***************************************************************************)
(* What the two sides of the federation have in common: the jobs, and       *)
(* HTTP requests that may be lost before they arrive or before their        *)
(* answer does (federated_queue, _post_to_any_url: an exception or a         *)
(* timeout, which the sender cannot tell apart).                            *)
(***************************************************************************)
EXTENDS Naturals

CONSTANTS Jobs,
          MaxLost    \* bound: requests or answers lost

VARIABLE lost        \* losses so far

Loss == lost < MaxLost /\ lost' = lost + 1
===============================================================================
