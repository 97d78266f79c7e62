------------------------------- MODULE MCWebJobs -------------------------------
(* Two queries, two pages and one remote worker, with either broadcaster.   *)
EXTENDS WebJobs, TLC

CONSTANTS j1, j2, page1, page2, laptop

MCJobs == {j1, j2}
MCClients == {page1, page2}
MCWorkers == {laptop}
MCTransports == {"local", "redis"}
\* Over Redis one job shows what happens to its updates.
MCScope == [t \in MCTransports |->
              [jobs |-> IF t = "local" THEN MCJobs ELSE {j1},
               pages |-> MCClients, hangups |-> 1]]
===============================================================================
