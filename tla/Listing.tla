-------------------------------- MODULE Listing --------------------------------
(***************************************************************************)
(* Lists made from finite sets: what the code writes as sorted(S, key=...)  *)
(* or as [x for x in xs if ...].  Orders are sets of pairs, and a place in   *)
(* a list is the number of those that come before.                          *)
(***************************************************************************)
EXTENDS Naturals, FiniteSets

Pairs(S) == S \X S

\* The members of S, in the order of the pairs <<earlier, later>>.
Listed(S, before) ==
  [n \in 1..Cardinality(S) |->
     CHOOSE i \in S : Cardinality({j \in S : <<j, i>> \in before}) = n - 1]

\* The numbers of S, from the least.
Ascending(S) == [n \in 1..Cardinality(S) |->
                   CHOOSE i \in S : Cardinality({j \in S : j < i}) = n - 1]

\* The elements of list that stand at places, in their order.
At(list, places) ==
  IF places = DOMAIN list THEN list
  ELSE LET chosen == Ascending(places) IN [n \in DOMAIN chosen |-> list[chosen[n]]]
===============================================================================
