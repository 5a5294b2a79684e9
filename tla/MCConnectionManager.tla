------------------------ MODULE MCConnectionManager ------------------------
(* ConnectionManager on small instances. *)
EXTENDS ConnectionManager, TLC

CONSTANTS Desktop,  \* users with two tabs
          TwoTabs, OneTab

TabsOfUsers == [u \in Users |-> IF u \in Desktop THEN TwoTabs ELSE {OneTab}]

Symmetry == Permutations(TwoTabs)
=============================================================================
