--------------------------- MODULE MCDominateTree ---------------------------
(***************************************************************************)
(* Instances of DominateTree for TLC.                                      *)
(***************************************************************************)
EXTENDS DominateTree, FiniteSets, TLC

(* The pass does not tell the blocks apart: of the graphs that differ only *)
(* in their names one is enough.                                           *)
Renamed(G, p) == [x \in Blocks |-> {p[y] : y \in G[CHOOSE z \in Blocks : p[z] = x]}]
IsChosen(G) ==
  G = CHOOSE H \in {Renamed(G, p @@ (Entry :> Entry)) : p \in Permutations(Blocks \ {Entry})} : TRUE

(* Every graph branches can make over these blocks, where one block        *)
(* returns, as IRBuilder leaves it; and those without a return in which    *)
(* few blocks branch: there two loops may enter each other, and the        *)
(* dominators take more than one sweep.                                    *)
Returning(G) == {x \in Blocks : G[x] = {}}
Branching(G) == {x \in Blocks : Cardinality(G[x]) = 2}
AllCFGs ==
  {G \in [Blocks -> {S \in SUBSET (Blocks \ {Entry}) : Cardinality(S) <= 2}] :
     /\ Dom!Rooted(G)
     /\ Cardinality(Returning(G)) = 1 \/ (Returning(G) = {} /\ Cardinality(Branching(G)) <= 2)
     /\ IsChosen(G)}
=============================================================================
