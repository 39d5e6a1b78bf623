----------------------------- MODULE Dominators -----------------------------
(***************************************************************************)
(* Dominance in a control-flow graph, defined by what it means and not by  *)
(* an algorithm: the reference DominateTree and RDominateTree are held to. *)
(*                                                                         *)
(* A graph maps each block to the set of its successors (the contents of   *)
(* BasicBlock::succ_bbs_); Root is the block the walk starts from.         *)
(* Reachability is expressed by closed sets, so that no definition is      *)
(* recursive: a block is reachable iff every successor-closed set that     *)
(* holds the root holds it.                                                *)
(***************************************************************************)
CONSTANTS Blocks, Root

Graphs == [Blocks -> SUBSET Blocks]

Preds(G, b) == {p \in Blocks : b \in G[p]}

(* The graph with every edge turned around: postdominance is dominance in it. *)
Reversed(G) == [b \in Blocks |-> Preds(G, b)]

Closed(G, S) == \A x \in S : G[x] \subseteq S

(* Every block can be reached from the root. *)
Rooted(G) == \A S \in SUBSET Blocks : Root \in S /\ Closed(G, S) => S = Blocks

(***************************************************************************)
(* d dominates b: some set S that misses d and b holds every block a walk  *)
(* from the root can be at before it enters d.                             *)
(***************************************************************************)
Dominates(G, d, b) ==
  \E S \in SUBSET (Blocks \ {d, b}) :
    /\ d # Root => Root \in S
    /\ \A x \in S : G[x] \subseteq S \cup {d}

StrictlyDominates(G, d, b) == d # b /\ Dominates(G, d, b)

DominatorsOf(G, b) == {d \in Blocks : Dominates(G, d, b)}

(* The closest strict dominator: every other one dominates it. *)
IsImmediateDominator(G, d, b) ==
  /\ StrictlyDominates(G, d, b)
  /\ \A e \in Blocks : StrictlyDominates(G, e, b) => Dominates(G, e, d)

(* The blocks where d's dominance ends: d dominates a predecessor, but not *)
(* (strictly) the block.                                                   *)
DominanceFrontier(G, d) ==
  {b \in Blocks : /\ \E p \in Preds(G, b) : Dominates(G, d, p)
                  /\ ~ StrictlyDominates(G, d, b)}
=============================================================================
