--------------------------- MODULE MCRDominateTree ---------------------------
(***************************************************************************)
(* Instances of RDominateTree for TLC.                                     *)
(***************************************************************************)
EXTENDS RDominateTree, TLC

CONSTANTS a, b, c, d, e

(* Every graph over these blocks that one block returns from and every     *)
(* block returns through, with at most two successors each.                *)
GraphsOver(B) ==
  {G \in [B -> {S \in SUBSET B : Cardinality(S) <= 2}] :
     /\ Cardinality(Returns(G)) = 1
     /\ \A S \in SUBSET B :
          Returns(G) \subseteq S /\ (\A x \in B : G[x] \cap S # {} => x \in S) => S = B}

(* Two loops left into each other, whose first sweep is corrected; a while *)
(* with a break in a nested if; branches that share one join.              *)
SlowToSettle  == e :> {} @@ a :> {e} @@ b :> {e} @@ c :> {a, d} @@ d :> {b, c}
LoopWithBreak == e :> {a} @@ a :> {b, d} @@ b :> {c, d} @@ c :> {a} @@ d :> {}
Ladder        == e :> {a, d} @@ a :> {b, d} @@ b :> {c, d} @@ c :> {b} @@ d :> {}

(* Four blocks: a branches to b and c, and d returns. *)
FourBlocks ==
  {a :> {b, c} @@ b :> B @@ c :> C @@ d :> {} : B \in {{d}, {c, d}, {b, d}}, C \in {{b}, {d}, {b, d}}}

MCCFGs ==
  UNION {GraphsOver({a}), GraphsOver({a, b}), GraphsOver({a, b, c}), FourBlocks, {SlowToSettle, LoopWithBreak, Ladder}}
=============================================================================
