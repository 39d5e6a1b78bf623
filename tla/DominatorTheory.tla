--------------------------- MODULE DominatorTheory ---------------------------
(***************************************************************************)
(* Why the iteration of DominateTree and RDominateTree is right, told once *)
(* for any graph G over Blocks and any assignment up of dominators: up[b]  *)
(* is a block when b has one by now (it is settled), and some other value  *)
(* when it has none yet.  The lemmas speak of no state; the proofs about   *)
(* the two passes instantiate them.                                        *)
(***************************************************************************)
EXTENDS Dominators, Integers, TLAPS

Settled(up, b) == up[b] \in Blocks

(* The blocks on the way from b along up, b included. *)
Ancestors(up, b) ==
  {d \in Blocks : \A S \in SUBSET Blocks :
     b \in S /\ (\A x \in S : Settled(up, x) => up[x] \in S) => d \in S}

(* num is a numbering of the blocks, and up leads up in it. *)
Numbering(num) ==
  /\ \A x \in Blocks : num[x] \in Nat
  /\ \A x, y \in Blocks : num[x] = num[y] => x = y

Ascends(up, num) ==
  \A x \in Blocks : Settled(up, x) =>
    IF x = Root THEN up[x] = Root ELSE num[x] < num[up[x]]

-----------------------------------------------------------------------------
(***************************************************************************)
(* Chains of ancestors                                                     *)
(***************************************************************************)
(* The chain of b is the least set that holds b and is closed under up.    *)
LEMMA AncestorsLeast ==
  ASSUME NEW up, NEW b \in Blocks
  PROVE  /\ Ancestors(up, b) \in SUBSET Blocks
         /\ b \in Ancestors(up, b)
         /\ \A x \in Ancestors(up, b) : Settled(up, x) => up[x] \in Ancestors(up, b)
         /\ \A S \in SUBSET Blocks :
              b \in S /\ (\A x \in S : Settled(up, x) => up[x] \in S)
                => Ancestors(up, b) \subseteq S
<1>1. ASSUME NEW x \in Ancestors(up, b), Settled(up, x)
      PROVE  up[x] \in Ancestors(up, b)
  <2>1. ASSUME NEW S \in SUBSET Blocks, b \in S,
               \A y \in S : Settled(up, y) => up[y] \in S
        PROVE  up[x] \in S
    BY <1>1, <2>1 DEF Ancestors
  <2>2. QED
    BY <1>1, <2>1 DEF Ancestors, Settled
<1>2. QED
  BY <1>1 DEF Ancestors

(* The chains above a block of the chain are part of it. *)
LEMMA AncestorsTransitive ==
  ASSUME NEW up, NEW b \in Blocks, NEW x \in Ancestors(up, b)
  PROVE  x \in Blocks /\ Ancestors(up, x) \subseteq Ancestors(up, b)
BY AncestorsLeast

(* One step of the climb. *)
LEMMA AncestorsStep ==
  ASSUME NEW up, NEW b \in Blocks, Settled(up, b)
  PROVE  up[b] \in Blocks /\ Ancestors(up, b) = {b} \cup Ancestors(up, up[b])
<1>1. up[b] \in Blocks /\ up[b] \in Ancestors(up, b)
  BY AncestorsLeast DEF Settled
<1>2. Ancestors(up, up[b]) \subseteq Ancestors(up, b)
  BY <1>1, AncestorsTransitive
<1> DEFINE S == {b} \cup Ancestors(up, up[b])
<1>3. S \in SUBSET Blocks /\ b \in S
  BY <1>1, AncestorsLeast
<1>4. \A x \in S : Settled(up, x) => up[x] \in S
  BY <1>1, AncestorsLeast
<1> HIDE DEF S
<1>5. Ancestors(up, b) \subseteq S
  BY <1>3, <1>4, AncestorsLeast
<1>6. QED
  BY <1>1, <1>2, <1>5, AncestorsLeast DEF S

(* A block that has no dominator but itself is a chain of its own. *)
LEMMA AncestorsTop ==
  ASSUME NEW up, NEW b \in Blocks, Settled(up, b) => up[b] = b
  PROVE  Ancestors(up, b) = {b}
<1>1. {b} \in SUBSET Blocks /\ b \in {b} /\ \A x \in {b} : Settled(up, x) => up[x] \in {b}
  OBVIOUS
<1>2. Ancestors(up, b) \subseteq {b} /\ b \in Ancestors(up, b)
  BY <1>1, AncestorsLeast
<1>3. QED
  BY <1>2

(* Of two blocks on a chain, one is above the other. *)
LEMMA AncestorsLinear ==
  ASSUME NEW up, NEW b \in Blocks, NEW d \in Ancestors(up, b), NEW e \in Ancestors(up, b)
  PROVE  d \in Ancestors(up, e) \/ e \in Ancestors(up, d)
<1> DEFINE S == {x \in Ancestors(up, b) : d \in Ancestors(up, x) \/ x \in Ancestors(up, d)}
<1>1. d \in Blocks /\ Ancestors(up, b) \in SUBSET Blocks
  BY AncestorsLeast
<1>2. S \in SUBSET Blocks /\ b \in S
  BY <1>1, AncestorsLeast
<1>3. ASSUME NEW x \in S, Settled(up, x)
      PROVE  up[x] \in S
  <2>1. x \in Blocks /\ up[x] \in Ancestors(up, b)
    BY <1>1, <1>3, AncestorsLeast
  <2>2. Ancestors(up, x) = {x} \cup Ancestors(up, up[x])
    BY <1>3, <2>1, AncestorsStep
  <2>3. CASE x \in Ancestors(up, d)
    BY <1>1, <1>3, <2>1, <2>3, AncestorsLeast
  <2>4. CASE d \in Ancestors(up, x) /\ x # d
    BY <2>1, <2>2, <2>4
  <2>5. x = d => x \in Ancestors(up, d)
    BY <1>1, AncestorsLeast
  <2>6. QED
    BY <2>3, <2>4, <2>5
<1>4. Ancestors(up, b) \subseteq S
  BY <1>2, <1>3, AncestorsLeast
<1>5. QED
  BY <1>4

(* Where up ascends, so do the chains. *)
LEMMA AncestorsAbove ==
  ASSUME NEW up, NEW num, Numbering(num), Ascends(up, num),
         NEW b \in Blocks, NEW d \in Ancestors(up, b)
  PROVE  d \in Blocks /\ (d = b \/ num[b] < num[d])
<1> DEFINE S == {x \in Blocks : x = b \/ num[b] < num[x]}
<1>1. S \in SUBSET Blocks /\ b \in S
  OBVIOUS
<1>2. ASSUME NEW x \in S, Settled(up, x)
      PROVE  up[x] \in S
  <2>1. up[x] \in Blocks /\ num[x] \in Nat /\ num[up[x]] \in Nat /\ num[b] \in Nat
    BY <1>2 DEF Settled, Numbering
  <2>2. up[x] = x \/ num[x] < num[up[x]]
    BY <1>2 DEF Ascends
  <2>3. QED
    BY <2>1, <2>2
<1>3. QED
  BY <1>1, <1>2, AncestorsLeast

-----------------------------------------------------------------------------
(***************************************************************************)
(* One update: vp is up with the dominator of b replaced                   *)
(***************************************************************************)
Updates(up, vp, b) ==
  /\ b \in Blocks /\ Settled(vp, b)
  /\ \A x \in Blocks \ {b} : vp[x] = up[x]
  /\ b \notin Ancestors(up, vp[b])

(* A chain that does not go through b stays. *)
LEMMA UpdateElsewhere ==
  ASSUME NEW up, NEW vp, NEW b, Updates(up, vp, b),
         NEW x \in Blocks, b \notin Ancestors(up, x)
  PROVE  Ancestors(vp, x) = Ancestors(up, x)
<1> USE DEF Updates
<1>1. Ancestors(up, x) \in SUBSET Blocks /\ x \in Ancestors(up, x)
  BY AncestorsLeast
<1>2. \A y \in Ancestors(up, x) : Settled(vp, y) => vp[y] \in Ancestors(up, x)
  BY <1>1, AncestorsLeast DEF Settled
<1>3. Ancestors(vp, x) \subseteq Ancestors(up, x)
  BY <1>1, <1>2, AncestorsLeast
<1>4. Ancestors(vp, x) \in SUBSET Blocks /\ x \in Ancestors(vp, x)
  BY AncestorsLeast
<1>5. \A y \in Ancestors(vp, x) : Settled(up, y) => up[y] \in Ancestors(vp, x)
  BY <1>3, <1>4, AncestorsLeast DEF Settled
<1>6. Ancestors(up, x) \subseteq Ancestors(vp, x)
  BY <1>4, <1>5, AncestorsLeast
<1>7. QED
  BY <1>3, <1>6

(* The chain of b itself. *)
LEMMA UpdateHere ==
  ASSUME NEW up, NEW vp, NEW b, Updates(up, vp, b)
  PROVE  Ancestors(vp, b) = {b} \cup Ancestors(up, vp[b])
<1>1. vp[b] \in Blocks /\ b \in Blocks
  BY DEF Updates, Settled
<1>2. Ancestors(vp, vp[b]) = Ancestors(up, vp[b])
  BY <1>1, UpdateElsewhere DEF Updates
<1>3. QED
  BY <1>1, <1>2, AncestorsStep DEF Updates

(* A chain through b still goes through b, and what it loses was above b.  *)
LEMMA UpdateBelow ==
  ASSUME NEW up, NEW vp, NEW b, Updates(up, vp, b), NEW x \in Blocks
  PROVE  /\ b \in Ancestors(up, x) => b \in Ancestors(vp, x)
         /\ b \in Ancestors(up, x) => Ancestors(vp, b) \subseteq Ancestors(vp, x)
         /\ Ancestors(up, x) \subseteq Ancestors(vp, x) \cup Ancestors(up, b)
<1> USE DEF Updates
<1>1. /\ b \in Blocks
      /\ Ancestors(vp, x) \in SUBSET Blocks /\ x \in Ancestors(vp, x)
      /\ Ancestors(up, b) \in SUBSET Blocks /\ b \in Ancestors(up, b)
  BY AncestorsLeast
<1>2. ASSUME b \notin Ancestors(vp, x)
      PROVE  Ancestors(up, x) \subseteq Ancestors(vp, x)
  <2>1. \A y \in Ancestors(vp, x) : Settled(up, y) => up[y] \in Ancestors(vp, x)
    BY <1>1, <1>2, AncestorsLeast DEF Settled
  <2>2. QED
    BY <1>1, <2>1, AncestorsLeast
<1>3. b \in Ancestors(up, x) => b \in Ancestors(vp, x)
  BY <1>2
<1>4. b \in Ancestors(up, x) => Ancestors(vp, b) \subseteq Ancestors(vp, x)
  BY <1>3, AncestorsTransitive
<1> DEFINE S == Ancestors(vp, x) \cup Ancestors(up, b)
<1>5. S \in SUBSET Blocks /\ x \in S
  BY <1>1
<1>6. \A y \in S : Settled(up, y) => up[y] \in S
  BY <1>1, AncestorsLeast DEF Settled
<1> HIDE DEF S
<1>7. Ancestors(up, x) \subseteq S
  BY <1>5, <1>6, AncestorsLeast
<1>8. QED
  BY <1>3, <1>4, <1>7 DEF S

(* When the new dominator was on the chain already, chains only shrink.    *)
LEMMA UpdateShrinks ==
  ASSUME NEW up, NEW vp, NEW b, Updates(up, vp, b),
         vp[b] \in Ancestors(up, b), NEW x \in Blocks
  PROVE  Ancestors(vp, x) \subseteq Ancestors(up, x)
<1> USE DEF Updates
<1>1. Ancestors(up, x) \in SUBSET Blocks /\ x \in Ancestors(up, x)
  BY AncestorsLeast
<1>2. ASSUME NEW y \in Ancestors(up, x), Settled(vp, y)
      PROVE  vp[y] \in Ancestors(up, x)
  <2>1. CASE y = b
    BY <2>1, AncestorsTransitive
  <2>2. CASE y # b
    BY <1>1, <1>2, <2>2, AncestorsLeast DEF Settled
  <2>3. QED
    BY <2>1, <2>2
<1>3. QED
  BY <1>1, <1>2, AncestorsLeast

-----------------------------------------------------------------------------
(***************************************************************************)
(* Dominance                                                               *)
(***************************************************************************)
LEMMA DominatesItself ==
  ASSUME NEW G \in Graphs, Root \in Blocks, NEW b \in Blocks
  PROVE  Dominates(G, b, b)
<1>1. CASE b = Root
  <2>1. {} \in SUBSET (Blocks \ {b, b})
    OBVIOUS
  <2>2. QED
    BY <1>1, <2>1 DEF Dominates
<1>2. CASE b # Root
  <2>1. Blocks \ {b} \in SUBSET (Blocks \ {b, b})
    OBVIOUS
  <2>2. \A x \in Blocks \ {b} : G[x] \subseteq (Blocks \ {b}) \cup {b}
    BY DEF Graphs
  <2>3. QED
    BY <1>2, <2>1, <2>2 DEF Dominates
<1>3. QED
  BY <1>1, <1>2

(* Nothing else dominates the root. *)
LEMMA RootDominated ==
  ASSUME NEW G \in Graphs, NEW d \in Blocks, Dominates(G, d, Root)
  PROVE  d = Root
BY DEF Dominates

(* The root dominates every block. *)
LEMMA RootDominates ==
  ASSUME NEW G \in Graphs, NEW b \in Blocks
  PROVE  Dominates(G, Root, b)
<1>1. {} \in SUBSET (Blocks \ {Root, b})
  OBVIOUS
<1>2. QED
  BY <1>1 DEF Dominates

(* A strict dominator of a block dominates every predecessor of it. *)
LEMMA DominatesPredecessor ==
  ASSUME NEW G \in Graphs, NEW d \in Blocks, NEW b \in Blocks,
         StrictlyDominates(G, d, b), NEW p \in Preds(G, b)
  PROVE  Dominates(G, d, p)
<1>1. PICK S \in SUBSET (Blocks \ {d, b}) :
        /\ d # Root => Root \in S
        /\ \A x \in S : G[x] \subseteq S \cup {d}
  BY DEF StrictlyDominates, Dominates
<1>2. p \notin S /\ S \in SUBSET (Blocks \ {d, p})
  BY <1>1 DEF Preds, StrictlyDominates
<1>3. QED
  BY <1>1, <1>2 DEF Dominates

(* A block that dominates the only predecessor dominates the block, and    *)
(* strictly, for a block is not reached through itself alone.              *)
LEMMA OnlyPredecessor ==
  ASSUME NEW G \in Graphs, Root \in Blocks, Rooted(G), NEW d \in Blocks,
         NEW b \in Blocks, b # Root, NEW p \in Preds(G, b), Preds(G, b) = {p},
         Dominates(G, d, p)
  PROVE  StrictlyDominates(G, d, b)
<1>1. PICK S \in SUBSET (Blocks \ {d, p}) :
        /\ d # Root => Root \in S
        /\ \A x \in S : G[x] \subseteq S \cup {d}
  BY DEF Dominates
<1>2. p \in Blocks /\ \A x \in Blocks : b \in G[x] => x = p
  BY DEF Preds
<1>3. d # b
  <2> SUFFICES ASSUME d = b PROVE FALSE
    OBVIOUS
  <2>1. \A x \in S : G[x] \subseteq S
    BY <1>1, <1>2
  <2>2. S = Blocks
    BY <1>1, <2>1 DEF Rooted, Closed
  <2>3. QED
    BY <1>1, <2>2
<1>4. Dominates(G, d, b)
  <2>1. S \ {b} \in SUBSET (Blocks \ {d, b}) /\ (d # Root => Root \in S \ {b})
    BY <1>1
  <2>2. \A x \in S \ {b} : G[x] \subseteq (S \ {b}) \cup {d}
    BY <1>1, <1>2
  <2>3. QED
    BY <2>1, <2>2 DEF Dominates
<1>5. QED
  BY <1>3, <1>4 DEF StrictlyDominates

-----------------------------------------------------------------------------
(***************************************************************************)
(* The invariant of the sweeps.  A sweep goes down the numbers; at is the  *)
(* number of the block it is at, -1 between two sweeps.                    *)
(***************************************************************************)
(* Every climb ends at the root. *)
RootOnChains(up) ==
  \A c \in Blocks : Settled(up, c) => Root \in Ancestors(up, c)

(* Blocks are settled in the order of the sweep. *)
SettledFirst(up, num) ==
  \A c, x \in Blocks : Settled(up, c) /\ num[c] < num[x] => Settled(up, x)

(* The block recorded for c is no strict dominator too high: each strict   *)
(* dominator of c dominates it.                                            *)
NoneSkipped(G, up) ==
  \A c \in Blocks \ {Root} : Settled(up, c) =>
    \A d \in Blocks : StrictlyDominates(G, d, c) => Dominates(G, d, up[c])

(* What all settled predecessors of c have above them.                     *)
CommonAbove(G, up, c) ==
  {e \in Blocks : \A p \in Preds(G, c) : Settled(up, p) => e \in Ancestors(up, p)}

(* No chain holds less than the next visit of the sweep would leave it, so *)
(* that a visit can only shorten it.                                       *)
NoneTooShort(G, up) ==
  \A c \in Blocks \ {Root} : Settled(up, c) => CommonAbove(G, up, c) \subseteq Ancestors(up, c)

(* The chain of c agrees with that of a predecessor numbered above it:     *)
(* altogether once the sweep has passed c, and before that in the part     *)
(* that the sweep has yet to come to.                                      *)
AgreesAhead(G, up, num, at) ==
  \A c \in Blocks \ {Root} : Settled(up, c) =>
    \A p \in Preds(G, c) : num[c] < num[p] =>
      \A x \in Ancestors(up, c) \ {c} :
        at < num[c] \/ num[x] <= at => x \in Ancestors(up, p)

SweepInvariant(G, up, num, at) ==
  /\ Ascends(up, num)
  /\ RootOnChains(up)
  /\ SettledFirst(up, num)
  /\ NoneSkipped(G, up)
  /\ NoneTooShort(G, up)
  /\ AgreesAhead(G, up, num, at)

(* A graph with a postorder numbering: every block but the root has a      *)
(* predecessor numbered above it.                                          *)
Numbered(G, num) ==
  /\ G \in Graphs /\ Root \in Blocks
  /\ Numbering(num)
  /\ Preds(G, Root) = {}
  /\ \A c \in Blocks \ {Root} : \E p \in Preds(G, c) : num[c] < num[p]

(* No dominator of a settled block is missing from its chain.              *)
LEMMA DominatorsOnChain ==
  ASSUME NEW G, NEW num, Numbered(G, num), NEW up,
         Ascends(up, num), RootOnChains(up), NoneSkipped(G, up), SettledFirst(up, num),
         NEW c \in Blocks, Settled(up, c), NEW d \in Blocks, Dominates(G, d, c)
  PROVE  d \in Ancestors(up, c)
<1> SUFFICES ASSUME d \notin Ancestors(up, c) PROVE FALSE
  OBVIOUS
<1> DEFINE S == {x \in Ancestors(up, c) : Settled(up, x) /\ Dominates(G, d, x)}
<1>1. G \in Graphs /\ Ancestors(up, c) \in SUBSET Blocks /\ c \in Ancestors(up, c)
  BY AncestorsLeast DEF Numbered
<1>2. ASSUME NEW x \in S, Settled(up, x)
      PROVE  up[x] \in S
  <2>1. x \in Blocks /\ up[x] \in Blocks /\ up[x] \in Ancestors(up, c) /\ x # d
    BY <1>1, <1>2, AncestorsLeast DEF Settled
  <2>2. CASE x = Root
    BY <1>2, <2>1, <2>2 DEF Ascends
  <2>3. CASE x # Root
    <3>1. Dominates(G, d, up[x])
      BY <1>2, <2>1, <2>3 DEF NoneSkipped, StrictlyDominates
    <3>2. Settled(up, up[x])
      BY <1>2, <2>1, <2>3 DEF Ascends, SettledFirst
    <3>3. QED
      BY <2>1, <3>1, <3>2
  <2>4. QED
    BY <2>2, <2>3
<1>3. S \in SUBSET Blocks /\ c \in S
  BY <1>1
<1>4. Ancestors(up, c) \subseteq S
  <2> HIDE DEF S
  <2>1. QED
    BY <1>2, <1>3, AncestorsLeast
<1>5. Root \in Ancestors(up, c)
  BY DEF RootOnChains
<1>6. Dominates(G, d, Root)
  BY <1>4, <1>5
<1>7. d = Root
  BY <1>1, <1>6, RootDominated
<1>8. QED
  BY <1>5, <1>7

-----------------------------------------------------------------------------
(***************************************************************************)
(* The meet over the predecessors of a block c                             *)
(***************************************************************************)
(* The climb has not passed what it looks for: every strict dominator of c *)
(* dominates f, and what all settled predecessors have above them is above *)
(* f too.                                                                  *)
NotTooHigh(G, up, c, f) ==
  /\ f \in Blocks /\ Settled(up, f)
  /\ \A d \in Blocks : StrictlyDominates(G, d, c) => Dominates(G, d, f)
  /\ CommonAbove(G, up, c) \subseteq Ancestors(up, f)

(* A settled predecessor is not too high: a finger may start there. *)
LEMMA PredecessorNotTooHigh ==
  ASSUME NEW G \in Graphs, NEW up, NEW c \in Blocks,
         NEW p \in Preds(G, c), Settled(up, p)
  PROVE  NotTooHigh(G, up, c, p)
<1>1. p \in Blocks
  BY DEF Preds
<1>2. QED
  BY <1>1, DominatesPredecessor DEF NotTooHigh, CommonAbove

(* The lower of two fingers may go one step up. *)
LEMMA ClimbNotTooHigh ==
  ASSUME NEW G, NEW num, Numbered(G, num), NEW up, NEW at, SweepInvariant(G, up, num, at),
         NEW c \in Blocks, NEW f, NEW g, num[f] < num[g],
         NotTooHigh(G, up, c, f), NotTooHigh(G, up, c, g)
  PROVE  NotTooHigh(G, up, c, up[f])
<1> USE DEF SweepInvariant
<1>1. /\ f \in Blocks /\ g \in Blocks /\ Settled(up, f) /\ Settled(up, g)
      /\ Numbering(num) /\ num[f] \in Nat /\ num[g] \in Nat
  BY DEF NotTooHigh, Numbered, Numbering
<1>2. up[f] \in Blocks /\ Ancestors(up, f) = {f} \cup Ancestors(up, up[f])
  BY <1>1, AncestorsStep
<1>3. f \notin Ancestors(up, g)
  BY <1>1, AncestorsAbove
<1>4. CommonAbove(G, up, c) \subseteq Ancestors(up, up[f])
  BY <1>2, <1>3 DEF NotTooHigh
<1>5. f # Root
  BY <1>1, <1>3 DEF RootOnChains
<1>6. Settled(up, up[f])
  BY <1>1, <1>2, <1>5 DEF Ascends, SettledFirst
<1>7. ASSUME NEW d \in Blocks, StrictlyDominates(G, d, c)
      PROVE  Dominates(G, d, up[f])
  <2>1. Dominates(G, d, f) /\ Dominates(G, d, g)
    BY <1>7 DEF NotTooHigh
  <2>2. d \in Ancestors(up, g)
    BY <1>1, <2>1, DominatorsOnChain
  <2>3. d # f
    BY <1>3, <2>2
  <2>4. QED
    BY <1>1, <1>5, <2>1, <2>3 DEF NoneSkipped, StrictlyDominates
<1>8. QED
  BY <1>2, <1>4, <1>6, <1>7 DEF NotTooHigh

-----------------------------------------------------------------------------
(***************************************************************************)
(* The visit of block c: its dominator becomes u, a block on the chains of *)
(* all settled predecessors and not too high                               *)
(***************************************************************************)
Visit(G, up, vp, num, at, c, u) ==
  /\ c \in Blocks \ {Root} /\ num[c] = at
  /\ NotTooHigh(G, up, c, u)
  /\ \A p \in Preds(G, c) : Settled(up, p) => u \in Ancestors(up, p)
  /\ \A x \in Blocks : at < num[x] => Settled(up, x)
  /\ vp[c] = u
  /\ \A x \in Blocks \ {c} : vp[x] = up[x]

(* u is above c, so the visit is an update of the kind studied above.      *)
LEMMA VisitUpdates ==
  ASSUME NEW G, NEW num, Numbered(G, num), NEW up, NEW at, SweepInvariant(G, up, num, at),
         NEW vp, NEW c, NEW u, Visit(G, up, vp, num, at, c, u)
  PROVE  /\ u \in Blocks /\ num[c] < num[u]
         /\ Updates(up, vp, c)
         /\ \A x \in Blocks : Settled(vp, x) <=> x = c \/ Settled(up, x)
<1> USE DEF SweepInvariant, Visit
<1>1. u \in Blocks /\ c \in Blocks /\ Numbering(num) /\ num[c] \in Nat /\ num[u] \in Nat
  BY DEF NotTooHigh, Numbered, Numbering
<1>2. PICK p \in Preds(G, c) : num[c] < num[p]
  BY DEF Numbered
<1>3. p \in Blocks /\ num[p] \in Nat /\ Settled(up, p)
  BY <1>1, <1>2 DEF Preds, Numbering
<1>4. num[c] < num[u]
  <2>1. u = p \/ num[p] < num[u]
    BY <1>1, <1>3, AncestorsAbove
  <2>2. QED
    BY <1>1, <1>2, <1>3, <2>1
<1>5. c \notin Ancestors(up, u)
  BY <1>1, <1>4, AncestorsAbove
<1>6. QED
  BY <1>1, <1>4, <1>5 DEF Updates, Settled

(* A visit only shortens the chains of settled blocks.                     *)
LEMMA VisitShortens ==
  ASSUME NEW G, NEW num, Numbered(G, num), NEW up, NEW at, SweepInvariant(G, up, num, at),
         NEW vp, NEW c, NEW u, Visit(G, up, vp, num, at, c, u),
         NEW x \in Blocks, Settled(up, x)
  PROVE  Ancestors(vp, x) \subseteq Ancestors(up, x)
<1>1. /\ Updates(up, vp, c) /\ u \in Blocks /\ c \in Blocks \ {Root} /\ vp[c] = u
      /\ Numbering(num) /\ Ascends(up, num)
  BY VisitUpdates DEF Visit, SweepInvariant, Numbered
<1>2. CASE Settled(up, c)
  <2>1. u \in CommonAbove(G, up, c)
    BY <1>1 DEF Visit, CommonAbove
  <2>2. u \in Ancestors(up, c)
    BY <1>1, <1>2, <2>1 DEF SweepInvariant, NoneTooShort
  <2>3. QED
    BY <1>1, <2>2, UpdateShrinks
<1>3. CASE ~ Settled(up, c)
  <2>1. c \notin Ancestors(up, x)
    <3>1. \A y \in Blocks : y = x \/ num[x] < num[y] => Settled(up, y)
      BY DEF SweepInvariant, SettledFirst
    <3>2. \A y \in Ancestors(up, x) : y \in Blocks /\ (y = x \/ num[x] < num[y])
      BY <1>1, AncestorsAbove
    <3>3. QED
      BY <1>3, <3>1, <3>2
  <2>2. QED
    BY <1>1, <2>1, UpdateElsewhere
<1>4. QED
  BY <1>2, <1>3

(* Chains still ascend to the root, and skip no dominator. *)
LEMMA VisitKeepsOrder ==
  ASSUME NEW G, NEW num, Numbered(G, num), NEW up, NEW at, SweepInvariant(G, up, num, at),
         NEW vp, NEW c, NEW u, Visit(G, up, vp, num, at, c, u)
  PROVE  Ascends(vp, num) /\ RootOnChains(vp) /\ SettledFirst(vp, num) /\ NoneSkipped(G, vp)
<1> USE DEF SweepInvariant
<1>1. /\ Updates(up, vp, c) /\ u \in Blocks /\ c \in Blocks \ {Root} /\ vp[c] = u
      /\ num[c] < num[u] /\ Numbering(num) /\ num[c] = at
      /\ \A x \in Blocks \ {c} : vp[x] = up[x]
      /\ \A x \in Blocks : Settled(vp, x) <=> x = c \/ Settled(up, x)
      /\ Settled(up, u)
  BY VisitUpdates DEF Visit, Numbered, NotTooHigh
<1>2. Ascends(vp, num)
  BY <1>1 DEF Ascends
<1>3. ASSUME NEW x \in Blocks, Settled(vp, x)
      PROVE  Root \in Ancestors(vp, x)
  <2>1. Root \in Ancestors(vp, c)
    BY <1>1, UpdateHere DEF RootOnChains
  <2>2. CASE x = c
    BY <2>1, <2>2
  <2>3. CASE x # c /\ c \notin Ancestors(up, x)
    BY <1>1, <1>3, <2>3, UpdateElsewhere DEF RootOnChains
  <2>4. CASE c \in Ancestors(up, x)
    BY <1>1, <2>1, <2>4, UpdateBelow
  <2>5. QED
    BY <2>2, <2>3, <2>4
<1>4. SettledFirst(vp, num)
  BY <1>1 DEF SettledFirst, Visit
<1>5. NoneSkipped(G, vp)
  BY <1>1 DEF NoneSkipped, Visit, NotTooHigh
<1>6. QED
  BY <1>2, <1>3, <1>4, <1>5 DEF RootOnChains

(* The chain of a block agrees with that of a predecessor numbered above   *)
(* it one block further down.                                              *)
LEMMA VisitAgrees ==
  ASSUME NEW G, NEW num, Numbered(G, num), NEW up, NEW at, SweepInvariant(G, up, num, at),
         NEW vp, NEW c, NEW u, Visit(G, up, vp, num, at, c, u)
  PROVE  AgreesAhead(G, vp, num, at - 1)
<1> USE DEF SweepInvariant
<1>1. /\ Updates(up, vp, c) /\ u \in Blocks /\ c \in Blocks \ {Root} /\ vp[c] = u
      /\ num[c] < num[u] /\ Numbering(num) /\ num[c] = at /\ at \in Nat
      /\ \A x \in Blocks : Settled(vp, x) <=> x = c \/ Settled(up, x)
  BY VisitUpdates DEF Visit, Numbered, Numbering
<1>2. SUFFICES ASSUME NEW d \in Blocks \ {Root}, Settled(vp, d),
                      NEW p \in Preds(G, d), num[d] < num[p],
                      NEW x \in Ancestors(vp, d) \ {d},
                      at - 1 < num[d] \/ num[x] <= at - 1
               PROVE  x \in Ancestors(vp, p)
  BY DEF AgreesAhead
<1>3. /\ p \in Blocks /\ x \in Blocks
      /\ num[d] \in Nat /\ num[p] \in Nat /\ num[x] \in Nat
  BY <1>1, AncestorsLeast DEF Preds, Numbering
<1>4. CASE d = c
  <2>1. c \notin Ancestors(up, p)
    BY <1>1, <1>2, <1>3, <1>4, AncestorsAbove
  <2>2. Ancestors(vp, p) = Ancestors(up, p)
    BY <1>1, <1>3, <2>1, UpdateElsewhere
  <2>3. x \in Ancestors(up, u)
    BY <1>1, <1>4, UpdateHere
  <2>4. u \in Ancestors(up, p)
    BY <1>1, <1>2, <1>3, <1>4 DEF Visit
  <2>5. QED
    BY <1>3, <2>2, <2>3, <2>4, AncestorsTransitive
<1>5. CASE d # c /\ at < num[d]
  <2>1. c \notin Ancestors(up, p) /\ c \notin Ancestors(up, d)
    BY <1>1, <1>2, <1>3, <1>5, AncestorsAbove
  <2>2. Ancestors(vp, p) = Ancestors(up, p) /\ Ancestors(vp, d) = Ancestors(up, d)
    BY <1>1, <1>3, <2>1, UpdateElsewhere
  <2>3. QED
    BY <1>1, <1>2, <1>5, <2>2 DEF AgreesAhead
<1>6. CASE d # c /\ num[d] < at
  <2>1. num[x] <= at - 1 /\ Settled(up, d)
    BY <1>1, <1>2, <1>3, <1>6
  <2>2. x \in Ancestors(up, d)
    BY <2>1, VisitShortens
  <2>3. x \in Ancestors(up, p)
    BY <1>1, <1>2, <1>3, <2>1, <2>2 DEF AgreesAhead
  <2>4. x \notin Ancestors(up, c)
    BY <1>1, <1>3, <2>1, AncestorsAbove
  <2>5. QED
    BY <1>1, <1>3, <2>3, <2>4, UpdateBelow
<1>7. QED
  BY <1>1, <1>3, <1>4, <1>5, <1>6 DEF Numbering

(* Nor does the visit leave another block's chain too short: what it takes *)
(* away from a chain was above c, and the block's predecessors above it    *)
(* have c on their chains and lose it too.                                 *)
LEMMA VisitNoneTooShort ==
  ASSUME NEW G, NEW num, Numbered(G, num), NEW up, NEW at, SweepInvariant(G, up, num, at),
         NEW vp, NEW c, NEW u, Visit(G, up, vp, num, at, c, u)
  PROVE  NoneTooShort(G, vp)
<1> USE DEF SweepInvariant
<1>1. /\ Updates(up, vp, c) /\ u \in Blocks /\ c \in Blocks \ {Root} /\ vp[c] = u
      /\ num[c] < num[u] /\ Numbering(num) /\ num[c] = at /\ at \in Nat
      /\ \A x \in Blocks : Settled(vp, x) <=> x = c \/ Settled(up, x)
  BY VisitUpdates DEF Visit, Numbered, Numbering
<1>2. SUFFICES ASSUME NEW d \in Blocks \ {Root}, Settled(vp, d),
                      NEW e \in CommonAbove(G, vp, d), e \notin Ancestors(vp, d)
               PROVE  FALSE
  BY DEF NoneTooShort
<1>3. \A p \in Preds(G, d) : p \in Blocks
  BY DEF Preds
<1>4. e \in CommonAbove(G, up, d)
  BY <1>1, <1>2, <1>3, VisitShortens DEF CommonAbove
<1>5. d # c
  BY <1>1, <1>2, <1>4, UpdateHere DEF Visit, NotTooHigh
<1>6. Settled(up, d) /\ e \in Ancestors(up, d) /\ e \in Blocks
  BY <1>1, <1>2, <1>4, <1>5, AncestorsLeast DEF NoneTooShort
<1>7. c \in Ancestors(up, d) /\ e \in Ancestors(up, c)
  BY <1>1, <1>2, <1>6, UpdateElsewhere, UpdateBelow
<1>8. PICK p \in Preds(G, d) : num[d] < num[p]
  BY DEF Numbered
<1>9. p \in Blocks /\ Settled(up, p)
  BY <1>3, <1>6, <1>8 DEF SettledFirst
<1>10. c \in Ancestors(up, p)
  BY <1>1, <1>5, <1>6, <1>7, <1>8 DEF AgreesAhead
<1>11. c \in Ancestors(vp, p) /\ e \in Ancestors(vp, p)
  BY <1>1, <1>2, <1>9, <1>10, UpdateBelow DEF CommonAbove
<1>12. e \in Ancestors(vp, c) \/ c \in Ancestors(vp, e)
  BY <1>9, <1>11, AncestorsLinear
<1>13. CASE e \in Ancestors(vp, c)
  BY <1>1, <1>2, <1>7, <1>13, UpdateBelow
<1>14. CASE c \in Ancestors(vp, e)
  <2>1. Ascends(vp, num)
    BY VisitKeepsOrder
  <2>2. c = e \/ num[e] < num[c]
    BY <1>1, <1>6, <1>14, <2>1, AncestorsAbove
  <2>3. e = c \/ num[c] < num[e]
    BY <1>1, <1>7, AncestorsAbove
  <2>4. c = e
    BY <1>1, <1>6, <2>2, <2>3 DEF Numbering
  <2>5. QED
    BY <1>1, <1>2, <1>7, <2>4, UpdateBelow
<1>15. QED
  BY <1>12, <1>13, <1>14

(* The step of the iteration, in one piece. *)
LEMMA VisitKeepsInvariant ==
  ASSUME NEW G, NEW num, Numbered(G, num), NEW up, NEW at, SweepInvariant(G, up, num, at),
         NEW vp, NEW c, NEW u, Visit(G, up, vp, num, at, c, u)
  PROVE  SweepInvariant(G, vp, num, at - 1)
BY VisitKeepsOrder, VisitAgrees, VisitNoneTooShort DEF SweepInvariant

-----------------------------------------------------------------------------
(***************************************************************************)
(* The fixpoint: a sweep without a change leaves exactly the dominators    *)
(***************************************************************************)
(* The blocks the sweep has passed had nothing to change. *)
Stable(G, up, num, at) ==
  \A c \in Blocks \ {Root} : at < num[c] =>
    \A p \in Preds(G, c) : Settled(up, p) => up[c] \in Ancestors(up, p)

Finished(G, up, num) ==
  /\ Numbered(G, num)
  /\ SweepInvariant(G, up, num, -1)
  /\ Stable(G, up, num, -1)
  /\ \A x \in Blocks : Settled(up, x)

(* At the fixpoint, the dominator of a block is above all predecessors. *)
LEMMA FinishedStable ==
  ASSUME NEW G, NEW num, NEW up, Finished(G, up, num),
         NEW c \in Blocks \ {Root}, NEW p \in Preds(G, c)
  PROVE  p \in Blocks /\ up[c] \in Ancestors(up, p)
BY DEF Finished, Stable, Preds, Numbered, Numbering

(* Then a chain is closed under what dominance asks of it: the blocks that  *)
(* do not have d on their chain are left only through d.                   *)
LEMMA ChainsAreDominators ==
  ASSUME NEW G, NEW num, NEW up, Finished(G, up, num), NEW b \in Blocks
  PROVE  Ancestors(up, b) = DominatorsOf(G, b)
<1> USE DEF Finished, SweepInvariant
<1>1. DominatorsOf(G, b) \subseteq Ancestors(up, b)
  BY DominatorsOnChain DEF DominatorsOf
<1>2. ASSUME NEW d \in Ancestors(up, b)
      PROVE  Dominates(G, d, b)
  <2> DEFINE S == {x \in Blocks : d \notin Ancestors(up, x)}
  <2>1. d \in Blocks /\ d \in Ancestors(up, d) /\ G \in Graphs /\ Root \in Blocks
    BY AncestorsLeast DEF Numbered
  <2>2. S \in SUBSET (Blocks \ {d, b})
    BY <1>2, <2>1
  <2>3. Ancestors(up, Root) = {Root}
    BY <2>1, AncestorsTop DEF Ascends
  <2>4. ASSUME NEW x \in S, NEW y \in G[x], y # d
        PROVE  y \in S
    <3>1. y \in Blocks /\ x \in Preds(G, y)
      BY <2>1, <2>4 DEF Graphs, Preds
    <3>2. y # Root
      BY <3>1 DEF Numbered
    <3>3. up[y] \in Ancestors(up, x)
      BY <3>1, <3>2, FinishedStable
    <3>4. Ancestors(up, y) = {y} \cup Ancestors(up, up[y])
      BY <3>1, AncestorsStep
    <3>5. Ancestors(up, up[y]) \subseteq Ancestors(up, x)
      BY <3>3, AncestorsTransitive
    <3>6. QED
      BY <2>4, <3>1, <3>4, <3>5
  <2>5. \A x \in S : G[x] \subseteq S \cup {d}
    BY <2>4
  <2>6. d # Root => Root \in S
    BY <2>1, <2>3
  <2> HIDE DEF S
  <2>7. QED
    BY <2>2, <2>5, <2>6 DEF Dominates
<1>3. QED
  BY <1>1, <1>2, AncestorsLeast DEF DominatorsOf

(* A join b is in the frontier of the blocks that a walk from a            *)
(* predecessor of b meets below the dominator of b, and of no others.      *)
LEMMA FrontierByWalks ==
  ASSUME NEW G, NEW num, NEW up, Finished(G, up, num),
         NEW b \in Blocks, NEW x \in Blocks
  PROVE  b \in DominanceFrontier(G, x) <=>
           \E p \in Preds(G, b) : /\ x \in Ancestors(up, p)
                                  /\ x \notin Ancestors(up, up[b])
<1> USE DEF Finished, SweepInvariant
<1>1. G \in Graphs /\ Root \in Blocks /\ Numbering(num) /\ Preds(G, Root) = {}
  BY DEF Numbered
<1>2. \A p \in Preds(G, b) : p \in Blocks /\ (Dominates(G, x, p) <=> x \in Ancestors(up, p))
  BY ChainsAreDominators DEF DominatorsOf, Preds
<1>3. ASSUME b # Root
      PROVE  StrictlyDominates(G, x, b) <=> x \in Ancestors(up, up[b])
  <2>1. up[b] \in Blocks /\ Ancestors(up, b) = {b} \cup Ancestors(up, up[b])
    BY AncestorsStep
  <2>2. num[b] < num[up[b]] /\ num[b] \in Nat /\ num[up[b]] \in Nat
    BY <1>1, <1>3, <2>1 DEF Ascends, Numbering
  <2>3. b \notin Ancestors(up, up[b])
    BY <1>1, <2>1, <2>2, AncestorsAbove
  <2>4. Dominates(G, x, b) <=> x \in Ancestors(up, b)
    BY ChainsAreDominators DEF DominatorsOf
  <2>5. QED
    BY <2>1, <2>3, <2>4 DEF StrictlyDominates
<1>4. CASE b = Root
  BY <1>1, <1>4 DEF DominanceFrontier
<1>5. CASE b # Root
  BY <1>2, <1>3, <1>5 DEF DominanceFrontier
<1>6. QED
  BY <1>4, <1>5

(* A block with a single predecessor is in no frontier: the walks may      *)
(* leave it out.                                                           *)
LEMMA NoFrontierWithoutJoin ==
  ASSUME NEW G \in Graphs, Root \in Blocks, Rooted(G),
         NEW b \in Blocks, b # Root,
         NEW p \in Preds(G, b), Preds(G, b) = {p}, NEW x \in Blocks
  PROVE  b \notin DominanceFrontier(G, x)
BY OnlyPredecessor DEF DominanceFrontier

(* At the fixpoint every block but the root has its immediate dominator.   *)
LEMMA RecordedIsImmediate ==
  ASSUME NEW G, NEW num, NEW up, Finished(G, up, num), NEW c \in Blocks \ {Root}
  PROVE  IsImmediateDominator(G, up[c], c)
<1> USE DEF Finished, SweepInvariant
<1>1. Numbering(num) /\ up[c] \in Blocks /\ Ancestors(up, c) = {c} \cup Ancestors(up, up[c])
  BY AncestorsStep DEF Numbered
<1>2. up[c] \in Ancestors(up, c)
  BY <1>1, AncestorsLeast
<1>3. Dominates(G, up[c], c)
  BY <1>2, ChainsAreDominators DEF DominatorsOf
<1>4. up[c] # c
  BY <1>1 DEF Ascends, Numbering
<1>5. QED
  BY <1>1, <1>3, <1>4 DEF IsImmediateDominator, StrictlyDominates, NoneSkipped
-----------------------------------------------------------------------------
(***************************************************************************)
(* Definitions and joins: which block of a set D, the blocks that define a *)
(* variable, was the last one a walk went through.                         *)
(***************************************************************************)
(* A block that dominates a dominator is one itself. *)
LEMMA DominatesTransitive ==
  ASSUME NEW G \in Graphs, NEW a \in Blocks, NEW b \in Blocks, NEW c \in Blocks,
         Dominates(G, a, b), Dominates(G, b, c)
  PROVE  Dominates(G, a, c)
<1>1. CASE a = Root
  BY <1>1, RootDominates
<1>2. CASE a # Root
  <2>1. b # Root
    BY <1>2, RootDominated
  <2>2. PICK S \in SUBSET (Blocks \ {a, b}) : Root \in S /\ \A x \in S : G[x] \subseteq S \cup {a}
    BY <1>2 DEF Dominates
  <2>3. PICK T \in SUBSET (Blocks \ {b, c}) : Root \in T /\ \A x \in T : G[x] \subseteq T \cup {b}
    BY <2>1 DEF Dominates
  <2>4. S \cap T \in SUBSET (Blocks \ {a, c}) /\ Root \in S \cap T
    BY <2>2, <2>3
  <2>5. \A x \in S \cap T : G[x] \subseteq (S \cap T) \cup {a}
    BY <2>2, <2>3
  <2>6. QED
    BY <1>2, <2>4, <2>5 DEF Dominates
<1>3. QED
  BY <1>1, <1>2

(* Two blocks do not dominate one another. *)
LEMMA DominatesAntisymmetric ==
  ASSUME NEW G \in Graphs, Rooted(G), NEW a \in Blocks, NEW b \in Blocks,
         Dominates(G, a, b), Dominates(G, b, a)
  PROVE  a = b
<1> SUFFICES ASSUME a # b PROVE FALSE
  OBVIOUS
<1>1. a # Root /\ b # Root
  BY RootDominated
<1>2. PICK S \in SUBSET (Blocks \ {a, b}) : Root \in S /\ \A x \in S : G[x] \subseteq S \cup {a}
  BY <1>1 DEF Dominates
<1>3. PICK T \in SUBSET (Blocks \ {a, b}) : Root \in T /\ \A x \in T : G[x] \subseteq T \cup {b}
  BY <1>1 DEF Dominates
<1>4. S \cap T \in SUBSET Blocks /\ Root \in S \cap T /\ Closed(G, S \cap T)
  BY <1>2, <1>3 DEF Closed
<1>5. QED
  BY <1>2, <1>4 DEF Rooted

(* d is the last block of D before the end of b, b included ... *)
LastDef(G, D, d, b) ==
  /\ d \in D /\ Dominates(G, d, b)
  /\ \A e \in D : Dominates(G, e, b) => Dominates(G, e, d)

(* ... and before its start. *)
EntryDef(G, D, d, b) ==
  /\ d \in D /\ StrictlyDominates(G, d, b)
  /\ \A e \in D : StrictlyDominates(G, e, b) => Dominates(G, e, d)

(* F holds every block where the dominance of one of D ends, and all of F  *)
(* are in D: F is where the phis are, and a phi is a definition.           *)
Joined(G, D, F) ==
  /\ G \in Graphs /\ Root \in Blocks /\ Rooted(G)
  /\ D \in SUBSET Blocks /\ F \subseteq D
  /\ \A d \in D : DominanceFrontier(G, d) \subseteq F

(* There is at most one of each. *)
LEMMA EntryDefUnique ==
  ASSUME NEW G, NEW D, NEW F, Joined(G, D, F), NEW b \in Blocks,
         NEW d, EntryDef(G, D, d, b), NEW e, EntryDef(G, D, e, b)
  PROVE  d = e
BY DominatesAntisymmetric DEF Joined, EntryDef

(* A block without a phi is entered with the definition that is the last   *)
(* one of each of its predecessors.                                        *)
LEMMA EdgeKeepsDef ==
  ASSUME NEW G, NEW D, NEW F, Joined(G, D, F), NEW b \in Blocks, b \notin F,
         NEW p \in Preds(G, b), NEW d, LastDef(G, D, d, p)
  PROVE  EntryDef(G, D, d, b)
<1>1. p \in Blocks /\ d \in Blocks /\ Dominates(G, d, p)
  BY DEF Preds, LastDef, Joined
<1>2. StrictlyDominates(G, d, b)
  BY <1>1 DEF Joined, LastDef, DominanceFrontier
<1>3. ASSUME NEW e \in D, StrictlyDominates(G, e, b) PROVE Dominates(G, e, d)
  BY <1>3, DominatesPredecessor DEF Joined, LastDef
<1>4. QED
  BY <1>2, <1>3 DEF EntryDef, LastDef

(* A block entered with a definition it does not replace leaves with it. *)
LEMMA EntryDefLast ==
  ASSUME NEW G, NEW D, NEW b, b \notin D, NEW d, EntryDef(G, D, d, b)
  PROVE  LastDef(G, D, d, b)
BY DEF EntryDef, LastDef, StrictlyDominates

(* A definition is the last one where it is. *)
LEMMA OwnDefLast ==
  ASSUME NEW G, NEW D, NEW F, Joined(G, D, F), NEW b \in D
  PROVE  LastDef(G, D, b, b)
BY DominatesItself DEF Joined, LastDef

(* Where there is a definition at all, there is a last one. *)
LEMMA LastDefExists ==
  ASSUME NEW G, NEW D, NEW F, Joined(G, D, F), NEW b \in Blocks,
         \E d \in D : Dominates(G, d, b)
  PROVE  \E d : LastDef(G, D, d, b)
<1> DEFINE S == {x \in Blocks : (\E d : LastDef(G, D, d, x)) \/ \A d \in D : ~ Dominates(G, d, x)}
<1>1. Root \in S
  <2>1. CASE Root \in D
    BY <2>1, OwnDefLast DEF Joined
  <2>2. CASE Root \notin D
    BY <2>2, RootDominated DEF Joined
  <2>3. QED
    BY <2>1, <2>2
<1>2. ASSUME NEW x \in S, NEW y \in G[x] PROVE y \in S
  <2>1. y \in Blocks /\ x \in Preds(G, y)
    BY <1>2 DEF Joined, Graphs, Preds
  <2>2. CASE y \in D
    BY <2>1, <2>2, OwnDefLast
  <2>3. CASE y \notin D /\ \E d : LastDef(G, D, d, x)
    <3>1. PICK d : LastDef(G, D, d, x)
      BY <2>3
    <3>2. y \notin F
      BY <2>3 DEF Joined
    <3>3. LastDef(G, D, d, y)
      BY <2>1, <2>3, <3>1, <3>2, EdgeKeepsDef, EntryDefLast
    <3>4. QED
      BY <2>1, <3>3
  <2>4. CASE y \notin D /\ \A d \in D : ~ Dominates(G, d, x)
    <3>1. ASSUME NEW d \in D PROVE ~ Dominates(G, d, y)
      <4>1. d # y /\ d \in Blocks /\ G \in Graphs
        BY <2>4 DEF Joined
      <4>2. Dominates(G, d, y) => Dominates(G, d, x)
        BY <2>1, <4>1, DominatesPredecessor DEF StrictlyDominates
      <4>3. QED
        BY <2>4, <4>2
    <3>2. QED
      BY <2>1, <3>1
  <2>5. QED
    BY <1>2, <2>2, <2>3, <2>4
<1>3. S = Blocks
  <2>1. S \in SUBSET Blocks /\ Closed(G, S)
    BY <1>2 DEF Closed
  <2>2. QED
    BY <1>1, <2>1 DEF Joined, Rooted
<1>4. QED
  BY <1>3

(* Every block but the root has a predecessor. *)
LEMMA HasPredecessor ==
  ASSUME NEW G \in Graphs, Rooted(G), NEW b \in Blocks, b # Root, Root \in Blocks
  PROVE  \E p \in Blocks : p \in Preds(G, b)
<1> SUFFICES ASSUME \A p \in Blocks : p \notin Preds(G, b) PROVE FALSE
  OBVIOUS
<1>1. Blocks \ {b} \in SUBSET Blocks /\ Root \in Blocks \ {b} /\ Closed(G, Blocks \ {b})
  BY DEF Closed, Preds, Graphs
<1>2. QED
  BY <1>1 DEF Rooted

(* Where a definition comes before a block without a phi, there is one it  *)
(* is entered with.                                                        *)
LEMMA EntryDefExists ==
  ASSUME NEW G, NEW D, NEW F, Joined(G, D, F), NEW b \in Blocks, b \notin F,
         NEW e \in D, StrictlyDominates(G, e, b)
  PROVE  \E d : EntryDef(G, D, d, b)
<1>1. G \in Graphs /\ e \in Blocks /\ e # b /\ b # Root
  BY RootDominated DEF Joined, StrictlyDominates
<1>2. PICK p \in Blocks : p \in Preds(G, b)
  BY <1>1, HasPredecessor DEF Joined
<1>3. Dominates(G, e, p)
  BY <1>1, <1>2, DominatesPredecessor
<1>4. PICK d : LastDef(G, D, d, p)
  BY <1>2, <1>3, LastDefExists
<1>5. QED
  BY <1>2, <1>4, EdgeKeepsDef

(* If every walk from the root goes through a definition before it enters  *)
(* b, then b has a phi or is entered with a definition.                    *)
LEMMA AlwaysDefined ==
  ASSUME NEW G, NEW D, NEW F, Joined(G, D, F), NEW b \in Blocks,
         NEW S \in SUBSET (Blocks \ {b}), Root \in S,
         \A x \in S : x \in D \/ G[x] \subseteq S
  PROVE  b \in F \/ \E d : EntryDef(G, D, d, b)
<1> SUFFICES ASSUME b \notin F, ~ \E d : EntryDef(G, D, d, b) PROVE FALSE
  OBVIOUS
<1> DEFINE C == {x \in Blocks : x \in S \/ x \in F \/ \E d : EntryDef(G, D, d, x)}
<1>1. b \notin C /\ C \in SUBSET Blocks /\ Root \in C
  OBVIOUS
<1>2. ASSUME NEW x \in C, NEW y \in G[x] PROVE y \in C
  <2>1. y \in Blocks /\ x \in Preds(G, y)
    BY <1>2 DEF Joined, Graphs, Preds
  <2>2. CASE y \in F
    BY <2>1, <2>2
  <2>3. CASE y \notin F /\ \E d : LastDef(G, D, d, x)
    <3>1. \E d : EntryDef(G, D, d, y)
      BY <2>1, <2>3, EdgeKeepsDef
    <3>2. QED
      BY <2>1, <3>1
  <2>4. CASE x \in S /\ x \notin D
    BY <2>1, <2>4
  <2>5. x \in D => \E d : LastDef(G, D, d, x)
    BY OwnDefLast
  <2>6. x \notin D /\ (\E d : EntryDef(G, D, d, x)) => \E d : LastDef(G, D, d, x)
    BY EntryDefLast
  <2>7. x \in D \/ (x \in S /\ x \notin D) \/ (x \notin D /\ \E d : EntryDef(G, D, d, x))
    BY <1>2 DEF Joined
  <2> HIDE DEF C
  <2>8. QED
    BY <2>2, <2>3, <2>4, <2>5, <2>6, <2>7
<1> HIDE DEF C
<1>3. C = Blocks
  <2>1. Closed(G, C)
    BY <1>2 DEF Closed
  <2>2. QED
    BY <1>1, <2>1 DEF Joined, Rooted
<1>4. QED
  BY <1>1, <1>3
=============================================================================
