------------------------- MODULE RDominateTree_proofs --------------------------
(***************************************************************************)
(* That the RDominateTree pass computes the postdominators and the reverse *)
(* frontiers of every function, whatever the functions before it were.     *)
(*                                                                         *)
(* The theory is the one DominateTree uses, on the graph turned around and *)
(* with the block that returns for its root.  OrderInv follows             *)
(* get_post_order and Ordered is what it leaves; TreeInv, StableInv and    *)
(* VisitInv are about the sweeps, WalkInv and FrontierSound about          *)
(* get_bb_rdom_front, FillInv about get_bb_rdoms.                          *)
(***************************************************************************)
EXTENDS RDominateTree, SequenceTheorems, FiniteSetTheorems, TLAPS

T == INSTANCE DominatorTheory WITH Blocks <- Listed, Root <- exit_block

Numbered == {order[k] : k \in 1 .. Len(order)}
OnStack  == {stack[k] : k \in 1 .. Len(stack)}
RootId   == bb2int[exit_block]

(* The numbers and rdoms are those of this function. *)
Computing == pc \notin {"start", "dfs"}

(* The postdominators recorded by now, as a function of the block. *)
Tree == [b \in Listed |-> Irdom(b)]
Chain(b) == T!Ancestors(Tree, b)

PhaseInv ==
  /\ cfg \in CFGs
  /\ pc = "start" => functions < MaxFunctions
  /\ pc # "start" => exit_block \in Returns(cfg)
  /\ pc \notin {"sweep", "meet", "climb"} => at = -1
  /\ pc \in {"front", "walk", "fill", "done"} => ~ changed
  /\ pc \in {"meet", "climb"} => at # -1 /\ BlockAt(at) # exit_block

(* The activations are a path against the edges from the exit; a numbered  *)
(* block has all its predecessors entered, and a successor that is         *)
(* numbered above it or is going to be.                                    *)
OrderInv ==
  pc = "dfs" =>
    /\ stack \in Seq(Listed) /\ order \in Seq(Listed)
    /\ visited = Numbered \cup OnStack
    /\ Numbered \cap OnStack = {}
    /\ \A j, k \in 1 .. Len(stack) : j # k => stack[j] # stack[k]
    /\ stack # <<>> => stack[1] = exit_block
    /\ stack = <<>> => order # <<>> /\ order[Len(order)] = exit_block
    /\ \A k \in 1 .. Len(stack) - 1 : stack[k] \in cfg[stack[k + 1]]
    /\ \A k \in 1 .. Len(order) : bb2int[order[k]] = k - 1
    /\ \A b \in Numbered : Preds(cfg, b) \subseteq visited
    /\ \A b \in Numbered \ {exit_block} :
         \E s \in cfg[b] : s \in OnStack \/ (s \in Numbered /\ bb2int[b] < bb2int[s])

(* What the numbering is when the exit's activation has returned; rdoms    *)
(* holds blocks of this function only.                                     *)
Ordered ==
  /\ order \in Seq(Listed) /\ Numbered = Listed
  /\ order # <<>> /\ order[Len(order)] = exit_block
  /\ \A k \in 1 .. Len(order) : bb2int[order[k]] = k - 1
  /\ \A b \in Listed \ {exit_block} : \E s \in cfg[b] : bb2int[b] < bb2int[s]

NumbersInv == Computing => Ordered /\ rdoms \in [0 .. RootId -> Listed \cup {NULL}]

(* What the theory asks of rdoms; and the blocks the sweep has passed are  *)
(* all settled (before the first sweep, the exit alone is).                *)
TreeInv ==
  Computing =>
    /\ T!SweepInvariant(Turned, Tree, bb2int, at)
    /\ T!Settled(Tree, exit_block)
    /\ \/ pc = "sweep" /\ at = -1 /\ changed
       \/ \A x \in Listed : at < bb2int[x] => T!Settled(Tree, x)

StableInv == Computing /\ ~ changed => T!Stable(Turned, Tree, bb2int, at)

(* The block at hand, its new_irdom and the fingers: none has gone too     *)
(* high, and each successor met so far has new_irdom, or the finger that   *)
(* started from it, on its chain.                                          *)
VisitInv ==
  /\ pc \in {"meet", "climb"} =>
       /\ pending \subseteq cfg[BlockAt(at)]
       /\ \A s \in pending : T!Settled(Tree, s)
       /\ T!NotTooHigh(Turned, Tree, BlockAt(at), new_irdom)
       /\ \A s \in cfg[BlockAt(at)] :
            T!Settled(Tree, s) => \/ s \in pending
                                  \/ new_irdom \in Chain(s)
                                  \/ pc = "climb" /\ finger1 \in Chain(s)
  /\ pc = "climb" =>
       /\ T!NotTooHigh(Turned, Tree, BlockAt(at), finger1)
       /\ T!NotTooHigh(Turned, Tree, BlockAt(at), finger2)
       /\ finger2 \in Chain(new_irdom)

(* The frontiers of this function never hold a block that does not belong  *)
(* there ...                                                               *)
FrontierSound ==
  pc # "start" => \A b \in Listed : rdom_frontier[b] \subseteq T!DominanceFrontier(Turned, b)

(* ... and the walk for the edge <<b, s>> has left the branching block b   *)
(* with every block of s's chain below top.                                *)
Walked(b, s, top) == \A x \in Chain(s) : x \notin Chain(top) => b \in rdom_frontier[x]

WalkInv ==
  /\ pc \in {"front", "walk", "fill", "done"} =>
       \A b \in Listed : \A s, t \in cfg[b] :
         s # t => \/ <<b, s>> \in edges
                  \/ Walked(b, s, Irdom(b))
                  \/ pc = "walk" /\ branch = b /\ Walked(b, s, runner)
  /\ pc \in {"front", "walk"} => \A e \in edges : e[1] \in Listed /\ e[2] \in cfg[e[1]]
  /\ pc = "walk" =>
       /\ branch \in Listed /\ runner \in Listed
       /\ Irdom(branch) \in Chain(runner)
       /\ \E s \in cfg[branch] : runner \in Chain(s)
  /\ pc \in {"fill", "done"} => edges = {}

(* The set of a block is empty before its turn, then holds what the climb  *)
(* has left behind, and in the end its chain without the exit.             *)
FillInv ==
  /\ pc \in {"dfs", "sweep", "meet", "climb", "front", "walk"} => \A b \in Listed : rdom[b] = {}
  /\ pc = "fill" =>
       /\ unfilled \subseteq Listed
       /\ bb \in Listed \ unfilled /\ current \in Chain(bb)
       /\ \A b \in Listed :
            rdom[b] = IF b \in unfilled THEN {}
                      ELSE IF b = bb THEN Chain(bb) \ Chain(current)
                      ELSE Chain(b) \ {exit_block}
  /\ pc = "done" => \A b \in Listed : rdom[b] = Chain(b) \ {exit_block}

IInv ==
  /\ TypeOK /\ PhaseInv /\ OrderInv /\ NumbersInv
  /\ TreeInv /\ StableInv /\ VisitInv /\ FrontierSound /\ WalkInv /\ FillInv

-----------------------------------------------------------------------------
(***************************************************************************)
(* Facts about the graph, the numbering and the tree                       *)
(***************************************************************************)
(* One block returns, and every block is found against the edges from it.  *)
LEMMA GraphFacts ==
  ASSUME PhaseInv
  PROVE  /\ Listed \subseteq Blocks /\ NULL \notin Listed
         /\ cfg \in [Listed -> SUBSET Listed]
         /\ Preds(cfg, NULL) \subseteq Listed
         /\ \A b : Preds(cfg, b) \subseteq Listed
         /\ \A b \in Listed : IsFiniteSet(cfg[b])
         /\ pc # "start" =>
              /\ exit_block \in Listed /\ cfg[exit_block] = {}
              /\ \A S \in SUBSET Listed :
                   exit_block \in S /\ (\A x \in S : Preds(cfg, x) \subseteq S) => S = Listed
<1>1. /\ Listed \subseteq Blocks /\ NULL \notin Listed /\ cfg \in [Listed -> SUBSET Listed]
      /\ Cardinality(Returns(cfg)) = 1
      /\ \A S \in SUBSET Listed :
           Returns(cfg) \subseteq S /\ (\A b \in Listed : cfg[b] \cap S # {} => b \in S)
             => S = Listed
  BY ReverseAssumption DEF PhaseInv, Listed
<1>2. \A b : Preds(cfg, b) \subseteq Listed
  BY DEF Preds, Listed
<1>3. IsFiniteSet(Blocks)
  BY ReverseAssumption
<1>4. ASSUME NEW S \in SUBSET Listed PROVE IsFiniteSet(S)
  <2>1. S \in SUBSET Blocks
    BY <1>1
  <2>2. QED
    BY <1>3, <2>1, FS_Subset
<1>5. ASSUME pc # "start"
      PROVE  /\ exit_block \in Listed /\ cfg[exit_block] = {}
             /\ \A S \in SUBSET Listed :
                  exit_block \in S /\ (\A x \in S : Preds(cfg, x) \subseteq S) => S = Listed
  <2>1. exit_block \in Returns(cfg) /\ Returns(cfg) \in SUBSET Listed
    BY <1>5 DEF PhaseInv, Returns, Listed
  <2>2. IsFiniteSet(Returns(cfg))
    BY <1>4, <2>1
  <2>3. Returns(cfg) = {exit_block}
    BY <1>1, <2>1, <2>2, FS_Singleton
  <2>4. ASSUME NEW S \in SUBSET Listed, exit_block \in S,
               \A x \in S : Preds(cfg, x) \subseteq S
        PROVE  S = Listed
    <3>1. ASSUME NEW b \in Listed, cfg[b] \cap S # {} PROVE b \in S
      BY <2>4, <3>1 DEF Preds, Listed
    <3>2. QED
      BY <1>1, <2>3, <2>4, <3>1
  <2>5. exit_block \in Listed /\ cfg[exit_block] = {}
    BY <2>1 DEF Returns, Listed
  <2>6. QED
    BY <2>4, <2>5
<1>6. \A b \in Listed : IsFiniteSet(cfg[b])
  BY <1>1, <1>4
<1>7. QED
  BY <1>1, <1>2, <1>5, <1>6

(* Two successors are enough for a block to be a branching block. *)
LEMMA TwoSuccessors ==
  ASSUME NEW S, IsFiniteSet(S), NEW s \in S, NEW t \in S, s # t
  PROVE  Cardinality(S) >= 2
<1>1. IsFiniteSet({s}) /\ Cardinality({s}) = 1
  BY FS_Singleton
<1>2. IsFiniteSet({s} \cup {t}) /\ Cardinality({s} \cup {t}) = 2
  <2>1. t \notin {s}
    OBVIOUS
  <2>2. Cardinality({s} \cup {t}) = Cardinality({s}) + 1
    BY <1>1, <2>1, FS_AddElement, Zenon
  <2>3. IsFiniteSet({s} \cup {t})
    BY <1>1, FS_AddElement, Zenon
  <2>4. QED
    BY <1>1, <2>2, <2>3
<1>3. ({s} \cup {t}) \in SUBSET S
  OBVIOUS
<1>4. Cardinality({s} \cup {t}) <= Cardinality(S) /\ Cardinality(S) \in Nat
  BY <1>3, FS_Subset, FS_CardinalityType
<1>5. QED
  BY <1>2, <1>4

(* The graph turned around, in the words of the theory. *)
LEMMA TurnedFacts ==
  ASSUME PhaseInv
  PROVE  /\ Turned \in [Listed -> SUBSET Listed]
         /\ \A b \in Listed : Turned[b] = Preds(cfg, b) /\ T!Preds(Turned, b) = cfg[b]
<1>1. cfg \in [Listed -> SUBSET Listed]
  BY GraphFacts
<1>2. /\ Turned \in [Listed -> SUBSET Listed]
      /\ \A b \in Listed : Turned[b] = Preds(cfg, b)
  BY DEF Turned, Post!Reversed, Post!Preds, Preds, Listed
<1>3. ASSUME NEW b \in Listed PROVE T!Preds(Turned, b) = cfg[b]
  BY <1>1, <1>2 DEF T!Preds, Preds, Listed
<1>4. QED
  BY <1>2, <1>3

(* Number and block determine each other; 0 .. RootId are the numbers.     *)
LEMMA NumberFacts ==
  ASSUME TypeOK, Ordered
  PROVE  /\ RootId = Len(order) - 1 /\ RootId \in Nat
         /\ exit_block \in Listed /\ BlockAt(RootId) = exit_block
         /\ \A b \in Listed : bb2int[b] \in 0 .. RootId /\ BlockAt(bb2int[b]) = b
         /\ \A n \in 0 .. RootId : BlockAt(n) \in Listed /\ bb2int[BlockAt(n)] = n
         /\ \A b \in Listed : b # exit_block => bb2int[b] < RootId
<1>1. order \in Seq(Listed) /\ Len(order) \in Nat /\ Len(order) > 0
  BY EmptySeq DEF Ordered
<1>2. \A k \in 1 .. Len(order) : order[k] \in Listed /\ bb2int[order[k]] = k - 1
  BY <1>1 DEF Ordered
<1>3. order[Len(order)] = exit_block
  BY DEF Ordered
<1>4. RootId = Len(order) - 1 /\ RootId \in Nat
  BY <1>1, <1>2, <1>3 DEF RootId
<1>5. \A b \in Listed : \E k \in 1 .. Len(order) : b = order[k]
  BY DEF Ordered, Numbered
<1>6. ASSUME NEW b \in Listed
      PROVE  bb2int[b] \in 0 .. RootId /\ BlockAt(bb2int[b]) = b
  <2>1. PICK k \in 1 .. Len(order) : b = order[k]
    BY <1>5
  <2>2. bb2int[b] = k - 1
    BY <1>2, <2>1
  <2>3. QED
    BY <1>1, <1>4, <2>1, <2>2 DEF BlockAt
<1>7. \A n \in 0 .. RootId : BlockAt(n) \in Listed /\ bb2int[BlockAt(n)] = n
  BY <1>1, <1>2, <1>4 DEF BlockAt
<1>8. BlockAt(RootId) = exit_block
  BY <1>1, <1>3, <1>4 DEF BlockAt
<1>9. exit_block \in Listed
  BY <1>1, <1>2, <1>3
<1>10. ASSUME NEW b \in Listed, b # exit_block PROVE bb2int[b] < RootId
  <2>1. bb2int[b] # RootId
    BY <1>6, <1>8, <1>10
  <2>2. QED
    BY <1>4, <1>6, <2>1
<1>11. QED
  BY <1>4, <1>6, <1>7, <1>8, <1>9, <1>10

(* The tree and the numbering as the theory wants them. *)
TreeWords ==
  /\ T!Numbered(Turned, bb2int) /\ T!Rooted(Turned) /\ Turned \in T!Graphs
  /\ NULL \notin Listed /\ exit_block \in Listed
  /\ \A b \in Listed : /\ Tree[b] = Irdom(b)
                       /\ T!Settled(Tree, b) <=> Processed(b)
                       /\ T!Preds(Turned, b) = cfg[b]
                       /\ cfg[b] \subseteq Listed

(* They do, once the blocks are numbered. *)
LEMMA TreeFacts == TypeOK /\ PhaseInv /\ NumbersInv /\ Computing => TreeWords
<1> SUFFICES ASSUME TypeOK, PhaseInv, NumbersInv, Computing PROVE TreeWords
  OBVIOUS
<1>1. Ordered /\ pc # "start" /\ rdoms \in [0 .. RootId -> Listed \cup {NULL}]
  BY DEF NumbersInv, Computing
<1>2. /\ exit_block \in Listed
      /\ \A b \in Listed : bb2int[b] \in 0 .. RootId /\ BlockAt(bb2int[b]) = b
      /\ RootId \in Nat
  BY <1>1, NumberFacts
<1>3. /\ Turned \in [Listed -> SUBSET Listed] /\ cfg \in [Listed -> SUBSET Listed]
      /\ \A b \in Listed : Turned[b] = Preds(cfg, b) /\ T!Preds(Turned, b) = cfg[b]
      /\ Listed \subseteq Blocks /\ NULL \notin Listed
  BY GraphFacts, TurnedFacts
<1>4. T!Numbering(bb2int)
  BY <1>2 DEF T!Numbering
<1>5. T!Numbered(Turned, bb2int)
  <2>1. T!Preds(Turned, exit_block) = {}
    BY <1>1, <1>2, <1>3, GraphFacts
  <2>2. \A c \in Listed \ {exit_block} : \E s \in T!Preds(Turned, c) : bb2int[c] < bb2int[s]
    BY <1>1, <1>3 DEF Ordered
  <2>3. QED
    BY <1>2, <1>3, <1>4, <2>1, <2>2 DEF T!Numbered, T!Graphs
<1>6. T!Rooted(Turned)
  <2>1. \A S \in SUBSET Listed :
          exit_block \in S /\ (\A x \in S : Preds(cfg, x) \subseteq S) => S = Listed
    BY <1>1, GraphFacts
  <2>2. QED
    BY <1>3, <2>1 DEF T!Rooted, T!Closed
<1>7. ASSUME NEW b \in Listed
      PROVE  Tree[b] = Irdom(b) /\ (T!Settled(Tree, b) <=> Processed(b))
  <2>1. Irdom(b) \in Listed \cup {NULL}
    BY <1>1, <1>2 DEF Irdom
  <2>2. Tree[b] = Irdom(b)
    BY DEF Tree
  <2>3. QED
    BY <1>3, <2>1, <2>2 DEF T!Settled, Processed
<1>8. QED
  BY <1>2, <1>3, <1>5, <1>6, <1>7 DEF TreeWords, T!Graphs

(* The same after a step. *)
LEMMA TreeFactsNext == (TypeOK /\ PhaseInv /\ NumbersInv /\ Computing => TreeWords)'
BY TreeFacts, PTL

(* What a step that keeps the graph and the exit leaves of the theory: the *)
(* same operators, and so the same facts about the same tree.              *)
LEMMA TheoryKept ==
  ASSUME UNCHANGED <<cfg, exit_block>>
  PROVE  /\ Listed' = Listed /\ Turned' = Turned
         /\ \A up, b : T!Ancestors(up, b)' = T!Ancestors(up, b)
         /\ \A up, b : T!Settled(up, b)' <=> T!Settled(up, b)
         /\ \A G, b : T!DominanceFrontier(G, b)' = T!DominanceFrontier(G, b)
         /\ \A G, up, c, f : T!NotTooHigh(G, up, c, f)' <=> T!NotTooHigh(G, up, c, f)
         /\ \A G, up, num, k : T!Stable(G, up, num, k)' <=> T!Stable(G, up, num, k)
         /\ \A G, up, num, k : T!SweepInvariant(G, up, num, k)' <=> T!SweepInvariant(G, up, num, k)
<1>1. Listed' = Listed /\ Turned' = Turned
  BY DEF Listed, Turned, Post!Reversed, Post!Preds
<1>2. \A up, b : (T!Settled(up, b)' <=> T!Settled(up, b))
  BY <1>1 DEF T!Settled
<1>3. \A up, b : T!Ancestors(up, b)' = T!Ancestors(up, b)
  BY <1>1, <1>2 DEF T!Ancestors
<1>4. /\ \A G, b : T!Preds(G, b)' = T!Preds(G, b)
      /\ \A G, d, b : T!Dominates(G, d, b)' <=> T!Dominates(G, d, b)
  BY <1>1 DEF T!Preds, T!Dominates
<1>5. \A G, d, b : T!StrictlyDominates(G, d, b)' <=> T!StrictlyDominates(G, d, b)
  BY <1>4 DEF T!StrictlyDominates
<1>6. \A G, b : T!DominanceFrontier(G, b)' = T!DominanceFrontier(G, b)
  BY <1>1, <1>4, <1>5 DEF T!DominanceFrontier
<1>7. \A G, up, c : T!CommonAbove(G, up, c)' = T!CommonAbove(G, up, c)
  BY <1>1, <1>2, <1>3, <1>4 DEF T!CommonAbove
<1>8. \A G, up, c, f : T!NotTooHigh(G, up, c, f)' <=> T!NotTooHigh(G, up, c, f)
  BY <1>1, <1>2, <1>3, <1>4, <1>5, <1>7 DEF T!NotTooHigh
<1>9. \A G, up, num, k : T!Stable(G, up, num, k)' <=> T!Stable(G, up, num, k)
  BY <1>1, <1>2, <1>3, <1>4 DEF T!Stable
<1>10. \A G, up, num, k : T!SweepInvariant(G, up, num, k)' <=> T!SweepInvariant(G, up, num, k)
  <2>1. \A up, num : T!Ascends(up, num)' <=> T!Ascends(up, num)
    BY <1>1, <1>2 DEF T!Ascends
  <2>2. \A up : T!RootOnChains(up)' <=> T!RootOnChains(up)
    BY <1>1, <1>2, <1>3 DEF T!RootOnChains
  <2>3. \A up, num : T!SettledFirst(up, num)' <=> T!SettledFirst(up, num)
    BY <1>1, <1>2 DEF T!SettledFirst
  <2>4. \A G, up : T!NoneSkipped(G, up)' <=> T!NoneSkipped(G, up)
    BY <1>1, <1>2, <1>4, <1>5 DEF T!NoneSkipped
  <2>5. \A G, up : T!NoneTooShort(G, up)' <=> T!NoneTooShort(G, up)
    BY <1>1, <1>2, <1>3, <1>7 DEF T!NoneTooShort
  <2>6. \A G, up, num, k : T!AgreesAhead(G, up, num, k)' <=> T!AgreesAhead(G, up, num, k)
    BY <1>1, <1>2, <1>3, <1>4 DEF T!AgreesAhead
  <2>7. QED
    BY <2>1, <2>2, <2>3, <2>4, <2>5, <2>6 DEF T!SweepInvariant
<1>11. QED
  BY <1>1, <1>2, <1>3, <1>6, <1>8, <1>9, <1>10

(* The tree depends on rdoms and the numbers alone. *)
LEMMA TreeKept ==
  ASSUME UNCHANGED <<cfg, exit_block, bb2int, rdoms>>
  PROVE  /\ Tree' = Tree /\ \A b : Chain(b)' = Chain(b)
         /\ \A x : Irdom(x)' = Irdom(x) /\ (Processed(x)' <=> Processed(x))
<1>1. \A x : Irdom(x)' = Irdom(x) /\ (Processed(x)' <=> Processed(x))
  BY DEF Irdom, Processed
<1>2. Tree' = Tree
  BY <1>1, TheoryKept DEF Tree
<1>3. \A b : Chain(b)' = Chain(b)
  BY <1>2, TheoryKept DEF Chain
<1>4. QED
  BY <1>1, <1>2, <1>3

-----------------------------------------------------------------------------
(***************************************************************************)
(* Initial states, and the walk of get_post_order                          *)
(***************************************************************************)
LEMMA InitIInv == Init => IInv
<1> SUFFICES ASSUME Init PROVE IInv
  OBVIOUS
<1>1. Len(order) = 0 /\ 0 \in 0 .. MaxFunctions /\ 0 < MaxFunctions
  BY ReverseAssumption DEF Init
<1>2. /\ cfg \in [Listed -> SUBSET Listed] /\ cfg \in CFGs
      /\ bb2int \in [Pointers -> Nat] /\ stack \in Seq(Blocks) /\ order \in Seq(Blocks)
      /\ rdom \in [Listed -> SUBSET Listed] /\ rdom_frontier \in [Listed -> SUBSET Listed]
  BY ReverseAssumption DEF Init, Listed
<1>3. /\ at \in -1 .. Len(order) - 1 /\ functions \in 0 .. MaxFunctions
      /\ exit_block \in Pointers /\ new_irdom \in Pointers
  BY <1>1 DEF Init, Pointers
<1>4. TypeOK
  BY <1>2, <1>3 DEF Init, TypeOK
<1>5. PhaseInv
  BY <1>1 DEF Init, PhaseInv
<1>6. OrderInv /\ NumbersInv /\ TreeInv /\ StableInv /\ VisitInv
  BY DEF Init, OrderInv, NumbersInv, TreeInv, StableInv, VisitInv, Computing
<1>7. FrontierSound /\ WalkInv /\ FillInv
  BY DEF Init, FrontierSound, WalkInv, FillInv
<1>8. QED
  BY <1>4, <1>5, <1>6, <1>7 DEF IInv

(* While the blocks are numbered, nothing is said of the sweeps. *)
LEMMA NumberingOnly ==
  ASSUME pc' = "dfs"
  PROVE  NumbersInv' /\ TreeInv' /\ StableInv' /\ VisitInv' /\ WalkInv'
BY DEF NumbersInv, TreeInv, StableInv, VisitInv, WalkInv, Computing

(* The exit is the only block entered, and the sets are empty. *)
LEMMA BeginFunctionIInv == IInv /\ BeginFunction => IInv'
<1> SUFFICES ASSUME IInv, BeginFunction PROVE IInv'
  OBVIOUS
<1> USE DEF IInv, BeginFunction
<1>1. Listed' = Listed /\ cfg' = cfg
  BY DEF Listed
<1>2. /\ exit_block' \in Listed /\ exit_block' \in Returns(cfg') /\ Listed \subseteq Blocks
  BY GraphFacts DEF Returns, Listed
<1>3. stack' \in Seq(Listed) /\ stack' \in Seq(Blocks) /\ order' = <<>> /\ Len(order') = 0
  BY <1>2
<1>4. at' = -1 /\ functions' \in 0 .. MaxFunctions
  BY ReverseAssumption DEF PhaseInv, TypeOK
<1>5. TypeOK'
  <2>1. bb2int' \in [Pointers -> Nat] /\ exit_block' \in Pointers /\ visited' \subseteq Blocks
    BY <1>2 DEF Pointers
  <2>2. at' \in -1 .. Len(order') - 1 /\ order' \in Seq(Blocks)
    BY <1>3, <1>4
  <2>3. rdom' \in [Listed -> SUBSET Listed] /\ rdom_frontier' \in [Listed -> SUBSET Listed]
    OBVIOUS
  <2>4. QED
    BY <1>1, <1>3, <1>4, <2>1, <2>2, <2>3 DEF TypeOK, meetVars, walkVars, fillVars
<1>6. PhaseInv'
  BY <1>1, <1>2, <1>4 DEF PhaseInv
<1>7. OnStack' = {exit_block'} /\ Numbered' = {}
  BY DEF OnStack, Numbered
<1>8. OrderInv'
  BY <1>1, <1>2, <1>3, <1>7 DEF OrderInv
<1>9. FrontierSound' /\ FillInv'
  BY <1>1 DEF FrontierSound, FillInv
<1>10. QED
  BY <1>5, <1>6, <1>8, <1>9, NumberingOnly

(* The predecessor entered is neither numbered nor active. *)
LEMMA VisitParentIInv == ASSUME NEW p \in Blocks PROVE IInv /\ VisitParent(p) => IInv'
<1> SUFFICES ASSUME IInv, VisitParent(p) PROVE IInv'
  OBVIOUS
<1> USE DEF IInv, VisitParent
<1>1. /\ Listed' = Listed /\ UNCHANGED <<cfg, exit_block>>
      /\ \A b : Preds(cfg, b) \subseteq Listed
  BY GraphFacts DEF Listed
<1>2. stack \in Seq(Listed) /\ Len(stack) \in Nat \ {0} /\ p \in Listed
  BY <1>1, EmptySeq DEF OrderInv
<1>3. /\ Len(stack') = Len(stack) + 1 /\ stack' \in Seq(Listed)
      /\ stack'[Len(stack) + 1] = p
      /\ \A k \in 1 .. Len(stack) : stack'[k] = stack[k]
  BY <1>2
<1>4. OnStack' = OnStack \cup {p} /\ Numbered' = Numbered
  BY <1>2, <1>3 DEF OnStack, Numbered
<1>5. /\ Top \in cfg[p] /\ p \notin visited /\ p \notin OnStack /\ p \notin Numbered
  BY DEF OrderInv, Preds
<1>6. TypeOK'
  <2>1. stack' \in Seq(Blocks) /\ visited' \subseteq Blocks
    BY DEF TypeOK
  <2>2. QED
    BY <1>1, <2>1 DEF TypeOK, sweepVars, meetVars, walkVars, fillVars, blockVars
<1>7. PhaseInv'
  BY DEF PhaseInv, sweepVars
<1>8. OrderInv'
  <2>1. visited' = Numbered' \cup OnStack' /\ Numbered' \cap OnStack' = {}
    BY <1>4, <1>5 DEF OrderInv
  <2>2. \A j, k \in 1 .. Len(stack') : j # k => stack'[j] # stack'[k]
    <3>1. \A k \in 1 .. Len(stack) : stack[k] # p
      BY <1>5 DEF OnStack
    <3>2. \A k \in 1 .. Len(stack') : k = Len(stack) + 1 \/ k \in 1 .. Len(stack)
      BY <1>2, <1>3
    <3>3. QED
      BY <1>3, <3>1, <3>2 DEF OrderInv
  <2>3. stack' # <<>> /\ stack'[1] = exit_block
    BY <1>2, <1>3 DEF OrderInv
  <2>4. \A k \in 1 .. Len(stack') - 1 : stack'[k] \in cfg'[stack'[k + 1]]
    BY <1>2, <1>3, <1>5 DEF OrderInv, Top
  <2>5. /\ \A b \in Numbered' : Preds(cfg', b) \subseteq visited'
        /\ \A b \in Numbered' \ {exit_block} : \E s \in cfg'[b] :
             s \in OnStack' \/ (s \in Numbered' /\ bb2int'[b] < bb2int'[s])
    BY <1>4 DEF OrderInv
  <2>6. QED
    BY <1>1, <1>3, <1>4, <2>1, <2>2, <2>3, <2>4, <2>5 DEF OrderInv
<1>9. FrontierSound' /\ FillInv'
  BY <1>1, TheoryKept DEF FrontierSound, FillInv, blockVars
<1>10. QED
  BY <1>6, <1>7, <1>8, <1>9, NumberingOnly

(* Popping an activation leaves the ones below it. *)
LEMMA PopFacts ==
  ASSUME NEW S, NEW s \in Seq(S), Len(s) > 0
  PROVE  /\ SubSeq(s, 1, Len(s) - 1) \in Seq(S)
         /\ Len(SubSeq(s, 1, Len(s) - 1)) = Len(s) - 1
         /\ \A k \in 1 .. Len(s) - 1 : SubSeq(s, 1, Len(s) - 1)[k] = s[k]
<1> DEFINE n == Len(s) - 1
<1>1. n \in Nat /\ n \in Int /\ 1 \in Int
  OBVIOUS
<1>2. \A i \in 1 .. n : s[i] \in S
  OBVIOUS
<1> HIDE DEF n
<1>3. /\ SubSeq(s, 1, n) \in Seq(S)
      /\ Len(SubSeq(s, 1, n)) = IF 1 <= n THEN n - 1 + 1 ELSE 0
      /\ \A i \in 1 .. n - 1 + 1 : SubSeq(s, 1, n)[i] = s[1 + i - 1]
  BY <1>1, <1>2, SubSeqProperties
<1>4. /\ Len(SubSeq(s, 1, n)) = n
      /\ \A i \in 1 .. n : SubSeq(s, 1, n)[i] = s[i]
  BY <1>1, <1>3
<1>5. QED
  BY <1>3, <1>4 DEF n

(* The block numbered last has its successor below it on the stack.        *)
LEMMA FinishBlockIInv == IInv /\ FinishBlock => IInv'
<1> SUFFICES ASSUME IInv, FinishBlock PROVE IInv'
  OBVIOUS
<1> USE DEF IInv, FinishBlock
<1> DEFINE m == Len(stack)
           n == Len(order)
<1>1. /\ Listed' = Listed /\ UNCHANGED <<cfg, exit_block, visited>>
      /\ stack \in Seq(Listed) /\ m \in Nat \ {0} /\ order \in Seq(Listed) /\ n \in Nat
      /\ bb2int \in [Pointers -> Nat] /\ Listed \subseteq Pointers
  BY EmptySeq, GraphFacts DEF OrderInv, TypeOK, Listed, Pointers
<1> HIDE DEF m, n
<1>0. m \in Int /\ m > 0 /\ n \in Int /\ n >= 0
  BY <1>1
<1>2. Top \in Listed /\ Top \in OnStack /\ Top \notin Numbered /\ Top = stack[m]
  BY <1>0, <1>1 DEF Top, OnStack, OrderInv, m
<1>3. /\ stack' \in Seq(Listed)
      /\ Len(stack') = m - 1
      /\ \A k \in 1 .. m - 1 : stack'[k] = stack[k]
  BY <1>0, <1>1, PopFacts DEF m
<1>4. /\ order' \in Seq(Listed)
      /\ Len(order') = n + 1
      /\ order'[n + 1] = Top
      /\ \A k \in 1 .. n : order'[k] = order[k]
  BY <1>1, <1>2 DEF n
<1>5. Numbered' = Numbered \cup {Top}
  BY <1>0, <1>4 DEF Numbered, n
<1>6. OnStack' = OnStack \ {Top}
  <2>1. \A k \in 1 .. m - 1 : stack[k] # Top
    BY <1>0, <1>2 DEF OrderInv, m
  <2>2. \A k \in 1 .. m : k \in 1 .. m - 1 \/ k = m
    BY <1>0
  <2>3. OnStack' = {stack[k] : k \in 1 .. m - 1}
    BY <1>3 DEF OnStack
  <2>4. QED
    BY <1>0, <1>2, <2>1, <2>2, <2>3 DEF OnStack, m
<1>7. /\ bb2int'[Top] = n
      /\ \A x \in Pointers \ {Top} : bb2int'[x] = bb2int[x]
      /\ bb2int' \in [Pointers -> Nat]
  BY <1>1, <1>2 DEF n
<1>8. Numbered \subseteq Listed /\ OnStack \subseteq Listed
  BY <1>1 DEF Numbered, OnStack
<1>9. TypeOK'
  <2>1. at' \in -1 .. Len(order') - 1
    BY <1>0, <1>4 DEF TypeOK, sweepVars, n
  <2>2. stack' \in Seq(Blocks) /\ order' \in Seq(Blocks)
    <3>1. stack \in Seq(Blocks) /\ order \in Seq(Blocks) /\ Top \in Blocks
      BY <1>2, GraphFacts DEF TypeOK
    <3>2. SubSeq(stack, 1, Len(stack) - 1) \in Seq(Blocks)
      BY <1>0, <3>1, PopFacts DEF m
    <3>3. QED
      BY <3>1, <3>2
  <2>3. bb2int' \in [Pointers -> Nat]
    BY <1>7
  <2>4. /\ pc' = pc /\ functions' = functions
        /\ pending' = pending /\ edges' = edges /\ changed' = changed
        /\ new_irdom' = new_irdom /\ unfilled' = unfilled
        /\ rdom' = rdom /\ rdom_frontier' = rdom_frontier
    BY DEF sweepVars, meetVars, walkVars, fillVars, blockVars
  <2>5. QED
    BY <1>1, <2>1, <2>2, <2>3, <2>4 DEF TypeOK
<1>10. PhaseInv'
  BY DEF PhaseInv, sweepVars
<1>11. OrderInv'
  <2>1. visited' = Numbered' \cup OnStack' /\ Numbered' \cap OnStack' = {}
    BY <1>2, <1>5, <1>6 DEF OrderInv
  <2>2. \A j, k \in 1 .. Len(stack') : j # k => stack'[j] # stack'[k]
    BY <1>0, <1>3 DEF OrderInv, m
  <2>3. stack' # <<>> => stack'[1] = exit_block'
    <3>1. stack' # <<>> => Len(stack') > 0
      BY <1>3, EmptySeq
    <3>2. QED
      BY <1>1, <1>3, <3>1 DEF OrderInv
  <2>4. stack' = <<>> => order' # <<>> /\ order'[Len(order')] = exit_block'
    <3>1. stack' = <<>> => m = 1
      BY <1>0, <1>3, EmptySeq
    <3>2. stack # <<>> /\ stack[1] = exit_block
      BY DEF OrderInv
    <3>3. order' # <<>> /\ order'[Len(order')] = Top
      BY <1>0, <1>4, EmptySeq
    <3>4. QED
      BY <1>1, <1>2, <3>1, <3>2, <3>3
  <2>5. \A k \in 1 .. Len(stack') - 1 : stack'[k] \in cfg'[stack'[k + 1]]
    <3>1. \A k \in 1 .. Len(stack') - 1 : k \in 1 .. m - 1 /\ k + 1 \in 1 .. m - 1
      BY <1>0, <1>3
    <3>2. \A k \in 1 .. m - 1 : stack[k] \in cfg[stack[k + 1]]
      BY DEF OrderInv, m
    <3>3. QED
      BY <1>1, <1>3, <3>1, <3>2
  <2>6. \A k \in 1 .. Len(order') : bb2int'[order'[k]] = k - 1
    <3>1. \A k \in 1 .. n : order[k] \in Numbered
      BY DEF Numbered, n
    <3>2. \A k \in 1 .. n : bb2int'[order[k]] = k - 1
      BY <1>1, <1>2, <1>7, <1>8, <3>1 DEF OrderInv, n
    <3>3. \A k \in 1 .. Len(order') : k \in 1 .. n \/ k = n + 1
      BY <1>0, <1>4
    <3>4. QED
      BY <1>0, <1>4, <1>7, <3>2, <3>3
  <2>7. \A b \in Numbered' : Preds(cfg', b) \subseteq visited'
    BY <1>1, <1>5 DEF OrderInv
  <2>8. ASSUME NEW b \in Numbered' \ {exit_block}
        PROVE  \E s \in cfg[b] : s \in OnStack' \/ (s \in Numbered' /\ bb2int'[b] < bb2int'[s])
    <3>1. \A x \in Numbered : bb2int[x] < n
      BY <1>0 DEF Numbered, OrderInv, n
    <3>2. CASE b = Top
      <4>1. m > 1
        BY <1>0, <1>2, <2>8, <3>2 DEF OrderInv
      <4>2. m - 1 \in 1 .. m - 1 /\ (m - 1) + 1 = m
        BY <1>0, <4>1
      <4>3. stack[m - 1] \in OnStack' /\ stack[m - 1] \in cfg[b]
        BY <1>2, <1>3, <3>2, <4>2 DEF OrderInv, OnStack, m
      <4>4. QED
        BY <4>3
    <3>3. CASE b # Top
      <4>1. b \in Numbered /\ b \in Pointers
        BY <1>1, <1>5, <1>8, <2>8, <3>3
      <4>2. PICK s \in cfg[b] : s \in OnStack \/ (s \in Numbered /\ bb2int[b] < bb2int[s])
        BY <2>8, <4>1 DEF OrderInv
      <4>3. CASE s = Top
        BY <1>2, <1>5, <1>7, <3>1, <3>3, <4>1, <4>3
      <4>4. CASE s # Top
        BY <1>1, <1>5, <1>6, <1>7, <1>8, <3>3, <4>1, <4>2, <4>4
      <4>5. QED
        BY <4>3, <4>4
    <3>4. QED
      BY <3>2, <3>3
  <2>9. QED
    BY <1>1, <1>3, <1>4, <2>1, <2>2, <2>3, <2>4, <2>5, <2>6, <2>7, <2>8 DEF OrderInv
<1>12. FrontierSound' /\ FillInv'
  BY <1>1, TheoryKept DEF FrontierSound, FillInv, blockVars
<1>13. QED
  BY <1>9, <1>10, <1>11, <1>12, NumberingOnly

(* The exit's activation returns: the numbered blocks are closed under     *)
(* predecessors, hence all blocks.                                         *)
LEMMA InitRdomsIInv == IInv /\ InitRdoms => IInv'
<1> SUFFICES ASSUME IInv, InitRdoms PROVE IInv'
  OBVIOUS
<1> USE DEF IInv, InitRdoms
<1>1. /\ order \in Seq(Listed) /\ Len(order) \in Nat \ {0} /\ order[Len(order)] = exit_block
      /\ stack = <<>> /\ UNCHANGED <<cfg, exit_block, order, bb2int>> /\ Listed' = Listed
      /\ NULL \notin Listed /\ Listed \subseteq Blocks
  BY EmptySeq, GraphFacts DEF OrderInv, orderVars, Listed
<1>2. OnStack = {} /\ Numbered \in SUBSET Listed /\ exit_block \in Numbered
  BY <1>1 DEF OnStack, Numbered
<1>3. Numbered = Listed
  BY <1>2, GraphFacts DEF OrderInv
<1>4. Ordered
  BY <1>1, <1>2, <1>3 DEF Ordered, OrderInv
<1>5. /\ RootId = Len(order) - 1 /\ RootId \in Nat /\ RootId' = RootId
      /\ exit_block \in Listed
      /\ \A b \in Listed : bb2int[b] \in 0 .. RootId /\ (bb2int[b] = RootId <=> b = exit_block)
  <2>1. RootId' = RootId
    BY <1>1 DEF RootId
  <2>2. QED
    BY <1>4, <2>1, NumberFacts
<1>6. /\ rdoms' \in [0 .. RootId' -> Listed' \cup {NULL}]
      /\ \A n \in 0 .. RootId : rdoms'[n] = IF n = RootId THEN exit_block ELSE NULL
  BY <1>1, <1>5 DEF RootId
<1>7. TypeOK'
  <2>1. rdoms' \in [0 .. RootId' -> Pointers] /\ at' \in -1 .. Len(order') - 1
    BY <1>1, <1>6 DEF Pointers
  <2>2. QED
    BY <1>1, <2>1 DEF TypeOK, RootId, orderVars, meetVars, walkVars, fillVars, blockVars
<1>8. NumbersInv'
  BY <1>1, <1>4, <1>6 DEF NumbersInv, Ordered, Numbered
<1>9. PhaseInv' /\ OrderInv'
  BY <1>1 DEF PhaseInv, OrderInv
<1>10. TreeWords'
  BY <1>7, <1>8, <1>9, TreeFactsNext DEF Computing
<1>11. \A b \in Listed : Tree'[b] = IF b = exit_block THEN exit_block ELSE NULL
  BY <1>1, <1>5, <1>6 DEF Tree, Irdom
<1>12. \A b \in Listed : T!Settled(Tree', b) <=> b = exit_block
  BY <1>1, <1>5, <1>11 DEF T!Settled
<1>13. TreeInv'
  <2>1. T!Ascends(Tree', bb2int)
    BY <1>11, <1>12 DEF T!Ascends
  <2>2. T!RootOnChains(Tree')
    BY <1>12, T!AncestorsLeast DEF T!RootOnChains
  <2>3. T!SettledFirst(Tree', bb2int)
    <3>1. ASSUME NEW x \in Listed PROVE ~ (bb2int[exit_block] < bb2int[x])
      BY <1>5
    <3>2. QED
      BY <1>12, <3>1 DEF T!SettledFirst
  <2>4. T!NoneSkipped(Turned, Tree') /\ T!NoneTooShort(Turned, Tree')
        /\ T!AgreesAhead(Turned, Tree', bb2int, at')
    BY <1>12 DEF T!NoneSkipped, T!NoneTooShort, T!AgreesAhead
  <2>5. T!SweepInvariant(Turned, Tree', bb2int, at')
    BY <2>1, <2>2, <2>3, <2>4 DEF T!SweepInvariant
  <2>6. T!Settled(Tree', exit_block)
    BY <1>5, <1>12
  <2>7. QED
    BY <1>1, <2>5, <2>6, TheoryKept DEF TreeInv
<1>14. StableInv' /\ VisitInv' /\ WalkInv'
  BY DEF StableInv, VisitInv, WalkInv
<1>15. FrontierSound' /\ FillInv'
  BY <1>1, TheoryKept DEF FrontierSound, FillInv, blockVars
<1>16. QED
  BY <1>7, <1>8, <1>9, <1>13, <1>14, <1>15

-----------------------------------------------------------------------------
(***************************************************************************)
(* The sweeps                                                              *)
(***************************************************************************)
(* A step that leaves the numbers and rdoms alone leaves the tree.         *)
LEMMA SameTree ==
  ASSUME IInv, Computing, Computing', UNCHANGED <<cfg, orderVars, rdoms>>
  PROVE  /\ NumbersInv' /\ OrderInv'
         /\ UNCHANGED <<cfg, exit_block, bb2int, order, RootId, Listed, Turned, Tree>>
         /\ \A b : Chain(b)' = Chain(b) /\ Irdom(b)' = Irdom(b)
         /\ TreeWords
<1>1. UNCHANGED <<cfg, exit_block, bb2int, order, RootId>> /\ Listed' = Listed
  BY DEF orderVars, RootId, Listed
<1>2. NumbersInv'
  BY <1>1 DEF IInv, NumbersInv, Ordered, Numbered
<1>3. OrderInv'
  BY DEF OrderInv, Computing
<1>4. Turned' = Turned
  BY <1>1, TheoryKept
<1>5. Tree' = Tree /\ \A b : Chain(b)' = Chain(b) /\ Irdom(b)' = Irdom(b)
  BY <1>1, TreeKept
<1>6. TreeWords
  BY TreeFacts DEF IInv
<1>7. QED
  BY <1>1, <1>2, <1>3, <1>4, <1>5, <1>6

(* ... and what a step within the sweeps leaves of the rest. *)
LEMMA SweepSteps ==
  ASSUME IInv, Computing, {pc, pc'} \subseteq {"sweep", "meet", "climb"},
         UNCHANGED <<cfg, functions, exit_block, blockVars>>
  PROVE  FrontierSound' /\ WalkInv' /\ FillInv'
<1>1. FrontierSound'
  BY TheoryKept DEF IInv, FrontierSound, blockVars
<1>2. FillInv'
  BY TheoryKept DEF IInv, FillInv, blockVars
<1>3. WalkInv'
  BY DEF WalkInv
<1>4. QED
  BY <1>1, <1>2, <1>3

(* at' is the number the sweep goes on with: the first one, or the next.   *)
LEMMA SweepOnIInv == IInv /\ (BeginSweep \/ SkipRoot) => IInv'
<1> SUFFICES ASSUME IInv, BeginSweep \/ SkipRoot PROVE IInv'
  OBVIOUS
<1>1. /\ Computing /\ Computing' /\ pc = "sweep" /\ pc' = "sweep"
      /\ UNCHANGED <<cfg, functions, orderVars, rdoms, meetVars, walkVars, fillVars, blockVars>>
  BY DEF Computing, BeginSweep, SkipRoot
<1>2. /\ NumbersInv' /\ OrderInv' /\ TreeWords
      /\ UNCHANGED <<cfg, exit_block, bb2int, order, RootId, Listed, Turned, Tree>>
  BY <1>1, SameTree
<1>3. /\ RootId \in Nat /\ RootId = Len(order) - 1
      /\ \A b \in Listed : bb2int[b] \in 0 .. RootId /\ (b # exit_block => bb2int[b] < RootId)
      /\ bb2int[exit_block] = RootId
      /\ \A n \in 0 .. RootId : BlockAt(n) \in Listed /\ bb2int[BlockAt(n)] = n
  BY <1>1, NumberFacts DEF IInv, NumbersInv, RootId
<1>4. at \in -1 .. RootId
  BY <1>3 DEF IInv, TypeOK
<1>5. at' \in -1 .. RootId /\ at' \in -1 .. Len(order') - 1
  BY <1>2, <1>3, <1>4 DEF BeginSweep, SkipRoot
<1>6. TypeOK'
  <2>1. changed' \in BOOLEAN
    BY DEF BeginSweep, SkipRoot, IInv, TypeOK
  <2>2. QED
    BY <1>1, <1>2, <1>5, <2>1
    DEF IInv, TypeOK, orderVars, meetVars, walkVars, fillVars, blockVars, RootId, Computing
<1>7. PhaseInv'
  BY <1>1, <1>2 DEF IInv, PhaseInv
<1>8. T!SweepInvariant(Turned, Tree, bb2int, at)
  BY <1>1 DEF IInv, TreeInv
<1>9. ASSUME BeginSweep PROVE TreeInv' /\ StableInv'
  <2>1. at = -1 /\ at' = RootId
    BY <1>3, <1>9 DEF BeginSweep
  <2>2. T!AgreesAhead(Turned, Tree, bb2int, at')
    <3>1. \A b \in Listed : at < bb2int[b]
      BY <1>3, <2>1
    <3>2. T!AgreesAhead(Turned, Tree, bb2int, at)
      BY <1>8 DEF T!SweepInvariant
    <3>3. QED
      BY <3>1, <3>2 DEF T!AgreesAhead
  <2>3. \A x \in Listed : ~ (at' < bb2int[x])
    BY <1>3, <2>1
  <2>4. T!Stable(Turned, Tree, bb2int, at')
    BY <2>3 DEF T!Stable
  <2>5. T!SweepInvariant(Turned, Tree, bb2int, at')
    BY <1>8, <2>2 DEF T!SweepInvariant
  <2>6. TreeInv'
    BY <1>1, <1>2, <2>3, <2>5, TheoryKept DEF IInv, TreeInv
  <2>7. StableInv'
    BY <1>2, <2>4, TheoryKept DEF StableInv
  <2>8. QED
    BY <2>6, <2>7
<1>10. ASSUME SkipRoot PROVE TreeInv' /\ StableInv'
  <2>1. at = RootId /\ at' = RootId - 1
    <3>1. at \in 0 .. RootId /\ BlockAt(at) = exit_block
      BY <1>4, <1>10 DEF SkipRoot
    <3>2. QED
      BY <1>3, <1>10, <3>1 DEF SkipRoot
  <2>2. \A b \in Listed \ {exit_block} : ~ (at' < bb2int[b]) /\ ~ (at < bb2int[b])
    BY <1>3, <2>1
  <2>3. T!AgreesAhead(Turned, Tree, bb2int, at')
    <3>1. T!AgreesAhead(Turned, Tree, bb2int, at)
      BY <1>8 DEF T!SweepInvariant
    <3>2. \A c \in Listed : \A x \in T!Ancestors(Tree, c) : bb2int[x] \in Nat
      BY <1>3, T!AncestorsLeast
    <3>3. \A c \in Listed : \A x \in T!Ancestors(Tree, c) : bb2int[x] <= at' => bb2int[x] <= at
      BY <1>3, <2>1, <3>2
    <3>4. QED
      BY <2>2, <3>1, <3>3 DEF T!AgreesAhead
  <2>4. T!Stable(Turned, Tree, bb2int, at')
    BY <2>2 DEF T!Stable
  <2>5. T!SweepInvariant(Turned, Tree, bb2int, at')
    BY <1>8, <2>3 DEF T!SweepInvariant
  <2>6. T!Settled(Tree, exit_block)
    BY <1>1 DEF IInv, TreeInv
  <2>7. TreeInv'
    BY <1>2, <2>2, <2>5, <2>6, TheoryKept DEF TreeInv
  <2>8. StableInv'
    BY <1>2, <2>4, TheoryKept DEF StableInv
  <2>9. QED
    BY <2>7, <2>8
<1>11. FrontierSound' /\ WalkInv' /\ FillInv'
  BY <1>1, <1>2, SweepSteps
<1>12. VisitInv'
  BY <1>1 DEF VisitInv
<1>13. QED
  BY <1>2, <1>6, <1>7, <1>9, <1>10, <1>11, <1>12 DEF IInv

-----------------------------------------------------------------------------
(***************************************************************************)
(* The visit of a block: intersect, successor by successor                 *)
(***************************************************************************)
(* Where the sweep is, the block has a settled successor: the one numbered *)
(* above it.                                                               *)
LEMMA SettledSuccessor ==
  ASSUME IInv, Computing, at # -1, BlockAt(at) # exit_block
  PROVE  /\ at \in 0 .. RootId - 1
         /\ BlockAt(at) \in Listed /\ bb2int[BlockAt(at)] = at
         /\ \A x \in Listed : at < bb2int[x] => T!Settled(Tree, x)
         /\ \E s \in cfg[BlockAt(at)] : T!Settled(Tree, s) /\ at < bb2int[s]
<1>1. /\ RootId = Len(order) - 1 /\ RootId \in Nat /\ BlockAt(RootId) = exit_block
      /\ \A n \in 0 .. RootId : BlockAt(n) \in Listed /\ bb2int[BlockAt(n)] = n
      /\ \A x \in Listed : bb2int[x] \in 0 .. RootId
  BY NumberFacts DEF IInv, NumbersInv
<1>2. at \in 0 .. RootId - 1 /\ BlockAt(at) \in Listed /\ bb2int[BlockAt(at)] = at
  <2>1. at \in -1 .. Len(order) - 1
    BY DEF IInv, TypeOK
  <2>2. at \in 0 .. RootId /\ at # RootId
    BY <1>1, <2>1
  <2>3. QED
    BY <1>1, <2>2
<1>3. PICK s \in cfg[BlockAt(at)] : at < bb2int[s]
  BY <1>2 DEF IInv, NumbersInv, Ordered
<1>4. \A x \in Listed : at < bb2int[x] => T!Settled(Tree, x)
  BY DEF IInv, TreeInv
<1>5. s \in Listed
  BY <1>2, GraphFacts DEF IInv
<1>6. QED
  BY <1>2, <1>3, <1>4, <1>5

(* The steps before the store leave rdoms alone. *)
LEMMA MeetSteps ==
  ASSUME IInv, Computing, {pc, pc'} \subseteq {"sweep", "meet", "climb"}, pc' # "sweep",
         at # -1, BlockAt(at) # exit_block,
         UNCHANGED <<cfg, functions, orderVars, sweepVars, walkVars, fillVars, blockVars>>,
         pending' \subseteq Listed, new_irdom' \in Listed,
         pc' = "climb" => finger1' \in Listed /\ finger2' \in Listed
  PROVE  /\ TypeOK' /\ PhaseInv' /\ OrderInv' /\ NumbersInv' /\ TreeInv' /\ StableInv'
         /\ FrontierSound' /\ WalkInv' /\ FillInv'
         /\ UNCHANGED <<Listed, Turned, Tree, BlockAt(at)>> /\ \A b : Chain(b)' = Chain(b)
<1>1. UNCHANGED <<rdoms, changed, at>> /\ Computing'
  BY DEF sweepVars, Computing
<1>2. /\ NumbersInv' /\ OrderInv' /\ TreeWords /\ \A b : Chain(b)' = Chain(b)
      /\ UNCHANGED <<cfg, exit_block, bb2int, order, RootId, Listed, Turned, Tree>>
  BY <1>1, SameTree
<1>3. BlockAt(at)' = BlockAt(at)
  BY <1>1, <1>2 DEF BlockAt
<1>4. TypeOK'
  <2>1. Listed \subseteq Blocks
    BY GraphFacts DEF IInv
  <2>2. pending' \subseteq Blocks /\ new_irdom' \in Pointers
        /\ (pc' = "climb" => {finger1', finger2'} \subseteq Blocks)
    BY <2>1 DEF Pointers
  <2>3. QED
    BY <1>1, <1>2, <2>2
    DEF IInv, TypeOK, orderVars, walkVars, fillVars, blockVars, RootId, Computing
<1>5. PhaseInv'
  BY <1>1, <1>2, <1>3 DEF IInv, PhaseInv
<1>6. TreeInv' /\ StableInv'
  BY <1>1, <1>2, TheoryKept DEF IInv, TreeInv, StableInv
<1>7. FrontierSound' /\ WalkInv' /\ FillInv'
  BY <1>2, SweepSteps
<1>8. QED
  BY <1>2, <1>3, <1>4, <1>5, <1>6, <1>7

(* A settled successor is a safe start for new_irdom. *)
LEMMA BeginMeetIInv == IInv /\ BeginMeet => IInv'
<1> SUFFICES ASSUME IInv, BeginMeet PROVE IInv'
  OBVIOUS
<1> DEFINE c == BlockAt(at)
<1>1. /\ Computing /\ pc = "sweep" /\ pc' = "meet" /\ at # -1 /\ c # exit_block
      /\ UNCHANGED <<cfg, functions, orderVars, sweepVars, walkVars, fillVars, blockVars>>
  BY DEF Computing, BeginMeet
<1>2. TreeWords
  BY <1>1, TreeFacts DEF IInv
<1>3. c \in Listed /\ \E s \in cfg[c] : T!Settled(Tree, s)
  BY <1>1, SettledSuccessor
<1>4. cfg[c] \subseteq Listed /\ \A s \in Listed : T!Settled(Tree, s) <=> Processed(s)
  BY <1>2, <1>3 DEF TreeWords
<1>5. pending' = {s \in cfg[c] : T!Settled(Tree, s)} /\ new_irdom' \in pending'
  BY <1>3, <1>4 DEF BeginMeet
<1>6. T!NotTooHigh(Turned, Tree, c, new_irdom')
  BY <1>2, <1>3, <1>5, T!PredecessorNotTooHigh DEF TreeWords
<1>7. /\ TypeOK' /\ PhaseInv' /\ OrderInv' /\ NumbersInv' /\ TreeInv' /\ StableInv'
      /\ FrontierSound' /\ WalkInv' /\ FillInv'
      /\ UNCHANGED <<Listed, Turned, Tree, c>> /\ \A b : Chain(b)' = Chain(b)
  BY <1>1, <1>4, <1>5, MeetSteps
<1>8. UNCHANGED <<cfg, exit_block>>
  BY <1>1 DEF orderVars
<1>9. VisitInv'
  BY <1>1, <1>5, <1>6, <1>7, <1>8, TheoryKept DEF VisitInv
<1>10. QED
  BY <1>7, <1>9 DEF IInv

(* So is a successor for finger1, and new_irdom itself for finger2. *)
LEMMA BeginIntersectIInv == ASSUME NEW s \in Blocks PROVE IInv /\ BeginIntersect(s) => IInv'
<1> SUFFICES ASSUME IInv, BeginIntersect(s) PROVE IInv'
  OBVIOUS
<1> DEFINE c == BlockAt(at)
<1>1. /\ Computing /\ pc = "meet" /\ pc' = "climb" /\ at # -1 /\ c # exit_block
      /\ pending' = pending \ {s} /\ s \in pending /\ finger1' = s /\ finger2' = new_irdom
      /\ UNCHANGED <<cfg, functions, orderVars, sweepVars, walkVars, fillVars, blockVars>>
      /\ new_irdom' = new_irdom
  BY DEF Computing, BeginIntersect, IInv, PhaseInv
<1>2. TreeWords
  BY <1>1, TreeFacts DEF IInv
<1>3. /\ pending \subseteq cfg[c] /\ \A t \in pending : T!Settled(Tree, t)
      /\ T!NotTooHigh(Turned, Tree, c, new_irdom)
      /\ \A t \in cfg[c] : T!Settled(Tree, t) => t \in pending \/ new_irdom \in Chain(t)
  BY <1>1 DEF IInv, VisitInv
<1>4. c \in Listed /\ cfg[c] \subseteq Listed
  BY <1>1, <1>2, SettledSuccessor DEF TreeWords
<1>5. s \in Listed /\ new_irdom \in Listed /\ pending' \subseteq Listed
  BY <1>1, <1>3, <1>4 DEF T!NotTooHigh
<1>6. T!NotTooHigh(Turned, Tree, c, s)
  BY <1>1, <1>2, <1>3, <1>4, T!PredecessorNotTooHigh DEF TreeWords
<1>7. s \in Chain(s) /\ new_irdom \in Chain(new_irdom)
  BY <1>5, T!AncestorsLeast DEF Chain
<1>8. /\ TypeOK' /\ PhaseInv' /\ OrderInv' /\ NumbersInv' /\ TreeInv' /\ StableInv'
      /\ FrontierSound' /\ WalkInv' /\ FillInv'
      /\ UNCHANGED <<Listed, Turned, Tree, c>> /\ \A b : Chain(b)' = Chain(b)
  BY <1>1, <1>5, MeetSteps
<1>9. UNCHANGED <<cfg, exit_block>>
  BY <1>1 DEF orderVars
<1>10. VisitInv'
  BY <1>1, <1>3, <1>6, <1>7, <1>8, <1>9, TheoryKept DEF VisitInv
<1>11. QED
  BY <1>8, <1>10 DEF IInv

(* What is known of the fingers before each step of intersect. *)
FingerFacts(c) ==
  /\ Computing /\ TreeWords /\ at # -1 /\ c # exit_block
  /\ c \in Listed /\ cfg[c] \subseteq Listed
  /\ T!SweepInvariant(Turned, Tree, bb2int, at)
  /\ finger1 \in Listed /\ finger2 \in Listed /\ new_irdom \in Listed
  /\ T!NotTooHigh(Turned, Tree, c, finger1) /\ T!NotTooHigh(Turned, Tree, c, finger2)
  /\ finger2 \in Chain(new_irdom)
  /\ pending \subseteq cfg[c] /\ \A t \in pending : T!Settled(Tree, t)
  /\ \A t \in cfg[c] : T!Settled(Tree, t) => \/ t \in pending
                                             \/ new_irdom \in Chain(t)
                                             \/ finger1 \in Chain(t)

(* Neither finger of intersect is above every common postdominator. *)
LEMMA FingersHold == IInv /\ pc = "climb" => FingerFacts(BlockAt(at))
<1> SUFFICES ASSUME IInv, pc = "climb" PROVE FingerFacts(BlockAt(at))
  OBVIOUS
<1>1. Computing /\ TreeWords /\ at # -1 /\ BlockAt(at) # exit_block
  BY TreeFacts DEF Computing, IInv, PhaseInv
<1>2. BlockAt(at) \in Listed /\ cfg[BlockAt(at)] \subseteq Listed
  BY <1>1, SettledSuccessor DEF TreeWords
<1>3. /\ T!NotTooHigh(Turned, Tree, BlockAt(at), finger1)
      /\ T!NotTooHigh(Turned, Tree, BlockAt(at), finger2)
      /\ T!NotTooHigh(Turned, Tree, BlockAt(at), new_irdom)
  BY DEF IInv, VisitInv
<1>4. finger1 \in Listed /\ finger2 \in Listed /\ new_irdom \in Listed
  BY <1>3 DEF T!NotTooHigh
<1>5. QED
  BY <1>1, <1>2, <1>3, <1>4 DEF FingerFacts, IInv, VisitInv, TreeInv

(* Both fingers keep to the chains they started on, and stop short of what *)
(* the successors have in common.                                          *)
LEMMA ClimbIInv == IInv /\ Climb => IInv'
<1> SUFFICES ASSUME IInv, Climb PROVE IInv'
  OBVIOUS
<1> DEFINE c == BlockAt(at)
<1>1. /\ pc = "climb" /\ pc' = "climb"
      /\ UNCHANGED <<pending, new_irdom>> /\ UNCHANGED <<cfg, exit_block>>
      /\ UNCHANGED <<cfg, functions, orderVars, sweepVars, walkVars, fillVars, blockVars>>
      /\ \/ bb2int[finger1] < bb2int[finger2] /\ finger1' = Irdom(finger1) /\ finger2' = finger2
         \/ bb2int[finger2] < bb2int[finger1] /\ finger2' = Irdom(finger2) /\ finger1' = finger1
  BY DEF Climb, orderVars
<1>2. FingerFacts(c)
  BY <1>1, FingersHold
<1>3. /\ Tree[finger1] = Irdom(finger1) /\ T!Settled(Tree, finger1)
      /\ Tree[finger2] = Irdom(finger2) /\ T!Settled(Tree, finger2)
  BY <1>2 DEF FingerFacts, TreeWords, T!NotTooHigh
<1>4. T!NotTooHigh(Turned, Tree, c, finger1') /\ T!NotTooHigh(Turned, Tree, c, finger2')
  BY <1>1, <1>2, <1>3, T!ClimbNotTooHigh DEF FingerFacts, TreeWords
<1>5. finger1' \in Listed /\ finger2' \in Listed
  BY <1>4 DEF T!NotTooHigh
<1>6. ASSUME NEW t \in Listed
      PROVE  /\ finger1 \in Chain(t) => finger1' \in Chain(t)
             /\ finger2 \in Chain(t) => finger2' \in Chain(t)
  BY <1>1, <1>3, T!AncestorsLeast DEF Chain
<1>7. /\ TypeOK' /\ PhaseInv' /\ OrderInv' /\ NumbersInv' /\ TreeInv' /\ StableInv'
      /\ FrontierSound' /\ WalkInv' /\ FillInv'
      /\ UNCHANGED <<Listed, Turned, Tree, c>> /\ \A b : Chain(b)' = Chain(b)
  BY <1>1, <1>2, <1>5, MeetSteps DEF FingerFacts
<1>8. /\ finger2' \in Chain(new_irdom)
      /\ \A t \in cfg[c] : T!Settled(Tree, t) => \/ t \in pending
                                                 \/ new_irdom \in Chain(t)
                                                 \/ finger1' \in Chain(t)
  BY <1>2, <1>6 DEF FingerFacts
<1>9. T!NotTooHigh(Turned, Tree, c, new_irdom)
  BY <1>1 DEF IInv, VisitInv
<1>10. VisitInv'
  BY <1>1, <1>2, <1>4, <1>7, <1>8, <1>9, TheoryKept DEF VisitInv, FingerFacts
<1>11. QED
  BY <1>7, <1>10 DEF IInv

(* Where the fingers meet is on the chains of both. *)
LEMMA EndIntersectIInv == IInv /\ EndIntersect => IInv'
<1> SUFFICES ASSUME IInv, EndIntersect PROVE IInv'
  OBVIOUS
<1> DEFINE c == BlockAt(at)
<1>1. /\ pc = "climb" /\ pc' = "meet" /\ finger1 = finger2
      /\ pending' = pending /\ new_irdom' = finger1 /\ UNCHANGED <<cfg, exit_block>>
      /\ UNCHANGED <<cfg, functions, orderVars, sweepVars, walkVars, fillVars, blockVars>>
  BY DEF EndIntersect, orderVars
<1>2. FingerFacts(c)
  BY <1>1, FingersHold
<1>3. /\ TypeOK' /\ PhaseInv' /\ OrderInv' /\ NumbersInv' /\ TreeInv' /\ StableInv'
      /\ FrontierSound' /\ WalkInv' /\ FillInv'
      /\ UNCHANGED <<Listed, Turned, Tree, c>> /\ \A b : Chain(b)' = Chain(b)
  BY <1>1, <1>2, MeetSteps DEF FingerFacts
<1>4. ASSUME NEW t \in Listed, new_irdom \in Chain(t)
      PROVE  finger1 \in Chain(t)
  BY <1>1, <1>2, <1>4, T!AncestorsTransitive DEF FingerFacts, Chain
<1>5. \A t \in cfg[c] : T!Settled(Tree, t) => t \in pending \/ finger1 \in Chain(t)
  BY <1>2, <1>4 DEF FingerFacts
<1>6. VisitInv'
  BY <1>1, <1>2, <1>3, <1>5, TheoryKept DEF VisitInv, FingerFacts
<1>7. QED
  BY <1>3, <1>6 DEF IInv

(* When no successor is pending, new_irdom is on the chains of all: the    *)
(* store is the visit the theory speaks of.                                *)
LEMMA StoreIsVisit ==
  IInv /\ StoreIrdom =>
    /\ T!Visit(Turned, Tree, Tree', bb2int, at, BlockAt(at), new_irdom)
    /\ rdoms' \in [0 .. RootId -> Listed \cup {NULL}]
    /\ at \in 0 .. RootId - 1
    /\ ~ changed' => ~ changed /\ Tree' = Tree /\ Tree[BlockAt(at)] = new_irdom
<1> SUFFICES ASSUME IInv, StoreIrdom
             PROVE  /\ T!Visit(Turned, Tree, Tree', bb2int, at, BlockAt(at), new_irdom)
                    /\ rdoms' \in [0 .. RootId -> Listed \cup {NULL}]
                    /\ at \in 0 .. RootId - 1
                    /\ ~ changed' => /\ ~ changed
                                     /\ Tree' = Tree /\ Tree[BlockAt(at)] = new_irdom
  OBVIOUS
<1> DEFINE c == BlockAt(at)
<1>1. /\ Computing /\ TreeWords /\ pc = "meet" /\ pending = {} /\ at # -1 /\ c # exit_block
      /\ UNCHANGED <<cfg, exit_block, bb2int>>
  BY TreeFacts DEF Computing, StoreIrdom, IInv, PhaseInv, orderVars
<1>2. /\ c \in Listed \ {exit_block} /\ bb2int[c] = at /\ at \in 0 .. RootId - 1
      /\ RootId \in Nat /\ at \in 0 .. RootId
      /\ \A x \in Listed : bb2int[x] \in 0 .. RootId
      /\ \A x \in Listed : at < bb2int[x] => T!Settled(Tree, x)
  BY <1>1, SettledSuccessor, NumberFacts DEF IInv, NumbersInv
<1>3. T!NotTooHigh(Turned, Tree, c, new_irdom) /\ new_irdom \in Listed
  BY <1>1 DEF IInv, VisitInv, T!NotTooHigh
<1>4. \A s \in T!Preds(Turned, c) : T!Settled(Tree, s) => new_irdom \in T!Ancestors(Tree, s)
  BY <1>1, <1>2 DEF IInv, VisitInv, TreeWords, Chain
<1>5. rdoms \in [0 .. RootId -> Listed \cup {NULL}] /\ Listed' = Listed
  BY <1>1 DEF IInv, NumbersInv, Listed
<1>6. rdoms' = [rdoms EXCEPT ![at] = new_irdom]
  BY <1>2 DEF StoreIrdom
<1>7. /\ rdoms' \in [0 .. RootId -> Listed \cup {NULL}]
      /\ rdoms'[at] = new_irdom
      /\ \A n \in 0 .. RootId : n # at => rdoms'[n] = rdoms[n]
  BY <1>2, <1>3, <1>5, <1>6
<1>8. \A x \in Listed \ {c} : bb2int[x] # at
  BY <1>1, <1>2 DEF TreeWords, T!Numbered, T!Numbering
<1>9. Tree'[c] = new_irdom /\ \A x \in Listed \ {c} : Tree'[x] = Tree[x]
  BY <1>1, <1>2, <1>5, <1>7, <1>8 DEF Tree, Irdom
<1>10. ASSUME ~ changed'
       PROVE  ~ changed /\ Tree' = Tree /\ Tree[c] = new_irdom
  <2>1. ~ changed /\ Irdom(c) = new_irdom
    BY <1>10 DEF StoreIrdom
  <2>2. Tree[c] = new_irdom
    BY <1>2, <2>1 DEF Tree
  <2>3. \A x \in Listed : Tree'[x] = Tree[x]
    BY <1>9, <2>2
  <2>4. Tree' = Tree
    BY <1>5, <2>3 DEF Tree
  <2>5. QED
    BY <2>1, <2>2, <2>4
<1>11. QED
  BY <1>2, <1>3, <1>4, <1>7, <1>9, <1>10 DEF T!Visit

(* The store keeps the tree in order, and a block that had nothing to      *)
(* change is stable.                                                       *)
LEMMA StoreIrdomIInv == IInv /\ StoreIrdom => IInv'
<1> SUFFICES ASSUME IInv, StoreIrdom PROVE IInv'
  OBVIOUS
<1> DEFINE c == BlockAt(at)
<1>1. /\ Computing /\ TreeWords /\ pc = "meet" /\ pc' = "sweep" /\ at' = at - 1
      /\ UNCHANGED <<cfg, exit_block, bb2int, order, RootId, Listed>>
      /\ UNCHANGED <<cfg, functions, orderVars, meetVars, walkVars, fillVars, blockVars>>
  BY TreeFacts DEF Computing, StoreIrdom, IInv, orderVars, RootId, Listed
<1>2. /\ T!Visit(Turned, Tree, Tree', bb2int, at, c, new_irdom)
      /\ rdoms' \in [0 .. RootId -> Listed \cup {NULL}]
      /\ at \in 0 .. RootId - 1
      /\ ~ changed' => ~ changed /\ Tree' = Tree /\ Tree[c] = new_irdom
  BY StoreIsVisit
<1>3. T!Numbered(Turned, bb2int) /\ T!SweepInvariant(Turned, Tree, bb2int, at)
  BY <1>1 DEF TreeWords, IInv, TreeInv
<1>4. T!SweepInvariant(Turned, Tree', bb2int, at - 1)
  BY <1>2, <1>3, T!VisitKeepsInvariant
<1>5. \A x \in Listed : T!Settled(Tree', x) <=> x = c \/ T!Settled(Tree, x)
  BY <1>2, <1>3, T!VisitUpdates
<1>6. ASSUME NEW x \in Listed, at - 1 < bb2int[x] PROVE x = c \/ at < bb2int[x]
  <2>1. bb2int[x] \in Nat /\ c \in Listed /\ bb2int[c] = at /\ (bb2int[x] = bb2int[c] => x = c)
    BY <1>2, <1>3 DEF T!Numbered, T!Numbering, T!Visit
  <2>2. QED
    BY <1>2, <1>6, <2>1
<1>7. TreeInv'
  <2>1. T!Settled(Tree', exit_block)
    BY <1>1, <1>5 DEF IInv, TreeInv, TreeWords
  <2>2. \A x \in Listed : at < bb2int[x] => T!Settled(Tree, x)
    BY <1>2 DEF T!Visit
  <2>3. \A x \in Listed : at - 1 < bb2int[x] => T!Settled(Tree', x)
    BY <1>5, <1>6, <2>2
  <2>4. Turned' = Turned
    BY <1>1, TheoryKept
  <2>5. QED
    BY <1>1, <1>4, <2>1, <2>3, <2>4, TheoryKept DEF TreeInv
<1>8. StableInv'
  <2> SUFFICES ASSUME ~ changed' PROVE T!Stable(Turned, Tree', bb2int, at - 1)
    BY <1>1, TheoryKept DEF StableInv
  <2>1. ~ changed /\ Tree' = Tree /\ Tree[c] = new_irdom
    BY <1>2
  <2>2. T!Stable(Turned, Tree, bb2int, at)
    BY <1>1, <2>1 DEF IInv, StableInv
  <2>3. \A s \in T!Preds(Turned, c) : T!Settled(Tree, s) => new_irdom \in T!Ancestors(Tree, s)
    BY <1>2 DEF T!Visit
  <2>4. QED
    BY <1>6, <2>1, <2>2, <2>3 DEF T!Stable
<1>9. NumbersInv'
  BY <1>1, <1>2 DEF IInv, NumbersInv, Ordered, Numbered
<1>10. TypeOK'
  <2>1. RootId = Len(order) - 1 /\ RootId \in Nat
    BY <1>1, NumberFacts DEF IInv, NumbersInv
  <2>2. at' \in -1 .. Len(order') - 1
    BY <1>1, <1>2, <2>1
  <2>3. rdoms' \in [0 .. bb2int'[exit_block'] -> Pointers] /\ changed' \in BOOLEAN
    <3>1. rdoms \in [0 .. RootId -> Pointers] /\ new_irdom \in Pointers /\ changed \in BOOLEAN
      BY <1>1 DEF IInv, TypeOK, RootId
    <3>2. rdoms' \in [0 .. RootId -> Pointers]
      BY <3>1 DEF StoreIrdom
    <3>3. QED
      BY <1>1, <3>1, <3>2 DEF StoreIrdom, RootId
  <2>4. QED
    BY <1>1, <2>2, <2>3 DEF IInv, TypeOK, orderVars, meetVars, walkVars, fillVars, blockVars
<1>11. PhaseInv' /\ OrderInv' /\ VisitInv'
  BY <1>1 DEF IInv, PhaseInv, OrderInv, VisitInv
<1>12. FrontierSound' /\ WalkInv' /\ FillInv'
  BY <1>1, SweepSteps
<1>13. QED
  BY <1>7, <1>8, <1>9, <1>10, <1>11, <1>12 DEF IInv

-----------------------------------------------------------------------------
(***************************************************************************)
(* The walks of get_bb_rdom_front, over the final postdominators           *)
(***************************************************************************)
Reporting == pc \in {"front", "walk", "fill", "done"}

(* No walk starts before the iteration has reached the fixpoint. *)
LEMMA SettledFacts ==
  ASSUME IInv, Reporting \/ (pc = "sweep" /\ at = -1 /\ ~ changed)
  PROVE  T!Finished(Turned, Tree, bb2int) /\ TreeWords /\ at = -1 /\ ~ changed /\ Computing
<1>1. Computing /\ at = -1 /\ ~ changed
  BY DEF Reporting, Computing, IInv, PhaseInv
<1>2. TreeWords /\ T!SweepInvariant(Turned, Tree, bb2int, at) /\ T!Stable(Turned, Tree, bb2int, at)
  BY <1>1, TreeFacts DEF IInv, TreeInv, StableInv
<1>3. \A b \in Listed : bb2int[b] \in Nat
  BY <1>2 DEF TreeWords, T!Numbered, T!Numbering
<1>4. \A b \in Listed : T!Settled(Tree, b)
  BY <1>1, <1>3 DEF IInv, TreeInv
<1>5. QED
  BY <1>1, <1>2, <1>4 DEF T!Finished, TreeWords

(* The walks and the fillings leave the tree alone. *)
LEMMA ReportSteps ==
  ASSUME IInv, Reporting', Reporting \/ (pc = "sweep" /\ at = -1 /\ ~ changed),
         UNCHANGED <<cfg, functions, orderVars, rdoms>>,
         changed' = changed \/ changed' = FALSE, at' = at \/ at' = -1
  PROVE  /\ PhaseInv' /\ OrderInv' /\ NumbersInv' /\ TreeInv' /\ StableInv' /\ VisitInv'
         /\ UNCHANGED <<cfg, exit_block, bb2int, order, RootId, Listed, Turned, Tree>>
         /\ \A b : Chain(b)' = Chain(b) /\ Irdom(b)' = Irdom(b)
         /\ at' = -1 /\ changed' = FALSE
<1>1. Computing /\ Computing' /\ at = -1 /\ at' = -1 /\ ~ changed /\ ~ changed'
  BY SettledFacts DEF Reporting, Computing
<1>2. /\ NumbersInv' /\ OrderInv' /\ TreeWords
      /\ UNCHANGED <<cfg, exit_block, bb2int, order, RootId, Listed, Turned, Tree>>
      /\ \A b : Chain(b)' = Chain(b) /\ Irdom(b)' = Irdom(b)
  BY <1>1, SameTree
<1>3. PhaseInv' /\ VisitInv'
  BY <1>1, <1>2 DEF IInv, PhaseInv, VisitInv, Reporting, Computing
<1>4. TreeInv' /\ StableInv'
  BY <1>1, <1>2, TheoryKept DEF IInv, TreeInv, StableInv
<1>5. changed \in BOOLEAN
  BY DEF IInv, TypeOK
<1>6. QED
  BY <1>1, <1>2, <1>3, <1>4, <1>5

(* At first every edge out of a branching block is still to be walked. *)
LEMMA BeginFrontiersIInv == IInv /\ BeginFrontiers => IInv'
<1> SUFFICES ASSUME IInv, BeginFrontiers PROVE IInv'
  OBVIOUS
<1>1. /\ pc = "sweep" /\ at = -1 /\ ~ changed /\ pc' = "front" /\ Reporting'
      /\ UNCHANGED <<cfg, functions, orderVars, sweepVars, meetVars, branch, runner, fillVars, blockVars>>
      /\ UNCHANGED <<rdoms, changed, at>>
  BY DEF BeginFrontiers, Reporting, sweepVars
<1>2. /\ PhaseInv' /\ OrderInv' /\ NumbersInv' /\ TreeInv' /\ StableInv' /\ VisitInv'
      /\ UNCHANGED <<cfg, exit_block, bb2int, order, RootId, Listed, Turned, Tree>>
      /\ \A b : Chain(b)' = Chain(b) /\ Irdom(b)' = Irdom(b)
  BY <1>1, ReportSteps
<1>3. /\ Listed \subseteq Blocks /\ cfg \in [Listed -> SUBSET Listed]
      /\ \A b \in Listed : IsFiniteSet(cfg[b])
  BY GraphFacts DEF IInv
<1>4. TypeOK'
  <2>1. edges' \subseteq Blocks \X Blocks
    BY <1>3 DEF BeginFrontiers
  <2>2. QED
    BY <1>1, <1>2, <2>1 DEF IInv, TypeOK, orderVars, meetVars, fillVars, blockVars, RootId
<1>5. ASSUME NEW b \in Listed, NEW s \in cfg[b], NEW t \in cfg[b], s # t
      PROVE  <<b, s>> \in edges'
  <2>1. Cardinality(cfg[b]) >= 2
    BY <1>3, <1>5, TwoSuccessors
  <2>2. s \in Listed
    BY <1>3
  <2>3. QED
    BY <2>1, <2>2 DEF BeginFrontiers
<1>6. WalkInv'
  <2>1. \A e \in edges' : e[1] \in Listed' /\ e[2] \in cfg'[e[1]]
    BY <1>2 DEF BeginFrontiers
  <2>2. QED
    BY <1>1, <1>2, <1>5, <2>1 DEF WalkInv
<1>7. FrontierSound' /\ FillInv'
  BY <1>1, <1>2, TheoryKept DEF IInv, FrontierSound, FillInv, blockVars
<1>8. QED
  BY <1>2, <1>4, <1>6, <1>7 DEF IInv

(* The postdominator of the branching block is on the chain of each        *)
(* successor, so the runner is going to meet it.                           *)
LEMMA BeginWalkIInv == ASSUME NEW e \in Blocks \X Blocks PROVE IInv /\ BeginWalk(e) => IInv'
<1> SUFFICES ASSUME IInv, BeginWalk(e) PROVE IInv'
  OBVIOUS
<1>1. /\ pc = "front" /\ pc' = "walk" /\ Reporting /\ Reporting' /\ e \in edges
      /\ branch' = e[1] /\ runner' = e[2] /\ edges' = edges \ {e}
      /\ UNCHANGED <<cfg, functions, orderVars, sweepVars, meetVars, fillVars, blockVars>>
      /\ UNCHANGED <<rdoms, changed, at, rdom_frontier>>
  BY DEF BeginWalk, Reporting, sweepVars, blockVars
<1>2. /\ PhaseInv' /\ OrderInv' /\ NumbersInv' /\ TreeInv' /\ StableInv' /\ VisitInv'
      /\ UNCHANGED <<cfg, exit_block, bb2int, order, RootId, Listed, Turned, Tree>>
      /\ \A b : Chain(b)' = Chain(b) /\ Irdom(b)' = Irdom(b)
  BY <1>1, ReportSteps
<1>3. T!Finished(Turned, Tree, bb2int) /\ TreeWords
  BY <1>1, SettledFacts
<1>4. /\ branch' \in Listed /\ runner' \in cfg[branch'] /\ runner' \in Listed
      /\ branch' # exit_block
  <2>1. e[1] \in Listed /\ e[2] \in cfg[e[1]]
    BY <1>1 DEF IInv, WalkInv
  <2>2. cfg[exit_block] = {}
    BY <1>1, GraphFacts DEF IInv
  <2>3. QED
    BY <1>1, <1>3, <2>1, <2>2 DEF TreeWords
<1>5. Irdom(branch') \in Chain(runner') /\ runner' \in Chain(runner')
  <2>1. runner' \in T!Preds(Turned, branch') /\ Tree[branch'] = Irdom(branch')
    BY <1>3, <1>4 DEF TreeWords
  <2>2. QED
    BY <1>3, <1>4, <2>1, T!FinishedStable, T!AncestorsLeast DEF Chain
<1>6. TypeOK'
  <2>1. Listed \subseteq Blocks /\ edges' \subseteq Blocks \X Blocks
    BY <1>1, GraphFacts DEF IInv, TypeOK
  <2>2. QED
    BY <1>1, <1>2, <1>4, <2>1 DEF IInv, TypeOK, orderVars, meetVars, fillVars, blockVars, RootId
<1>7. ASSUME NEW b \in Listed, NEW s \in cfg[b], NEW t \in cfg[b], s # t
      PROVE  \/ <<b, s>> \in edges'
             \/ Walked(b, s, Irdom(b))
             \/ branch' = b /\ Walked(b, s, runner')
  <2>1. CASE e = <<b, s>>
    BY <1>1, <2>1 DEF Walked
  <2>2. CASE e # <<b, s>>
    BY <1>1, <1>7, <2>2 DEF IInv, WalkInv
  <2>3. QED
    BY <2>1, <2>2
<1>8. WalkInv'
  <2>1. \A x \in edges' : x[1] \in Listed /\ x[2] \in cfg[x[1]]
    BY <1>1 DEF IInv, WalkInv
  <2>2. \A b, s, top : Walked(b, s, top)' <=> Walked(b, s, top)
    BY <1>1, <1>2 DEF Walked
  <2>3. Irdom(branch)' = Irdom(branch') /\ Chain(runner)' = Chain(runner')
    BY <1>2
  <2>4. \A b \in Listed' : \A s, t \in cfg'[b] :
          s # t => \/ <<b, s>> \in edges'
                   \/ Walked(b, s, Irdom(b))'
                   \/ branch' = b /\ Walked(b, s, runner)'
    BY <1>1, <1>2, <1>7 DEF Walked
  <2>5. QED
    BY <1>1, <1>2, <1>4, <1>5, <2>1, <2>3, <2>4 DEF WalkInv
<1>9. FrontierSound' /\ FillInv'
  BY <1>1, <1>2, TheoryKept DEF IInv, FrontierSound, FillInv, blockVars
<1>10. QED
  BY <1>2, <1>6, <1>8, <1>9 DEF IInv

(* The runner is below the postdominator of the branching block, on the    *)
(* chain of a successor: the branching block is in its frontier.           *)
LEMMA AddFrontierIInv == IInv /\ AddFrontier => IInv'
<1> SUFFICES ASSUME IInv, AddFrontier PROVE IInv'
  OBVIOUS
<1>1. /\ pc = "walk" /\ pc' = "walk" /\ Reporting /\ Reporting' /\ runner # Irdom(branch)
      /\ runner' = Irdom(runner) /\ UNCHANGED <<edges, branch, rdom>>
      /\ UNCHANGED <<cfg, functions, orderVars, sweepVars, meetVars, edges, branch, fillVars, rdom>>
      /\ UNCHANGED <<rdoms, changed, at>>
  BY DEF AddFrontier, Reporting, sweepVars
<1>2. /\ PhaseInv' /\ OrderInv' /\ NumbersInv' /\ TreeInv' /\ StableInv' /\ VisitInv'
      /\ UNCHANGED <<cfg, exit_block, bb2int, order, RootId, Listed, Turned, Tree>>
      /\ \A b : Chain(b)' = Chain(b) /\ Irdom(b)' = Irdom(b)
  BY <1>1, ReportSteps
<1>3. T!Finished(Turned, Tree, bb2int) /\ TreeWords
  BY <1>1, SettledFacts
<1>4. /\ branch \in Listed /\ runner \in Listed
      /\ Tree[branch] = Irdom(branch) /\ Tree[runner] = Irdom(runner)
      /\ Irdom(branch) \in Listed /\ Irdom(runner) \in Listed /\ T!Settled(Tree, runner)
  BY <1>1, <1>3 DEF IInv, WalkInv, TreeWords, T!Finished, T!Settled
<1>5. PICK s \in cfg[branch] : runner \in Chain(s)
  BY <1>1 DEF IInv, WalkInv
<1>6. s \in Listed /\ s \in T!Preds(Turned, branch)
  BY <1>3, <1>4, <1>5 DEF TreeWords
<1>7. Irdom(branch) \in Chain(runner) /\ Chain(runner) = {runner} \cup Chain(runner')
  BY <1>1, <1>4, T!AncestorsStep DEF IInv, WalkInv, Chain
<1>8. runner \notin Chain(Irdom(branch))
  <2>1. T!Numbering(bb2int) /\ T!Ascends(Tree, bb2int)
    BY <1>3 DEF T!Finished, T!Numbered, T!SweepInvariant
  <2>2. bb2int[runner] < bb2int[Irdom(branch)]
    BY <1>1, <1>4, <1>7, <2>1, T!AncestorsAbove DEF Chain
  <2>3. bb2int[runner] \in Nat /\ bb2int[Irdom(branch)] \in Nat
    BY <1>4, <2>1 DEF T!Numbering
  <2>4. QED
    BY <1>4, <2>1, <2>2, <2>3, T!AncestorsAbove DEF Chain
<1>9. branch \in T!DominanceFrontier(Turned, runner)
  BY <1>3, <1>4, <1>5, <1>6, <1>8, T!FrontierByWalks DEF Chain
<1>10. /\ rdom_frontier' \in [Listed -> SUBSET Listed]
       /\ \A x \in Listed : rdom_frontier[x] \subseteq rdom_frontier'[x]
       /\ \A x \in Listed \ {runner} : rdom_frontier'[x] = rdom_frontier[x]
       /\ rdom_frontier'[runner] = rdom_frontier[runner] \cup {branch}
  BY <1>4 DEF AddFrontier, IInv, TypeOK
<1>11. TypeOK'
  <2>1. Listed \subseteq Blocks
    BY GraphFacts DEF IInv
  <2>2. QED
    BY <1>1, <1>2, <1>4, <1>10, <2>1 DEF IInv, TypeOK, orderVars, meetVars, fillVars, RootId
<1>12. FrontierSound'
  <2>1. pc # "start"
    BY <1>1
  <2>2. \A b \in Listed : rdom_frontier'[b] \subseteq T!DominanceFrontier(Turned, b)
    BY <1>9, <1>10, <2>1 DEF IInv, FrontierSound
  <2>3. QED
    BY <1>2, <2>2, TheoryKept DEF FrontierSound
<1> DEFINE Now(b, q, top) == \A x \in Chain(q) : x \notin Chain(top) => b \in rdom_frontier'[x]
<1>13. ASSUME NEW b, NEW q \in Listed, NEW top, Walked(b, q, top)
       PROVE  Now(b, q, top)
  <2>1. Chain(q) \subseteq Listed
    BY T!AncestorsLeast DEF Chain
  <2>2. QED
    BY <1>10, <1>13, <2>1 DEF Walked
<1>14. ASSUME NEW q \in Listed, Walked(branch, q, runner)
       PROVE  Now(branch, q, runner')
  <2>1. Chain(q) \subseteq Listed
    BY T!AncestorsLeast DEF Chain
  <2>2. QED
    BY <1>7, <1>10, <1>14, <2>1 DEF Walked
<1>15. ASSUME NEW b \in Listed, NEW q \in cfg[b], NEW r \in cfg[b], q # r
       PROVE  \/ <<b, q>> \in edges
              \/ Now(b, q, Irdom(b))
              \/ branch = b /\ Now(b, q, runner')
  <2>1. q \in Listed
    BY <1>3 DEF TreeWords
  <2>2. \/ <<b, q>> \in edges
        \/ Walked(b, q, Irdom(b))
        \/ branch = b /\ Walked(b, q, runner)
    BY <1>1, <1>15 DEF IInv, WalkInv
  <2>3. QED
    BY <1>13, <1>14, <2>1, <2>2
<1>16. Irdom(branch) \in Chain(runner') /\ runner' \in Chain(s)
  BY <1>1, <1>4, <1>5, <1>6, <1>7, T!AncestorsLeast DEF Chain
<1>17. WalkInv'
  <2>1. \A e \in edges' : e[1] \in Listed /\ e[2] \in cfg[e[1]]
    BY <1>1 DEF IInv, WalkInv
  <2>2. Irdom(branch)' = Irdom(branch) /\ Chain(runner)' = Chain(runner')
    BY <1>1, <1>2
  <2>3. \A b \in Listed' : \A q, r \in cfg'[b] :
          q # r => \/ <<b, q>> \in edges'
                   \/ Walked(b, q, Irdom(b))'
                   \/ branch' = b /\ Walked(b, q, runner)'
    BY <1>1, <1>2, <1>15 DEF Walked
  <2>4. QED
    BY <1>1, <1>2, <1>4, <1>5, <1>16, <2>1, <2>2, <2>3 DEF WalkInv
<1>18. FillInv'
  BY <1>1, <1>2 DEF IInv, FillInv
<1>19. QED
  BY <1>2, <1>11, <1>12, <1>17, <1>18 DEF IInv

(* The walk has come to the postdominator of the branching block: all is   *)
(* said for this edge.                                                     *)
LEMMA EndWalkIInv == IInv /\ EndWalk => IInv'
<1> SUFFICES ASSUME IInv, EndWalk PROVE IInv'
  OBVIOUS
<1>1. /\ pc = "walk" /\ pc' = "front" /\ Reporting /\ Reporting' /\ runner = Irdom(branch)
      /\ UNCHANGED <<cfg, functions, orderVars, sweepVars, meetVars, walkVars, fillVars, blockVars>>
      /\ UNCHANGED <<rdoms, changed, at, edges, branch, runner, rdom_frontier>>
  BY DEF EndWalk, Reporting, sweepVars, walkVars, blockVars
<1>2. /\ PhaseInv' /\ OrderInv' /\ NumbersInv' /\ TreeInv' /\ StableInv' /\ VisitInv'
      /\ UNCHANGED <<cfg, exit_block, bb2int, order, RootId, Listed, Turned, Tree>>
      /\ \A b : Chain(b)' = Chain(b) /\ Irdom(b)' = Irdom(b)
  BY <1>1, ReportSteps
<1>3. TypeOK'
  BY <1>1, <1>2 DEF IInv, TypeOK, orderVars, meetVars, fillVars, blockVars, RootId
<1>4. ASSUME NEW b \in Listed, NEW s \in cfg[b], NEW t \in cfg[b], s # t
      PROVE  <<b, s>> \in edges \/ Walked(b, s, Irdom(b))
  BY <1>1, <1>4 DEF IInv, WalkInv
<1>5. WalkInv'
  <2>1. \A e \in edges : e[1] \in Listed /\ e[2] \in cfg[e[1]]
    BY <1>1 DEF IInv, WalkInv
  <2>2. QED
    BY <1>1, <1>2, <1>4, <2>1 DEF WalkInv, Walked
<1>6. FrontierSound' /\ FillInv'
  BY <1>1, <1>2, TheoryKept DEF IInv, FrontierSound, FillInv, blockVars
<1>7. QED
  BY <1>2, <1>3, <1>5, <1>6 DEF IInv

-----------------------------------------------------------------------------
(***************************************************************************)
(* get_bb_rdoms, and the next function                                     *)
(***************************************************************************)
(* The frontiers stay as they are when no walk is left. *)
LEMMA WalksOver ==
  ASSUME IInv, Reporting, pc # "walk", edges = {}, edges' = {}, pc' # "walk",
         UNCHANGED <<cfg, exit_block, bb2int, rdoms, rdom_frontier>>
  PROVE  WalkInv' /\ FrontierSound'
<1>1. /\ \A b : Chain(b)' = Chain(b)
      /\ \A b : Irdom(b)' = Irdom(b)
      /\ Listed' = Listed /\ Turned' = Turned
  BY TreeKept, TheoryKept
<1>2. \A b \in Listed : \A s, t \in cfg[b] : s # t => Walked(b, s, Irdom(b))
  BY DEF IInv, WalkInv, Reporting
<1>3. WalkInv'
  BY <1>1, <1>2 DEF WalkInv, Walked
<1>4. FrontierSound'
  BY <1>1, TheoryKept DEF IInv, FrontierSound, Reporting
<1>5. QED
  BY <1>3, <1>4

(* Before the first block the climb of the exit counts as over. *)
LEMMA BeginRdomsIInv == IInv /\ BeginRdoms => IInv'
<1> SUFFICES ASSUME IInv, BeginRdoms PROVE IInv'
  OBVIOUS
<1>1. /\ pc = "front" /\ pc' = "fill" /\ Reporting /\ Reporting' /\ edges = {} /\ edges' = {}
      /\ unfilled' = Listed \ {exit_block} /\ bb' = exit_block /\ current' = exit_block
      /\ UNCHANGED <<cfg, functions, orderVars, sweepVars, meetVars, walkVars, blockVars>>
      /\ UNCHANGED <<rdoms, changed, at, rdom, rdom_frontier>>
  BY DEF BeginRdoms, Reporting, sweepVars, walkVars, blockVars
<1>2. /\ PhaseInv' /\ OrderInv' /\ NumbersInv' /\ TreeInv' /\ StableInv' /\ VisitInv'
      /\ UNCHANGED <<cfg, exit_block, bb2int, order, RootId, Listed, Turned, Tree>>
      /\ \A b : Chain(b)' = Chain(b) /\ Irdom(b)' = Irdom(b)
  BY <1>1, ReportSteps
<1>3. exit_block \in Listed /\ Listed \subseteq Blocks
  BY <1>1, GraphFacts DEF IInv
<1>4. TypeOK'
  <2>1. unfilled' \subseteq Blocks /\ {bb', current'} \subseteq Blocks
    BY <1>1, <1>3
  <2>2. QED
    BY <1>1, <1>2, <2>1 DEF IInv, TypeOK, orderVars, meetVars, walkVars, blockVars, RootId
<1>5. WalkInv' /\ FrontierSound'
  BY <1>1, <1>2, WalksOver
<1>6. FillInv'
  <2>1. exit_block \in Chain(exit_block)
    BY <1>3, T!AncestorsLeast DEF Chain
  <2>2. \A b \in Listed : rdom[b] = {}
    BY <1>1 DEF IInv, FillInv
  <2>3. Chain(bb)' = Chain(exit_block) /\ Chain(current)' = Chain(exit_block)
    BY <1>1, <1>2
  <2>4. QED
    BY <1>1, <1>2, <1>3, <2>1, <2>2, <2>3 DEF FillInv
<1>7. QED
  BY <1>2, <1>4, <1>5, <1>6 DEF IInv

(* The chain of the exit is the exit. *)
LEMMA ExitChain ==
  ASSUME IInv, Reporting
  PROVE  exit_block \in Listed /\ Chain(exit_block) = {exit_block}
<1>1. T!Ascends(Tree, bb2int) /\ exit_block \in Listed
  BY SettledFacts DEF T!Finished, T!SweepInvariant, TreeWords
<1>2. T!Settled(Tree, exit_block) => Tree[exit_block] = exit_block
  BY <1>1 DEF T!Ascends
<1>3. QED
  BY <1>1, <1>2, T!AncestorsTop DEF Chain

(* The climb of the block before has reached the exit. *)
LEMMA BeginBlockIInv == ASSUME NEW b \in Blocks PROVE IInv /\ BeginBlock(b) => IInv'
<1> SUFFICES ASSUME IInv, BeginBlock(b) PROVE IInv'
  OBVIOUS
<1>1. /\ pc = "fill" /\ pc' = "fill" /\ Reporting /\ Reporting' /\ current = exit_block
      /\ b \in unfilled /\ unfilled' = unfilled \ {b} /\ bb' = b /\ current' = b
      /\ UNCHANGED <<cfg, functions, orderVars, sweepVars, meetVars, walkVars, blockVars>>
      /\ UNCHANGED <<rdoms, changed, at, rdom, rdom_frontier, edges>>
  BY DEF BeginBlock, Reporting, sweepVars, walkVars, blockVars
<1>2. /\ PhaseInv' /\ OrderInv' /\ NumbersInv' /\ TreeInv' /\ StableInv' /\ VisitInv'
      /\ UNCHANGED <<cfg, exit_block, bb2int, order, RootId, Listed, Turned, Tree>>
      /\ \A x : Chain(x)' = Chain(x) /\ Irdom(x)' = Irdom(x)
  BY <1>1, ReportSteps
<1>3. edges = {} /\ unfilled \subseteq Listed
  BY <1>1 DEF IInv, WalkInv, FillInv
<1>4. TypeOK'
  BY <1>1, <1>2 DEF IInv, TypeOK, orderVars, meetVars, walkVars, blockVars, RootId
<1>5. WalkInv' /\ FrontierSound'
  BY <1>1, <1>2, <1>3, WalksOver
<1>6. FillInv'
  <2>1. Chain(current) = {exit_block}
    BY <1>1, ExitChain
  <2>2. \A x \in Listed :
          rdom[x] = IF x \in unfilled THEN {}
                    ELSE IF x = bb THEN Chain(bb) \ Chain(current)
                    ELSE Chain(x) \ {exit_block}
    BY <1>1 DEF IInv, FillInv
  <2>3. b \in Chain(b)
    BY <1>1, <1>3, T!AncestorsLeast DEF Chain
  <2>4. \A x \in Listed :
          rdom[x] = IF x \in unfilled' THEN {}
                    ELSE IF x = b THEN Chain(b) \ Chain(b)
                    ELSE Chain(x) \ {exit_block}
    BY <1>1, <2>1, <2>2
  <2>5. Chain(bb)' = Chain(b) /\ Chain(current)' = Chain(b)
    BY <1>1, <1>2
  <2>6. QED
    BY <1>1, <1>2, <1>3, <2>3, <2>4, <2>5 DEF FillInv
<1>7. QED
  BY <1>2, <1>4, <1>5, <1>6 DEF IInv

(* One block of the chain is added, and the climb goes on above it. *)
LEMMA AddRdomIInv == IInv /\ AddRdom => IInv'
<1> SUFFICES ASSUME IInv, AddRdom PROVE IInv'
  OBVIOUS
<1>1. /\ pc = "fill" /\ pc' = "fill" /\ Reporting /\ Reporting' /\ current # exit_block
      /\ rdom' = [rdom EXCEPT ![bb] = @ \cup {current}] /\ current' = Irdom(current)
      /\ UNCHANGED <<cfg, functions, orderVars, sweepVars, meetVars, walkVars>>
      /\ UNCHANGED <<unfilled, bb, rdoms, changed, at, rdom_frontier, edges>>
  BY DEF AddRdom, Reporting, sweepVars, walkVars
<1>2. /\ PhaseInv' /\ OrderInv' /\ NumbersInv' /\ TreeInv' /\ StableInv' /\ VisitInv'
      /\ UNCHANGED <<cfg, exit_block, bb2int, order, RootId, Listed, Turned, Tree>>
      /\ \A x : Chain(x)' = Chain(x) /\ Irdom(x)' = Irdom(x)
  BY <1>1, ReportSteps
<1>3. T!Finished(Turned, Tree, bb2int) /\ TreeWords /\ edges = {}
  BY <1>1, SettledFacts DEF IInv, WalkInv
<1>4. /\ unfilled \subseteq Listed /\ bb \in Listed \ unfilled /\ current \in Chain(bb)
      /\ \A x \in Listed :
           rdom[x] = IF x \in unfilled THEN {}
                     ELSE IF x = bb THEN Chain(bb) \ Chain(current)
                     ELSE Chain(x) \ {exit_block}
  BY <1>1 DEF IInv, FillInv
<1>5. Chain(bb) \subseteq Listed /\ current \in Listed
  BY <1>4, T!AncestorsLeast DEF Chain
<1>6. T!Settled(Tree, current) /\ Tree[current] = current' /\ current' \in Listed
  BY <1>1, <1>3, <1>5 DEF TreeWords, T!Finished, T!Settled
<1>7. current' \in Chain(bb) /\ Chain(current) = {current} \cup Chain(current')
  BY <1>4, <1>5, <1>6, T!AncestorsLeast, T!AncestorsStep DEF Chain
<1>8. current \notin Chain(current')
  <2>1. T!Numbering(bb2int) /\ T!Ascends(Tree, bb2int)
    BY <1>3 DEF T!Finished, T!Numbered, T!SweepInvariant
  <2>2. bb2int[current] < bb2int[current'] /\ bb2int[current] \in Nat /\ bb2int[current'] \in Nat
    BY <1>1, <1>5, <1>6, <2>1 DEF T!Ascends, T!Numbering
  <2>3. QED
    BY <1>5, <1>6, <2>1, <2>2, T!AncestorsAbove DEF Chain
<1>9. /\ rdom' \in [Listed -> SUBSET Listed]
      /\ rdom'[bb] = rdom[bb] \cup {current}
      /\ \A x \in Listed : x # bb => rdom'[x] = rdom[x]
  BY <1>1, <1>4, <1>5 DEF IInv, TypeOK
<1>10. TypeOK'
  <2>1. Listed \subseteq Blocks
    BY GraphFacts DEF IInv
  <2>2. QED
    BY <1>1, <1>2, <1>4, <1>6, <1>9, <2>1
    DEF IInv, TypeOK, orderVars, meetVars, walkVars, RootId
<1>11. WalkInv' /\ FrontierSound'
  BY <1>1, <1>2, <1>3, WalksOver
<1>12. FillInv'
  <2>1. rdom'[bb] = Chain(bb) \ Chain(current')
    BY <1>4, <1>7, <1>8, <1>9
  <2>2. Chain(bb)' = Chain(bb) /\ Chain(current)' = Chain(current')
    BY <1>1, <1>2
  <2>3. \A x \in Listed :
          rdom'[x] = IF x \in unfilled THEN {}
                     ELSE IF x = bb THEN Chain(bb) \ Chain(current')
                     ELSE Chain(x) \ {exit_block}
    BY <1>4, <1>9, <2>1
  <2>4. QED
    BY <1>1, <1>2, <1>4, <1>7, <2>2, <2>3 DEF FillInv
<1>13. QED
  BY <1>2, <1>10, <1>11, <1>12 DEF IInv

(* Every block has had its turn. *)
LEMMA EndFunctionIInv == IInv /\ EndFunction => IInv'
<1> SUFFICES ASSUME IInv, EndFunction PROVE IInv'
  OBVIOUS
<1>1. /\ pc = "fill" /\ pc' = "done" /\ Reporting /\ Reporting'
      /\ current = exit_block /\ unfilled = {} /\ changed' = FALSE /\ at' = -1 /\ edges' = {}
      /\ UNCHANGED <<cfg, functions, orderVars, rdoms, unfilled, blockVars>>
      /\ UNCHANGED <<rdom, rdom_frontier>>
  BY DEF EndFunction, Reporting, blockVars
<1>2. /\ PhaseInv' /\ OrderInv' /\ NumbersInv' /\ TreeInv' /\ StableInv' /\ VisitInv'
      /\ UNCHANGED <<cfg, exit_block, bb2int, order, RootId, Listed, Turned, Tree>>
      /\ \A x : Chain(x)' = Chain(x) /\ Irdom(x)' = Irdom(x)
  BY <1>1, ReportSteps
<1>3. edges = {}
  BY <1>1 DEF IInv, WalkInv
<1>4. TypeOK'
  <2>1. RootId \in Nat /\ RootId = Len(order) - 1
    BY <1>1, NumberFacts DEF IInv, NumbersInv, Computing
  <2>2. at' \in -1 .. Len(order') - 1
    BY <1>1, <1>2, <2>1
  <2>3. pending' \subseteq Blocks /\ new_irdom' \in Pointers
    BY DEF EndFunction, Pointers
  <2>4. QED
    BY <1>1, <1>2, <2>2, <2>3 DEF IInv, TypeOK, orderVars, RootId
<1>5. WalkInv' /\ FrontierSound'
  BY <1>1, <1>2, <1>3, WalksOver
<1>6. FillInv'
  <2>1. Chain(current) = {exit_block}
    BY <1>1, ExitChain
  <2>2. \A x \in Listed : rdom[x] = Chain(x) \ {exit_block}
    BY <1>1, <2>1 DEF IInv, FillInv
  <2>3. QED
    BY <1>1, <1>2, <2>2 DEF FillInv
<1>7. QED
  BY <1>2, <1>4, <1>5, <1>6 DEF IInv

(* Of the function before, nothing counts any more. *)
LEMMA NextFunctionIInv == IInv /\ NextFunction => IInv'
<1> SUFFICES ASSUME IInv, NextFunction PROVE IInv'
  OBVIOUS
<1>1. /\ pc = "done" /\ pc' = "start" /\ cfg' \in CFGs /\ at = -1 /\ functions < MaxFunctions
      /\ UNCHANGED <<functions, orderVars, sweepVars, meetVars, walkVars, fillVars>>
  BY DEF NextFunction, IInv, PhaseInv
<1>2. cfg' \in [Listed' -> SUBSET Listed']
  BY <1>1, ReverseAssumption DEF Listed
<1>3. rdom' \in [Listed' -> SUBSET Listed'] /\ rdom_frontier' \in [Listed' -> SUBSET Listed']
  <2>1. CASE cfg' = cfg
    BY <2>1 DEF NextFunction, blockVars, IInv, TypeOK, Listed
  <2>2. CASE cfg' # cfg
    BY <2>2 DEF NextFunction, Listed
  <2>3. QED
    BY <2>1, <2>2
<1>4. TypeOK'
  BY <1>1, <1>2, <1>3 DEF IInv, TypeOK, orderVars, sweepVars, meetVars, walkVars, fillVars
<1>5. PhaseInv'
  BY <1>1 DEF PhaseInv, sweepVars
<1>6. /\ OrderInv' /\ NumbersInv' /\ TreeInv' /\ StableInv' /\ VisitInv'
      /\ FrontierSound' /\ WalkInv' /\ FillInv'
  BY <1>1 DEF OrderInv, NumbersInv, TreeInv, StableInv, VisitInv, FrontierSound, WalkInv, FillInv,
              Computing
<1>7. QED
  BY <1>4, <1>5, <1>6 DEF IInv

-----------------------------------------------------------------------------
(***************************************************************************)
(* The theorems                                                            *)
(***************************************************************************)
(* Nothing is said of what a stuttering step could change. *)
LEMMA StutterIInv == IInv /\ UNCHANGED vars => IInv'
<1> SUFFICES ASSUME IInv, UNCHANGED vars PROVE IInv'
  OBVIOUS
<1>1. /\ UNCHANGED <<cfg, pc, functions, exit_block, visited, stack, order, bb2int>>
      /\ UNCHANGED <<rdoms, changed, at, pending, new_irdom, finger1, finger2>>
      /\ UNCHANGED <<edges, branch, runner, unfilled, bb, current, rdom, rdom_frontier>>
  BY DEF vars, orderVars, sweepVars, meetVars, walkVars, fillVars, blockVars
<1>2. /\ Tree' = Tree /\ \A b : Chain(b)' = Chain(b)
      /\ \A x : Irdom(x)' = Irdom(x)
      /\ Listed' = Listed /\ Turned' = Turned /\ RootId' = RootId
      /\ BlockAt(at)' = BlockAt(at)
  BY <1>1, TreeKept, TheoryKept DEF RootId, BlockAt
<1>3. TypeOK' /\ PhaseInv'
  BY <1>1, <1>2 DEF IInv, TypeOK, PhaseInv
<1>4. OrderInv'
  <2>1. Numbered' = Numbered /\ OnStack' = OnStack
    BY <1>1 DEF Numbered, OnStack
  <2>2. OrderInv
    BY DEF IInv
  <2>3. QED
    BY <1>1, <1>2, <2>1, <2>2 DEF OrderInv
<1>5. Computing' <=> Computing
  BY <1>1 DEF Computing
<1>6. NumbersInv'
  BY <1>1, <1>2, <1>5 DEF IInv, NumbersInv, Ordered, Numbered
<1>7. TreeInv' /\ StableInv'
  BY <1>1, <1>2, <1>5, TheoryKept DEF IInv, TreeInv, StableInv
<1>8. VisitInv'
  <2>1. \A f : T!NotTooHigh(Turned, Tree, BlockAt(at), f)' <=> T!NotTooHigh(Turned, Tree, BlockAt(at), f)
    BY <1>1, <1>2, TheoryKept
  <2>2. \A s : T!Settled(Tree, s)' <=> T!Settled(Tree, s)
    BY <1>1, <1>2, TheoryKept
  <2>3. QED
    BY <1>1, <1>2, <2>1, <2>2 DEF IInv, VisitInv
<1>9. FrontierSound'
  BY <1>1, <1>2, TheoryKept DEF IInv, FrontierSound
<1>10. WalkInv'
  <2>1. \A b, s, top : Walked(b, s, top)' <=> Walked(b, s, top)
    BY <1>1, <1>2 DEF Walked
  <2>2. WalkInv
    BY DEF IInv
  <2>3. QED
    BY <1>1, <1>2, <2>1, <2>2 DEF WalkInv
<1>11. FillInv'
  <2>1. FillInv
    BY DEF IInv
  <2>2. QED
    BY <1>1, <1>2, <2>1 DEF FillInv
<1>12. QED
  BY <1>3, <1>4, <1>6, <1>7, <1>8, <1>9, <1>10, <1>11 DEF IInv

(* Every step keeps the invariant. *)
LEMMA NextIInv == IInv /\ [Next]_vars => IInv'
<1> SUFFICES ASSUME IInv, [Next]_vars PROVE IInv'
  OBVIOUS
<1>1. CASE BeginFunction
  BY <1>1, BeginFunctionIInv
<1>2. CASE get_post_order
  BY <1>2, VisitParentIInv, FinishBlockIInv DEF get_post_order
<1>3. CASE get_bb_irdom
  BY <1>3, InitRdomsIInv, SweepOnIInv, BeginMeetIInv, StoreIrdomIInv DEF get_bb_irdom
<1>4. CASE intersect
  BY <1>4, BeginIntersectIInv, ClimbIInv, EndIntersectIInv DEF intersect
<1>5. CASE get_bb_rdom_front
  BY <1>5, BeginFrontiersIInv, BeginWalkIInv, AddFrontierIInv, EndWalkIInv DEF get_bb_rdom_front
<1>6. CASE get_bb_rdoms
  BY <1>6, BeginRdomsIInv, BeginBlockIInv, AddRdomIInv, EndFunctionIInv DEF get_bb_rdoms
<1>7. CASE NextFunction
  BY <1>7, NextFunctionIInv
<1>8. CASE UNCHANGED vars
  BY <1>8, StutterIInv
<1>9. QED
  BY <1>1, <1>2, <1>3, <1>4, <1>5, <1>6, <1>7, <1>8 DEF Next

(* The invariant holds in every reachable state. *)
THEOREM InductiveInvariant == Spec => []IInv
BY InitIInv, NextIInv, PTL DEF Spec

(* No walk of the pass leaves the blocks of the function at hand, and no   *)
(* number is looked up for the null pointer.                               *)
THEOREM TypeCorrect == Spec => []TypeOK
<1>1. IInv => TypeOK
  BY DEF IInv
<1>2. QED
  BY <1>1, InductiveInvariant, PTL

(* At the end of every function rdoms_ of each block are its              *)
(* postdominators without the exit, whatever the functions before left.    *)
THEOREM PostdominatorSetsExact == Spec => []PostdominatorsExact
<1>1. IInv => PostdominatorsExact
  <2> SUFFICES ASSUME IInv, pc = "done", NEW b \in Listed
               PROVE  rdom[b] = IF b = exit_block THEN {}
                                ELSE Post!DominatorsOf(Turned, b) \ {exit_block}
    BY DEF PostdominatorsExact
  <2>1. Reporting /\ T!Finished(Turned, Tree, bb2int)
    BY SettledFacts DEF Reporting
  <2>2. rdom[b] = Chain(b) \ {exit_block}
    BY DEF IInv, FillInv
  <2>3. Chain(exit_block) = {exit_block}
    BY <2>1, ExitChain
  <2>4. Chain(b) = T!DominatorsOf(Turned, b)
    BY <2>1, T!ChainsAreDominators DEF Chain
  <2>5. T!DominatorsOf(Turned, b) = Post!DominatorsOf(Turned, b)
    BY DEF T!DominatorsOf, Post!DominatorsOf, T!Dominates, Post!Dominates
  <2>6. QED
    BY <2>2, <2>3, <2>4, <2>5
<1>2. QED
  BY <1>1, InductiveInvariant, PTL

(* And rdom_frontier_ of each block is exactly its frontier in the graph   *)
(* turned around: a branching block is never missed, and one recorded by   *)
(* an earlier execution on the same function is still right.               *)
THEOREM ReverseFrontiersExact == Spec => []ReverseFrontierExact
<1>1. IInv => ReverseFrontierExact
  <2> SUFFICES ASSUME IInv, pc = "done", NEW x \in Listed
               PROVE  rdom_frontier[x] = Post!DominanceFrontier(Turned, x)
    BY DEF ReverseFrontierExact
  <2>1. Reporting /\ T!Finished(Turned, Tree, bb2int) /\ TreeWords /\ edges = {}
    BY SettledFacts DEF Reporting, IInv, WalkInv
  <2>2. cfg[exit_block] = {}
    BY GraphFacts DEF IInv
  <2>3. ASSUME NEW b \in T!DominanceFrontier(Turned, x)
        PROVE  b \in rdom_frontier[x]
    <3>1. b \in Listed
      BY DEF T!DominanceFrontier
    <3>2. PICK p \in T!Preds(Turned, b) : /\ x \in T!Ancestors(Tree, p)
                                          /\ x \notin T!Ancestors(Tree, Tree[b])
      BY <2>1, <2>3, <3>1, T!FrontierByWalks
    <3>3. p \in cfg[b] /\ b # exit_block
      BY <2>1, <2>2, <3>1, <3>2 DEF TreeWords
    <3>4. PICK q \in T!Preds(Turned, b) : q # p
      <4> SUFFICES ASSUME T!Preds(Turned, b) = {p} PROVE FALSE
        BY <3>2
      <4>1. QED
        BY <2>1, <2>3, <3>1, <3>2, <3>3, T!NoFrontierWithoutJoin DEF TreeWords
    <3>5. q \in cfg[b]
      BY <2>1, <3>1, <3>4 DEF TreeWords
    <3>6. Walked(b, p, Irdom(b)) /\ Tree[b] = Irdom(b)
      BY <2>1, <3>1, <3>3, <3>4, <3>5 DEF TreeWords, IInv, WalkInv
    <3>7. QED
      BY <3>2, <3>6 DEF Walked, Chain
  <2>4. T!DominanceFrontier(Turned, x) = Post!DominanceFrontier(Turned, x)
    BY DEF Post!DominanceFrontier, T!DominanceFrontier, Post!StrictlyDominates,
           T!StrictlyDominates, Post!Dominates, T!Dominates, Post!Preds, T!Preds
  <2>5. QED
    BY <2>3, <2>4 DEF IInv, FrontierSound
<1>2. QED
  BY <1>1, InductiveInvariant, PTL
=============================================================================
