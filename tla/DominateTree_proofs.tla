------------------------ MODULE DominateTree_proofs -------------------------
(***************************************************************************)
(* Machine-checked facts about the DominateTree pass, for every graph the  *)
(* assumptions admit and any number of executions of the pass.             *)
(*                                                                         *)
(* The inductive invariant follows the pass: DfsInv while get_post_order   *)
(* runs, NumbersInv once it has returned, SweepInv about doms, MeetInv     *)
(* about the predecessor at hand, ClimbInv inside intersect.  It makes the *)
(* pass safe.  The second half, from ExactInv on, makes it right.          *)
(***************************************************************************)
EXTENDS DominateTree, SequenceTheorems, TLAPS

Numbered == {order[k] : k \in 1 .. Len(order)}
OnStack  == {stack[k] : k \in 1 .. Len(stack)}

(* The activations are a path from the entry; a numbered block has all its *)
(* successors entered, and a predecessor that is numbered above it or is   *)
(* going to be.                                                            *)
DfsInv ==
  pc = "dfs" =>
    /\ visited = Numbered \cup OnStack
    /\ Numbered \cap OnStack = {}
    /\ \A j, k \in 1 .. Len(stack) : j # k => stack[j] # stack[k]
    /\ stack # <<>> => stack[1] = Entry
    /\ stack = <<>> => order # <<>> /\ order[Len(order)] = Entry
    /\ \A k \in 1 .. Len(stack) - 1 : stack[k + 1] \in cfg[stack[k]]
    /\ \A k \in 1 .. Len(order) : bb2int[order[k]] = k - 1
    /\ \A x \in Pointers : x \notin Numbered => bb2int[x] = 0
    /\ \A b \in Numbered : cfg[b] \subseteq visited
    /\ \A b \in Numbered \ {Entry} :
         \E p \in Preds(b) :
           p \in OnStack \/ (p \in Numbered /\ bb2int[b] < bb2int[p])

(* What the numbering is when the entry's activation has returned. *)
Ordered ==
  /\ Numbered = Blocks
  /\ visited = Blocks
  /\ order # <<>>
  /\ order[Len(order)] = Entry
  /\ bb2int[NULL] = 0
  /\ \A k \in 1 .. Len(order) : bb2int[order[k]] = k - 1
  /\ \A b \in Blocks \ {Entry} : \E p \in Preds(b) : bb2int[b] < bb2int[p]

NumbersInv == Computing => Ordered

PhaseInv ==
  /\ pc = "start" => runs < MaxRuns
  /\ pc \in {"start", "dfs", "front", "walk", "done"} => at = -1
  /\ pc \in {"meet", "climb"} => at # -1 /\ BlockAt(at) # Entry
  /\ pc = "walk" => join \in Blocks /\ runner \in Blocks

(* Dominators ascend, they are processed themselves, and the blocks the    *)
(* sweep has passed are all processed (before the first sweep, none is).   *)
SweepInv ==
  Computing =>
    /\ doms[RootId] = Entry
    /\ \A n \in 0 .. RootId - 1 :
         doms[n] # NULL => /\ n < bb2int[doms[n]]
                           /\ Processed(doms[n])
    /\ \/ pc = "sweep" /\ at = -1 /\ changed
       \/ \A n \in 0 .. RootId : at < n => doms[n] # NULL

(* new_idom is numbered at least as high as each predecessor it has been   *)
(* intersected with, the one in hand at most as high as finger1.           *)
MeetInv ==
  pc \in {"meet", "climb"} =>
    /\ new_idom \in Blocks
    /\ Processed(new_idom)
    /\ \A p \in pending : Processed(p)
    /\ \A p \in Preds(BlockAt(at)) :
         Processed(p) => \/ p \in pending
                         \/ bb2int[p] <= bb2int[new_idom]
                         \/ pc = "climb" /\ bb2int[p] <= bb2int[finger1]

ClimbInv ==
  pc = "climb" =>
    /\ finger1 \in Blocks /\ Processed(finger1)
    /\ finger2 \in Blocks /\ Processed(finger2)
    /\ bb2int[new_idom] <= bb2int[finger2]

IInv == TypeOK /\ PhaseInv /\ DfsInv /\ NumbersInv /\ SweepInv /\ MeetInv /\ ClimbInv

-----------------------------------------------------------------------------
(* The graph is over the blocks, the entry reaches all of them and has no  *)
(* predecessor.                                                            *)
LEMMA GraphFacts ==
  ASSUME TypeOK
  PROVE  /\ cfg \in [Blocks -> SUBSET Blocks]
         /\ Entry \in Blocks /\ NULL \notin Blocks
         /\ \A S \in SUBSET Blocks :
              Entry \in S /\ (\A x \in S : cfg[x] \subseteq S) => S = Blocks
         /\ \A b, p \in Blocks : p \in Preds(b) <=> b \in cfg[p]
         /\ \A b : Preds(b) \subseteq Blocks
BY GraphAssumption DEF TypeOK, Dom!Graphs, Dom!Rooted, Dom!Closed, Preds, Dom!Preds

(* Number and block determine each other; 0 .. RootId are the numbers.     *)
LEMMA NumberFacts ==
  ASSUME TypeOK, NumbersInv, Computing
  PROVE  /\ RootId = Len(order) - 1 /\ RootId \in Nat
         /\ BlockAt(RootId) = Entry
         /\ \A x \in Pointers : bb2int[x] \in 0 .. RootId
         /\ \A b \in Blocks : BlockAt(bb2int[b]) = b
         /\ \A n \in 0 .. RootId : BlockAt(n) \in Blocks /\ bb2int[BlockAt(n)] = n
<1>1. order \in Seq(Blocks) /\ Len(order) \in Nat /\ Len(order) > 0
  BY DEF TypeOK, NumbersInv, Ordered
<1>2. \A k \in 1 .. Len(order) : order[k] \in Blocks /\ bb2int[order[k]] = k - 1
  BY <1>1 DEF NumbersInv, Ordered
<1>3. order[Len(order)] = Entry /\ bb2int[NULL] = 0
  BY DEF NumbersInv, Ordered
<1>4. RootId = Len(order) - 1 /\ RootId \in Nat
  BY <1>1, <1>2, <1>3 DEF RootId
<1>5. \A b \in Blocks : \E k \in 1 .. Len(order) : b = order[k]
  BY DEF NumbersInv, Ordered, Numbered
<1>6. ASSUME NEW b \in Blocks
      PROVE  bb2int[b] \in 0 .. RootId /\ BlockAt(bb2int[b]) = b
  <2>1. PICK k \in 1 .. Len(order) : b = order[k]
    BY <1>5
  <2>2. bb2int[b] = k - 1
    BY <1>2, <2>1
  <2>3. QED
    BY <1>1, <1>4, <2>1, <2>2 DEF BlockAt
<1>7. \A n \in 0 .. RootId : BlockAt(n) \in Blocks /\ bb2int[BlockAt(n)] = n
  BY <1>1, <1>2, <1>4 DEF BlockAt
<1>8. BlockAt(RootId) = Entry
  BY <1>1, <1>3, <1>4 DEF BlockAt
<1>9. QED
  BY <1>3, <1>4, <1>6, <1>7, <1>8 DEF Pointers

(* A processed block has a block for its dominator, numbered above it, and *)
(* processed too; only the root is numbered RootId.                        *)
LEMMA ClimbFacts ==
  ASSUME TypeOK, NumbersInv, SweepInv, Computing, NEW b \in Blocks, Processed(b)
  PROVE  /\ Idom(b) \in Blocks
         /\ Processed(Idom(b))
         /\ b = Entry => Idom(b) = Entry
         /\ b # Entry => bb2int[b] < RootId /\ bb2int[b] < bb2int[Idom(b)]
         /\ bb2int[Idom(b)] >= bb2int[b]
<1>1. /\ bb2int[b] \in 0 .. RootId /\ RootId \in Nat
      /\ BlockAt(bb2int[b]) = b /\ BlockAt(RootId) = Entry
  BY NumberFacts DEF Pointers
<1>2. doms \in [0 .. RootId -> Pointers]
  BY DEF TypeOK, Computing
<1>3. Idom(b) \in Blocks
  BY <1>1, <1>2 DEF Idom, Processed, Pointers
<1>4. CASE b = Entry
  <2>1. Idom(b) = Entry
    BY <1>4 DEF SweepInv, Idom, RootId
  <2>2. QED
    BY <1>1, <1>3, <1>4, <2>1 DEF RootId
<1>5. CASE b # Entry
  <2>1. bb2int[b] \in 0 .. RootId - 1
    BY <1>1, <1>5
  <2>2. bb2int[b] < bb2int[Idom(b)] /\ Processed(Idom(b))
    BY <2>1 DEF SweepInv, Idom, Processed
  <2>3. bb2int[Idom(b)] \in Nat
    BY <1>3 DEF TypeOK, Pointers
  <2>4. QED
    BY <1>1, <1>3, <1>5, <2>1, <2>2, <2>3
<1>6. QED
  BY <1>4, <1>5

-----------------------------------------------------------------------------
(***************************************************************************)
(* Initial states, and the walk of get_post_order                          *)
(***************************************************************************)
LEMMA InitIInv == Init => IInv
<1> SUFFICES ASSUME Init PROVE IInv
  OBVIOUS
<1>1. Len(order) = 0 /\ 0 \in 0 .. MaxRuns
  BY RunsAssumption DEF Init
<1>2. TypeOK
  <2>1. bb2int \in [Pointers -> Nat] /\ dom_frontier \in [Blocks -> SUBSET Blocks]
    BY DEF Init
  <2>2. idom \in [Blocks -> Pointers]
    BY DEF Init, Pointers
  <2>3. stack \in Seq(Blocks) /\ order \in Seq(Blocks)
    BY DEF Init
  <2>4. pc \in Phases /\ cfg \in CFGs /\ changed \in BOOLEAN
    BY DEF Init, Phases
  <2>5. at \in -1 .. Len(order) - 1
    BY <1>1 DEF Init
  <2>6. /\ visited \in SUBSET Blocks /\ pending \in SUBSET Blocks
        /\ edges \in SUBSET (Blocks \X Blocks)
        /\ {new_idom, finger1, finger2, join, runner} \subseteq Pointers
    BY DEF Init, Pointers
  <2>7. runs \in 0 .. MaxRuns /\ pc \in {"start", "dfs"}
    BY <1>1 DEF Init
  <2>8. QED
    BY <2>1, <2>2, <2>3, <2>4, <2>5, <2>6, <2>7 DEF TypeOK
<1>3. PhaseInv
  BY RunsAssumption DEF Init, PhaseInv
<1>4. DfsInv /\ NumbersInv /\ SweepInv /\ MeetInv /\ ClimbInv
  BY DEF Init, DfsInv, NumbersInv, SweepInv, MeetInv, ClimbInv, Computing
<1>5. QED
  BY <1>2, <1>3, <1>4 DEF IInv

(* Clearing the fields and entering the entry block.                      *)
LEMMA BeginFunctionIInv == IInv /\ BeginFunction => IInv'
<1> SUFFICES ASSUME IInv, BeginFunction PROVE IInv'
  OBVIOUS
<1> USE DEF IInv, BeginFunction
<1>1. Entry \in Blocks
  BY GraphFacts
<1>2. TypeOK'
  BY <1>1, RunsAssumption DEF TypeOK, PhaseInv, meetVars, walkVars, blockVars, Phases, Pointers
<1>3. PhaseInv'
  BY DEF PhaseInv
<1>4. OnStack' = {Entry} /\ Numbered' = {}
  BY DEF OnStack, Numbered
<1>5. DfsInv'
  BY <1>4 DEF DfsInv
<1>6. NumbersInv' /\ SweepInv' /\ MeetInv' /\ ClimbInv'
  BY DEF NumbersInv, SweepInv, MeetInv, ClimbInv, Computing
<1>7. QED
  BY <1>2, <1>3, <1>5, <1>6

(* A block is entered from the activation of a predecessor.               *)
LEMMA VisitChildIInv == ASSUME NEW c \in Blocks PROVE IInv /\ VisitChild(c) => IInv'
<1> SUFFICES ASSUME IInv, VisitChild(c) PROVE IInv'
  OBVIOUS
<1> USE DEF IInv, VisitChild
<1>1. stack \in Seq(Blocks) /\ Len(stack) \in Nat \ {0} /\ visited \in SUBSET Blocks
  BY DEF TypeOK
<1>2. /\ Len(stack') = Len(stack) + 1
      /\ stack'[Len(stack) + 1] = c
      /\ \A k \in 1 .. Len(stack) : stack'[k] = stack[k]
  BY <1>1
<1>3. OnStack' = OnStack \cup {c} /\ Numbered' = Numbered
  BY <1>1, <1>2 DEF OnStack, Numbered
<1>4. c \in cfg[Top] /\ c \notin visited /\ c \notin OnStack /\ c \notin Numbered
  BY DEF DfsInv
<1>5. TypeOK'
  BY <1>1 DEF TypeOK, sweepVars, meetVars, walkVars, blockVars
<1>6. DfsInv'
  <2>1. visited' = Numbered' \cup OnStack' /\ Numbered' \cap OnStack' = {}
    BY <1>3, <1>4 DEF DfsInv
  <2>2. \A j, k \in 1 .. Len(stack') : j # k => stack'[j] # stack'[k]
    <3>1. \A k \in 1 .. Len(stack) : stack[k] # c
      BY <1>4 DEF OnStack
    <3>2. \A k \in 1 .. Len(stack') : k = Len(stack) + 1 \/ k \in 1 .. Len(stack)
      BY <1>1, <1>2
    <3>3. QED
      BY <1>2, <3>1, <3>2 DEF DfsInv
  <2>3. stack' # <<>> /\ stack'[1] = Entry
    BY <1>1, <1>2 DEF DfsInv
  <2>4. \A k \in 1 .. Len(stack') - 1 : stack'[k + 1] \in cfg'[stack'[k]]
    BY <1>1, <1>2, <1>4 DEF DfsInv, Top
  <2>5. /\ \A b \in Numbered' : cfg'[b] \subseteq visited'
        /\ \A b \in Numbered' \ {Entry} : \E p \in Preds(b)' :
             p \in OnStack' \/ (p \in Numbered' /\ bb2int'[b] < bb2int'[p])
    BY <1>3 DEF DfsInv, Preds
  <2>6. QED
    BY <1>3, <2>1, <2>2, <2>3, <2>4, <2>5 DEF DfsInv
<1>7. PhaseInv' /\ NumbersInv' /\ SweepInv' /\ MeetInv' /\ ClimbInv'
  BY DEF PhaseInv, NumbersInv, SweepInv, MeetInv, ClimbInv, Computing, sweepVars
<1>8. QED
  BY <1>5, <1>6, <1>7

(* Popping an activation leaves the ones below it. *)
LEMMA PopFacts ==
  ASSUME NEW s \in Seq(Blocks), Len(s) > 0
  PROVE  /\ SubSeq(s, 1, Len(s) - 1) \in Seq(Blocks)
         /\ Len(SubSeq(s, 1, Len(s) - 1)) = Len(s) - 1
         /\ \A k \in 1 .. Len(s) - 1 : SubSeq(s, 1, Len(s) - 1)[k] = s[k]
<1> DEFINE n == Len(s) - 1
<1>1. n \in Nat /\ n \in Int /\ 1 \in Int
  OBVIOUS
<1>2. \A i \in 1 .. n : s[i] \in Blocks
  OBVIOUS
<1> HIDE DEF n
<1>3. /\ SubSeq(s, 1, n) \in Seq(Blocks)
      /\ Len(SubSeq(s, 1, n)) = IF 1 <= n THEN n - 1 + 1 ELSE 0
      /\ \A i \in 1 .. n - 1 + 1 : SubSeq(s, 1, n)[i] = s[1 + i - 1]
  BY <1>1, <1>2, SubSeqProperties
<1>4. /\ Len(SubSeq(s, 1, n)) = n
      /\ \A i \in 1 .. n : SubSeq(s, 1, n)[i] = s[i]
  BY <1>1, <1>3
<1>5. QED
  BY <1>3, <1>4 DEF n

(* An activation returns: its block gets the next number, and the block   *)
(* that called it is a predecessor with a higher one to come.             *)
LEMMA FinishBlockIInv == IInv /\ FinishBlock => IInv'
<1> SUFFICES ASSUME IInv, FinishBlock PROVE IInv'
  OBVIOUS
<1> USE DEF IInv, FinishBlock
<1> DEFINE m == Len(stack)
           n == Len(order)
<1>1. /\ stack \in Seq(Blocks) /\ m \in Nat \ {0} /\ order \in Seq(Blocks) /\ n \in Nat
      /\ bb2int \in [Pointers -> Nat] /\ visited \in SUBSET Blocks
  BY DEF TypeOK
<1>2. Top \in Blocks /\ Top \in OnStack /\ Top \notin Numbered /\ Top = stack[m]
  BY <1>1 DEF Top, OnStack, DfsInv
<1>3. /\ stack' \in Seq(Blocks)
      /\ Len(stack') = m - 1
      /\ \A k \in 1 .. m - 1 : stack'[k] = stack[k]
  BY <1>1, PopFacts
<1>4. /\ order' \in Seq(Blocks)
      /\ Len(order') = n + 1
      /\ order'[n + 1] = Top
      /\ \A k \in 1 .. n : order'[k] = order[k]
  BY <1>1, <1>2
<1>5. Numbered' = Numbered \cup {Top}
  BY <1>1, <1>4 DEF Numbered
<1>6. OnStack' = OnStack \ {Top}
  <2>1. \A k \in 1 .. m - 1 : stack[k] # Top
    BY <1>1, <1>2 DEF DfsInv
  <2>2. \A k \in 1 .. m : k \in 1 .. m - 1 \/ k = m
    BY <1>1
  <2>3. OnStack' = {stack[k] : k \in 1 .. m - 1}
    BY <1>3 DEF OnStack
  <2>4. OnStack = {stack[k] : k \in 1 .. m - 1} \cup {Top}
    BY <1>1, <1>2, <2>2 DEF OnStack
  <2>5. QED
    BY <2>1, <2>3, <2>4
<1>7. /\ bb2int'[Top] = n
      /\ \A x \in Pointers \ {Top} : bb2int'[x] = bb2int[x]
      /\ bb2int' \in [Pointers -> Nat]
  BY <1>1, <1>2 DEF Pointers
<1>8. Numbered \subseteq Pointers /\ OnStack \subseteq Pointers
  BY <1>1 DEF Numbered, OnStack, Pointers
<1>9. TypeOK'
  <2>1. at' \in -1 .. Len(order') - 1
    BY <1>1, <1>4 DEF TypeOK, sweepVars
  <2>2. stack' \in Seq(Blocks)
    BY <1>3
  <2>3. order' \in Seq(Blocks)
    BY <1>4
  <2>4. bb2int' \in [Pointers -> Nat]
    BY <1>7
  <2>5. /\ visited' = visited /\ pc' = pc /\ runs' = runs /\ cfg' = cfg
        /\ pending' = pending /\ edges' = edges /\ changed' = changed
        /\ new_idom' = new_idom /\ finger1' = finger1 /\ finger2' = finger2
        /\ join' = join /\ runner' = runner
        /\ idom' = idom /\ dom_frontier' = dom_frontier
    BY DEF sweepVars, meetVars, walkVars, blockVars
  <2>6. QED
    BY <2>1, <2>2, <2>3, <2>4, <2>5 DEF TypeOK
<1>10. DfsInv'
  <2>1. visited' = Numbered' \cup OnStack' /\ Numbered' \cap OnStack' = {}
    BY <1>2, <1>5, <1>6 DEF DfsInv
  <2>2. \A j, k \in 1 .. Len(stack') : j # k => stack'[j] # stack'[k]
    BY <1>1, <1>3 DEF DfsInv
  <2>3. stack' # <<>> => stack'[1] = Entry
    BY <1>1, <1>3 DEF DfsInv
  <2>4. stack' = <<>> => order' # <<>> /\ order'[Len(order')] = Entry
    <3>1. stack' = <<>> => m = 1
      BY <1>1, <1>3, EmptySeq
    <3>2. stack # <<>> /\ stack[1] = Entry
      BY DEF DfsInv
    <3>3. order' # <<>> /\ order'[Len(order')] = Top
      BY <1>1, <1>4, EmptySeq
    <3>4. QED
      BY <1>2, <3>1, <3>2, <3>3
  <2>5. \A k \in 1 .. Len(stack') - 1 : stack'[k + 1] \in cfg'[stack'[k]]
    <3>1. \A k \in 1 .. Len(stack') - 1 : k \in 1 .. m - 1 /\ k + 1 \in 1 .. m - 1
      BY <1>1, <1>3
    <3>2. \A k \in 1 .. m - 1 : stack[k + 1] \in cfg[stack[k]]
      BY DEF DfsInv
    <3>3. cfg' = cfg
      OBVIOUS
    <3>4. QED
      BY <1>3, <3>1, <3>2, <3>3
  <2>6. \A k \in 1 .. Len(order') : bb2int'[order'[k]] = k - 1
    <3>1. \A k \in 1 .. n : order[k] \in Numbered
      BY DEF Numbered
    <3>2. \A k \in 1 .. n : bb2int'[order[k]] = k - 1
      BY <1>2, <1>7, <1>8, <3>1 DEF DfsInv
    <3>3. \A k \in 1 .. Len(order') : k \in 1 .. n \/ k = n + 1
      BY <1>1, <1>4
    <3>4. QED
      BY <1>1, <1>4, <1>7, <3>2, <3>3
  <2>7. \A x \in Pointers : x \notin Numbered' => bb2int'[x] = 0
    BY <1>2, <1>5, <1>7 DEF DfsInv
  <2>8. \A b \in Numbered' : cfg'[b] \subseteq visited'
    BY <1>5 DEF DfsInv
  <2>9. ASSUME NEW b \in Numbered' \ {Entry}
        PROVE  \E p \in Preds(b)' :
                 p \in OnStack' \/ (p \in Numbered' /\ bb2int'[b] < bb2int'[p])
    <3>1. \A x \in Numbered : bb2int[x] < n
      BY <1>1 DEF Numbered, DfsInv
    <3>2. Preds(b)' = Preds(b)
      BY DEF Preds
    <3>3. CASE b = Top
      <4>1. m > 1
        BY <1>1, <1>2, <3>3 DEF DfsInv
      <4>2. stack[m - 1] \in OnStack' /\ b \in cfg[stack[m - 1]]
        <5>1. m - 1 \in 1 .. m - 1 /\ (m - 1) + 1 = m
          BY <1>1, <4>1
        <5>2. stack[m - 1] \in OnStack'
          BY <1>3, <5>1 DEF OnStack
        <5>3. QED
          BY <1>2, <3>3, <5>1, <5>2 DEF DfsInv
      <4>3. stack[m - 1] \in Blocks
        BY <1>1, <4>1
      <4>4. QED
        BY <1>2, <3>2, <3>3, <4>2, <4>3, GraphFacts
    <3>4. CASE b # Top
      <4>1. b \in Numbered
        BY <1>5, <3>4
      <4>2. PICK p \in Preds(b) :
              p \in OnStack \/ (p \in Numbered /\ bb2int[b] < bb2int[p])
        BY <4>1 DEF DfsInv
      <4>3. CASE p = Top
        BY <1>2, <1>5, <1>7, <1>8, <3>1, <3>2, <3>4, <4>1, <4>3
      <4>4. CASE p # Top
        BY <1>5, <1>6, <1>7, <1>8, <3>2, <3>4, <4>1, <4>2, <4>4
      <4>5. QED
        BY <4>3, <4>4
    <3>5. QED
      BY <3>3, <3>4
  <2>10. QED
    BY <2>1, <2>2, <2>3, <2>4, <2>5, <2>6, <2>7, <2>8, <2>9 DEF DfsInv
<1>11. PhaseInv' /\ NumbersInv' /\ SweepInv' /\ MeetInv' /\ ClimbInv'
  BY DEF PhaseInv, NumbersInv, SweepInv, MeetInv, ClimbInv, Computing, sweepVars
<1>12. QED
  BY <1>9, <1>10, <1>11

(* The entry's activation returns: the numbered blocks are closed under    *)
(* successors, hence all blocks.                                           *)
LEMMA InitDomsIInv == IInv /\ InitDoms => IInv'
<1> SUFFICES ASSUME IInv, InitDoms PROVE IInv'
  OBVIOUS
<1> USE DEF IInv, InitDoms
<1>1. /\ order \in Seq(Blocks) /\ Len(order) \in Nat \ {0} /\ order[Len(order)] = Entry
      /\ bb2int \in [Pointers -> Nat] /\ stack = <<>>
  BY DEF TypeOK, DfsInv
<1>2. OnStack = {} /\ Numbered \in SUBSET Blocks /\ Entry \in Numbered
  BY <1>1 DEF OnStack, Numbered
<1>3. Numbered = Blocks /\ visited = Blocks
  BY <1>2, GraphFacts DEF DfsInv
<1>4. Ordered
  <2>1. NULL \notin Numbered
    BY <1>2, GraphFacts
  <2>2. ASSUME NEW b \in Blocks \ {Entry}
        PROVE  \E p \in Preds(b) : bb2int[b] < bb2int[p]
    BY <1>2, <1>3 DEF DfsInv
  <2>3. QED
    BY <1>1, <1>3, <2>1, <2>2 DEF Ordered, DfsInv, Pointers
<1>5. RootId \in Nat /\ RootId' = RootId
  BY <1>1 DEF RootId, dfsVars, Pointers
<1>6. /\ doms' \in [0 .. RootId' -> Pointers]
      /\ doms'[RootId'] = Entry
      /\ \A n \in 0 .. RootId' - 1 : doms'[n] = NULL
  BY <1>5, GraphFacts DEF Pointers
<1>7. TypeOK'
  <2>1. at' \in -1 .. Len(order') - 1
    BY <1>1 DEF dfsVars
  <2>2. QED
    BY <1>6, <2>1 DEF TypeOK, Phases, dfsVars, meetVars, walkVars, blockVars
<1>8. NumbersInv'
  BY <1>4 DEF NumbersInv, Ordered, Numbered, Preds, dfsVars
<1>9. SweepInv'
  BY <1>6 DEF SweepInv, Computing
<1>10. PhaseInv' /\ DfsInv' /\ MeetInv' /\ ClimbInv'
  BY DEF PhaseInv, DfsInv, MeetInv, ClimbInv
<1>11. QED
  BY <1>7, <1>8, <1>9, <1>10

-----------------------------------------------------------------------------
(***************************************************************************)
(* The sweeps                                                              *)
(***************************************************************************)
LEMMA NumberingKept ==
  ASSUME Ordered, UNCHANGED <<cfg, dfsVars>>
  PROVE  Ordered'
BY DEF Ordered, Numbered, Preds, dfsVars

(* A sweep starts at the root with what the last one left.                *)
LEMMA BeginSweepIInv == IInv /\ BeginSweep => IInv'
<1> SUFFICES ASSUME IInv, BeginSweep PROVE IInv'
  OBVIOUS
<1> USE DEF IInv, BeginSweep
<1>1. Computing /\ Ordered /\ UNCHANGED <<cfg, dfsVars>>
  BY DEF Computing, NumbersInv
<1>2. NumbersInv'
  BY <1>1, NumberingKept DEF NumbersInv
<1>3. RootId = Len(order) - 1 /\ RootId \in Nat /\ RootId' = RootId
  BY <1>1, NumberFacts DEF RootId, dfsVars
<1>4. TypeOK'
  <2>1. at' \in -1 .. Len(order') - 1
    BY <1>3 DEF dfsVars
  <2>2. doms' \in [0 .. RootId' -> Pointers] /\ pc' \in Phases
    BY <1>1, <1>3 DEF TypeOK, Computing
  <2>3. QED
    BY <2>1, <2>2 DEF TypeOK, dfsVars, meetVars, walkVars, blockVars
<1>5. SweepInv'
  BY <1>1, <1>3 DEF SweepInv, Processed, Idom, dfsVars
<1>6. PhaseInv' /\ DfsInv' /\ MeetInv' /\ ClimbInv'
  BY DEF PhaseInv, DfsInv, MeetInv, ClimbInv
<1>7. QED
  BY <1>2, <1>4, <1>5, <1>6

(* The root keeps its dominator, itself.                                  *)
LEMMA SkipRootIInv == IInv /\ SkipRoot => IInv'
<1> SUFFICES ASSUME IInv, SkipRoot PROVE IInv'
  OBVIOUS
<1> USE DEF IInv, SkipRoot
<1>1. Computing /\ Ordered /\ UNCHANGED <<cfg, dfsVars>>
  BY DEF Computing, NumbersInv
<1>2. NumbersInv'
  BY <1>1, NumberingKept DEF NumbersInv
<1>3. /\ RootId = Len(order) - 1 /\ RootId \in Nat /\ RootId' = RootId
      /\ at \in 0 .. RootId /\ at = RootId
  <2>1. RootId = Len(order) - 1 /\ RootId \in Nat /\ RootId' = RootId
    BY <1>1, NumberFacts DEF RootId, dfsVars
  <2>2. at \in -1 .. Len(order) - 1
    BY DEF TypeOK
  <2>3. at \in 0 .. RootId
    BY <2>1, <2>2
  <2>4. bb2int[BlockAt(at)] = at
    BY <1>1, <2>3, NumberFacts
  <2>5. QED
    BY <2>1, <2>3, <2>4 DEF RootId
<1>4. TypeOK'
  <2>1. at' \in -1 .. Len(order') - 1
    BY <1>3 DEF dfsVars
  <2>2. doms' \in [0 .. RootId' -> Pointers] /\ pc' \in Phases
    BY <1>1, <1>3 DEF TypeOK, Computing
  <2>3. QED
    BY <2>1, <2>2 DEF TypeOK, dfsVars, meetVars, walkVars, blockVars
<1>5. SweepInv'
  <2>1. doms[RootId] # NULL
    BY <1>1, GraphFacts DEF SweepInv
  <2>2. \A n \in 0 .. RootId : at' < n => doms[n] # NULL
    BY <1>3, <2>1
  <2>3. QED
    BY <1>1, <1>3, <2>2 DEF SweepInv, Processed, Idom, dfsVars
<1>6. PhaseInv' /\ DfsInv' /\ MeetInv' /\ ClimbInv'
  BY DEF PhaseInv, DfsInv, MeetInv, ClimbInv
<1>7. QED
  BY <1>2, <1>4, <1>5, <1>6

(* Where the sweep is, the block has a processed predecessor: the one      *)
(* numbered above it.                                                      *)
LEMMA ProcessedPredecessor ==
  ASSUME IInv, Computing, at # -1, BlockAt(at) # Entry
  PROVE  /\ at \in 0 .. RootId - 1
         /\ BlockAt(at) \in Blocks /\ bb2int[BlockAt(at)] = at
         /\ \E p \in Preds(BlockAt(at)) : Processed(p) /\ at < bb2int[p]
<1> USE DEF IInv
<1>1. /\ RootId = Len(order) - 1 /\ RootId \in Nat /\ BlockAt(RootId) = Entry
      /\ \A n \in 0 .. RootId : BlockAt(n) \in Blocks /\ bb2int[BlockAt(n)] = n
      /\ \A x \in Pointers : bb2int[x] \in 0 .. RootId
  BY NumberFacts
<1>2. at \in 0 .. RootId - 1 /\ BlockAt(at) \in Blocks /\ bb2int[BlockAt(at)] = at
  <2>1. at \in -1 .. Len(order) - 1
    BY DEF TypeOK
  <2>2. at \in 0 .. RootId /\ at # RootId
    BY <1>1, <2>1
  <2>3. QED
    BY <1>1, <2>2
<1>3. PICK p \in Preds(BlockAt(at)) : at < bb2int[p]
  BY <1>2 DEF NumbersInv, Ordered
<1>4. bb2int[p] \in 0 .. RootId
  BY <1>1, GraphFacts DEF Pointers
<1>5. Processed(p)
  BY <1>2, <1>3, <1>4 DEF SweepInv, Processed, Idom
<1>6. QED
  BY <1>2, <1>3, <1>5

(* The meet starts with a predecessor that has a dominator.               *)
LEMMA BeginMeetIInv == IInv /\ BeginMeet => IInv'
<1> SUFFICES ASSUME IInv, BeginMeet PROVE IInv'
  OBVIOUS
<1> USE DEF IInv, BeginMeet
<1>1. Computing /\ Ordered /\ UNCHANGED <<cfg, dfsVars, sweepVars>>
  BY DEF Computing, NumbersInv
<1>2. NumbersInv'
  BY <1>1, NumberingKept DEF NumbersInv
<1>3. /\ pending' \in SUBSET Blocks /\ pending' # {}
      /\ new_idom' \in pending'
      /\ \A p \in Preds(BlockAt(at)) : Processed(p) => p \in pending'
      /\ \A p \in pending' : Processed(p)
  BY <1>1, ProcessedPredecessor, GraphFacts
<1>4. TypeOK'
  BY <1>3 DEF TypeOK, dfsVars, sweepVars, walkVars, blockVars, RootId, Phases, Pointers
<1>5. SweepInv'
  BY <1>1 DEF SweepInv, Processed, Idom, dfsVars, sweepVars, RootId
<1>6. MeetInv'
  BY <1>3 DEF MeetInv, Processed, Idom, Preds, BlockAt, dfsVars, sweepVars
<1>7. PhaseInv' /\ DfsInv' /\ ClimbInv'
  BY DEF PhaseInv, DfsInv, ClimbInv, BlockAt, sweepVars, dfsVars
<1>8. QED
  BY <1>2, <1>4, <1>5, <1>6, <1>7

(* The recorded dominator is numbered above the block, because the tree    *)
(* predecessor is and new_idom has been intersected with it.               *)
LEMMA StoreIdomIInv == IInv /\ StoreIdom => IInv'
<1> SUFFICES ASSUME IInv, StoreIdom PROVE IInv'
  OBVIOUS
<1> USE DEF IInv, StoreIdom
<1>1. Computing /\ Ordered /\ UNCHANGED <<cfg, dfsVars>>
  BY DEF Computing, NumbersInv
<1>2. NumbersInv'
  BY <1>1, NumberingKept DEF NumbersInv
<1>3. /\ at \in 0 .. RootId - 1 /\ bb2int[BlockAt(at)] = at
      /\ \E p \in Preds(BlockAt(at)) : Processed(p) /\ at < bb2int[p]
  BY <1>1, ProcessedPredecessor DEF PhaseInv
<1>4. /\ RootId = Len(order) - 1 /\ RootId \in Nat /\ RootId' = RootId
      /\ \A x \in Pointers : bb2int[x] \in 0 .. RootId
  BY <1>1, NumberFacts DEF RootId, dfsVars
<1>5. new_idom \in Blocks /\ Processed(new_idom) /\ at < bb2int[new_idom]
  <2>1. PICK p \in Preds(BlockAt(at)) : Processed(p) /\ at < bb2int[p]
    BY <1>3
  <2>2. bb2int[p] <= bb2int[new_idom] /\ new_idom \in Blocks /\ Processed(new_idom)
    BY <2>1 DEF MeetInv
  <2>3. bb2int[p] \in 0 .. RootId /\ bb2int[new_idom] \in 0 .. RootId
    BY <1>4, <2>2, GraphFacts DEF Pointers
  <2>4. QED
    BY <1>3, <1>4, <2>1, <2>2, <2>3
<1>6. doms \in [0 .. RootId -> Pointers]
  BY <1>1 DEF TypeOK, Computing
<1>7. /\ doms' \in [0 .. RootId -> Pointers]
      /\ doms'[at] = new_idom
      /\ \A n \in 0 .. RootId : n # at => doms'[n] = doms[n]
  BY <1>3, <1>4, <1>5, <1>6 DEF Idom, Pointers
<1>8. TypeOK'
  <2>1. at' \in -1 .. Len(order') - 1
    BY <1>3, <1>4 DEF dfsVars
  <2>2. doms' \in [0 .. RootId' -> Pointers] /\ changed' \in BOOLEAN
    BY <1>4, <1>7 DEF TypeOK
  <2>3. QED
    BY <2>1, <2>2 DEF TypeOK, dfsVars, meetVars, walkVars, blockVars, Phases
<1>9. SweepInv'
  <2>1. doms'[RootId'] = Entry
    BY <1>1, <1>3, <1>4, <1>7 DEF SweepInv
  <2>2. \A n \in 0 .. RootId : doms[n] # NULL => doms'[n] # NULL
    BY <1>5, <1>7, GraphFacts
  <2>3. ASSUME NEW n \in 0 .. RootId' - 1, doms'[n] # NULL
        PROVE  n < bb2int'[doms'[n]] /\ doms'[bb2int'[doms'[n]]] # NULL
    <3>1. CASE n = at
      <4>1. bb2int[new_idom] \in 0 .. RootId
        BY <1>4, <1>5 DEF Pointers
      <4>2. doms'[bb2int[new_idom]] # NULL
        BY <1>5, <2>2, <4>1 DEF Processed, Idom
      <4>3. doms'[n] = new_idom /\ bb2int' = bb2int
        BY <1>7, <3>1 DEF dfsVars
      <4>4. QED
        BY <1>5, <3>1, <4>2, <4>3 DEF Processed, Idom
    <3>2. CASE n # at
      <4>1. doms'[n] = doms[n] /\ n \in 0 .. RootId - 1
        BY <1>4, <1>7, <3>2
      <4>2. n < bb2int[doms[n]] /\ Processed(doms[n])
        BY <1>1, <2>3, <4>1 DEF SweepInv
      <4>3. bb2int[doms[n]] \in 0 .. RootId
        BY <1>4, <1>6, <4>1
      <4>4. doms'[bb2int[doms[n]]] # NULL
        BY <2>2, <4>2, <4>3 DEF Processed, Idom
      <4>5. bb2int' = bb2int
        BY DEF dfsVars
      <4>6. QED
        BY <4>1, <4>2, <4>4, <4>5 DEF Processed, Idom
    <3>3. QED
      BY <3>1, <3>2
  <2>4. \A n \in 0 .. RootId : at' < n => doms'[n] # NULL
    <3>1. \A n \in 0 .. RootId : at < n => doms[n] # NULL
      BY <1>1 DEF SweepInv
    <3>2. doms'[at] # NULL
      BY <1>5, <1>7, GraphFacts
    <3>3. \A n \in 0 .. RootId : at' < n => n = at \/ at < n
      BY <1>3, <1>4
    <3>4. QED
      BY <2>2, <3>1, <3>2, <3>3
  <2>5. QED
    BY <1>4, <2>1, <2>3, <2>4 DEF SweepInv, Processed, Idom
<1>10. PhaseInv' /\ DfsInv' /\ MeetInv' /\ ClimbInv'
  BY DEF PhaseInv, DfsInv, MeetInv, ClimbInv
<1>11. QED
  BY <1>2, <1>8, <1>9, <1>10

-----------------------------------------------------------------------------
(***************************************************************************)
(* intersect: the fingers stay on processed blocks, and at or above the    *)
(* predecessor and the new_idom they started from                          *)
(***************************************************************************)
(* What an action that leaves the numbering and the sweep alone preserves. *)
LEMMA SweepKept ==
  ASSUME IInv, Computing, pc' \in {"meet", "climb"},
         UNCHANGED <<cfg, runs, dfsVars, sweepVars, walkVars, blockVars>>,
         pc \in {"meet", "climb"},
         pending' \in SUBSET Blocks, {new_idom', finger1', finger2'} \subseteq Pointers
  PROVE  TypeOK' /\ PhaseInv' /\ DfsInv' /\ NumbersInv' /\ SweepInv'
<1> USE DEF IInv
<1>1. NumbersInv'
  BY NumberingKept DEF NumbersInv
<1>2. TypeOK'
  BY DEF TypeOK, dfsVars, sweepVars, walkVars, blockVars, RootId, Phases
<1>3. SweepInv'
  BY DEF SweepInv, Processed, Idom, dfsVars, sweepVars, RootId
<1>4. PhaseInv' /\ DfsInv'
  BY DEF PhaseInv, DfsInv, BlockAt, sweepVars, dfsVars
<1>5. QED
  BY <1>1, <1>2, <1>3, <1>4

(* Both fingers start on processed blocks.                                *)
LEMMA BeginIntersectIInv == ASSUME NEW p \in Blocks PROVE IInv /\ BeginIntersect(p) => IInv'
<1> SUFFICES ASSUME IInv, BeginIntersect(p) PROVE IInv'
  OBVIOUS
<1> USE DEF IInv, BeginIntersect
<1>1. Computing
  BY DEF Computing
<1>2. new_idom \in Blocks /\ Processed(new_idom) /\ Processed(p)
  BY DEF MeetInv
<1>3. TypeOK' /\ PhaseInv' /\ DfsInv' /\ NumbersInv' /\ SweepInv'
  BY <1>1, <1>2, SweepKept DEF TypeOK, Pointers
<1>4. bb2int[p] \in Nat /\ bb2int[new_idom] \in Nat
  BY <1>2 DEF TypeOK, Pointers
<1>5. MeetInv'
  <2>1. ASSUME NEW q \in Preds(BlockAt(at)), Processed(q)
        PROVE  \/ q \in pending'
               \/ bb2int[q] <= bb2int[new_idom]
               \/ bb2int[q] <= bb2int[finger1']
    BY <1>4, <2>1 DEF MeetInv
  <2>2. QED
    BY <1>2, <2>1 DEF MeetInv, Processed, Idom, Preds, BlockAt, dfsVars, sweepVars
<1>6. ClimbInv'
  BY <1>2, <1>4 DEF ClimbInv, Processed, Idom, dfsVars, sweepVars
<1>7. QED
  BY <1>3, <1>5, <1>6

(* The lower finger climbs and does not pass the root.                    *)
LEMMA Climb1IInv == IInv /\ Climb1 => IInv'
<1> SUFFICES ASSUME IInv, Climb1 PROVE IInv'
  OBVIOUS
<1> USE DEF IInv, Climb1
<1>1. Computing
  BY DEF Computing
<1>2. /\ finger1' \in Blocks /\ Processed(finger1')
      /\ bb2int[finger1'] >= bb2int[finger1]
  BY <1>1, ClimbFacts DEF ClimbInv
<1>3. TypeOK' /\ PhaseInv' /\ DfsInv' /\ NumbersInv' /\ SweepInv'
  BY <1>1, <1>2, SweepKept DEF TypeOK, Pointers
<1>4. bb2int[finger1] \in Nat /\ bb2int[finger1'] \in Nat
  BY <1>2 DEF TypeOK, Pointers, ClimbInv
<1>5. MeetInv'
  <2>1. ASSUME NEW q \in Preds(BlockAt(at)), Processed(q)
        PROVE  \/ q \in pending'
               \/ bb2int[q] <= bb2int[new_idom]
               \/ bb2int[q] <= bb2int[finger1']
    <3>1. bb2int[q] \in Nat
      BY GraphFacts DEF TypeOK, Pointers
    <3>2. QED
      BY <1>2, <1>4, <2>1, <3>1 DEF MeetInv
  <2>2. QED
    BY <2>1 DEF MeetInv, Processed, Idom, Preds, BlockAt, dfsVars, sweepVars
<1>6. ClimbInv'
  BY <1>2 DEF ClimbInv, Processed, Idom, dfsVars, sweepVars
<1>7. QED
  BY <1>3, <1>5, <1>6

(* The same for the other finger.                                         *)
LEMMA Climb2IInv == IInv /\ Climb2 => IInv'
<1> SUFFICES ASSUME IInv, Climb2 PROVE IInv'
  OBVIOUS
<1> USE DEF IInv, Climb2
<1>1. Computing
  BY DEF Computing
<1>2. /\ finger2' \in Blocks /\ Processed(finger2')
      /\ bb2int[finger2'] >= bb2int[finger2]
  BY <1>1, ClimbFacts DEF ClimbInv
<1>3. TypeOK' /\ PhaseInv' /\ DfsInv' /\ NumbersInv' /\ SweepInv'
  BY <1>1, <1>2, SweepKept DEF TypeOK, Pointers
<1>4. bb2int[finger2] \in Nat /\ bb2int[finger2'] \in Nat /\ bb2int[new_idom] \in Nat
  BY <1>2 DEF TypeOK, Pointers, ClimbInv, MeetInv
<1>5. MeetInv'
  BY DEF MeetInv, Processed, Idom, Preds, BlockAt, dfsVars, sweepVars
<1>6. ClimbInv'
  BY <1>2, <1>4 DEF ClimbInv, Processed, Idom, dfsVars, sweepVars
<1>7. QED
  BY <1>3, <1>5, <1>6

(* Where the fingers meet is as high as both of them.                     *)
LEMMA EndIntersectIInv == IInv /\ EndIntersect => IInv'
<1> SUFFICES ASSUME IInv, EndIntersect PROVE IInv'
  OBVIOUS
<1> USE DEF IInv, EndIntersect
<1>1. Computing
  BY DEF Computing
<1>2. /\ new_idom' \in Blocks /\ Processed(new_idom')
      /\ bb2int[new_idom] <= bb2int[new_idom']
  BY DEF ClimbInv
<1>3. TypeOK' /\ PhaseInv' /\ DfsInv' /\ NumbersInv' /\ SweepInv'
  BY <1>1, <1>2, SweepKept DEF TypeOK, Pointers
<1>4. bb2int[new_idom] \in Nat /\ bb2int[new_idom'] \in Nat
  BY <1>2 DEF TypeOK, Pointers, MeetInv
<1>5. MeetInv'
  <2>1. ASSUME NEW q \in Preds(BlockAt(at)), Processed(q)
        PROVE  q \in pending' \/ bb2int[q] <= bb2int[new_idom']
    <3>1. bb2int[q] \in Nat
      BY GraphFacts DEF TypeOK, Pointers
    <3>2. QED
      BY <1>2, <1>4, <2>1, <3>1 DEF MeetInv
  <2>2. QED
    BY <1>2, <2>1 DEF MeetInv, Processed, Idom, Preds, BlockAt, dfsVars, sweepVars
<1>6. ClimbInv'
  BY DEF ClimbInv
<1>7. QED
  BY <1>3, <1>5, <1>6

-----------------------------------------------------------------------------
(***************************************************************************)
(* Publishing the dominators and walking the frontiers                     *)
(***************************************************************************)
WalkPhases == {"front", "walk", "done", "start"}

(* The walks leave the numbering and doms alone. *)
LEMMA WalkKeeps ==
  ASSUME IInv, Computing, pc' \in WalkPhases, at = -1,
         pc' = "start" => runs < MaxRuns,
         pc # "sweep" \/ ~ changed,
         pc' = "walk" => join' \in Blocks /\ runner' \in Blocks,
         UNCHANGED <<cfg, runs, dfsVars, sweepVars, meetVars>>,
         edges' \in SUBSET (Blocks \X Blocks), {join', runner'} \subseteq Pointers,
         idom' \in [Blocks -> Pointers], dom_frontier' \in [Blocks -> SUBSET Blocks]
  PROVE  IInv'
<1> USE DEF IInv, WalkPhases
<1>1. NumbersInv'
  BY NumberingKept DEF NumbersInv
<1>2. TypeOK'
  BY DEF TypeOK, Computing, dfsVars, sweepVars, meetVars, RootId, Phases
<1>3. SweepInv'
  BY DEF SweepInv, Processed, Idom, dfsVars, sweepVars, RootId
<1>4. PhaseInv' /\ DfsInv' /\ MeetInv' /\ ClimbInv'
  BY DEF PhaseInv, DfsInv, MeetInv, ClimbInv, sweepVars
<1>5. QED
  BY <1>1, <1>2, <1>3, <1>4

(* doms[bb2int[x]] is a lookup within doms for every pointer. *)
LEMMA LookupType ==
  ASSUME IInv, Computing, NEW x \in Pointers
  PROVE  Idom(x) \in Pointers
BY NumberFacts DEF IInv, TypeOK, Computing, Idom

(* When the sweeps are over, every block has its dominator. *)
LEMMA AllProcessed ==
  ASSUME IInv, Computing, at = -1, pc # "sweep" \/ ~ changed, NEW b \in Blocks
  PROVE  Processed(b)
<1>1. bb2int[b] \in 0 .. RootId /\ at < bb2int[b]
  BY NumberFacts DEF IInv, Pointers
<1>2. QED
  BY <1>1 DEF IInv, SweepInv, Processed, Idom

(* Dominators are copied to the blocks; numbering and doms stay.          *)
LEMMA PublishIdomsIInv == IInv /\ PublishIdoms => IInv'
<1> SUFFICES ASSUME IInv, PublishIdoms PROVE IInv'
  OBVIOUS
<1> USE DEF IInv, PublishIdoms
<1>1. Computing
  BY DEF Computing
<1>2. idom' \in [Blocks -> Pointers]
  BY <1>1, LookupType DEF TypeOK, Pointers
<1>3. edges' \in SUBSET (Blocks \X Blocks)
  OBVIOUS
<1>4. QED
  BY <1>1, <1>2, <1>3, WalkKeeps DEF TypeOK, WalkPhases

(* A walk starts at a predecessor of a join.                              *)
LEMMA BeginWalkIInv ==
  ASSUME NEW p \in Blocks, NEW b \in Blocks
  PROVE  IInv /\ BeginWalk(p, b) => IInv'
<1> SUFFICES ASSUME IInv, BeginWalk(p, b) PROVE IInv'
  OBVIOUS
<1>1. Computing /\ at = -1
  BY DEF Computing, BeginWalk, IInv, PhaseInv
<1>2. QED
  BY <1>1, WalkKeeps DEF BeginWalk, IInv, TypeOK, WalkPhases, Pointers, blockVars

(* The runner climbs from a processed block to another one.               *)
LEMMA AddFrontierIInv == IInv /\ AddFrontier => IInv'
<1> SUFFICES ASSUME IInv, AddFrontier PROVE IInv'
  OBVIOUS
<1>1. Computing /\ at = -1
  BY DEF Computing, AddFrontier, IInv, PhaseInv
<1>2. join \in Blocks /\ runner \in Blocks
  BY DEF AddFrontier, IInv, PhaseInv
<1>3. runner' \in Blocks
  <2>1. runner \in Blocks /\ Processed(runner)
    BY <1>1, <1>2, AllProcessed DEF AddFrontier
  <2>2. QED
    BY <1>1, <2>1, ClimbFacts DEF AddFrontier, IInv
<1>4. dom_frontier' \in [Blocks -> SUBSET Blocks]
  BY <1>2 DEF AddFrontier, IInv, TypeOK
<1>5. QED
  BY <1>1, <1>2, <1>3, <1>4, WalkKeeps DEF AddFrontier, IInv, TypeOK, WalkPhases, Pointers

(* Ends of walks and executions change no data of the computation.        *)
LEMMA EndWalkIInv == IInv /\ (EndWalk \/ Finish \/ RunAgain) => IInv'
<1> SUFFICES ASSUME IInv, EndWalk \/ Finish \/ RunAgain PROVE IInv'
  OBVIOUS
<1>1. Computing /\ at = -1
  BY DEF Computing, EndWalk, Finish, RunAgain, IInv, PhaseInv
<1>2. QED
  BY <1>1, WalkKeeps
  DEF EndWalk, Finish, RunAgain, IInv, TypeOK, WalkPhases, walkVars, blockVars

-----------------------------------------------------------------------------
(***************************************************************************)
(* The theorems                                                            *)
(***************************************************************************)
LEMMA StutterIInv == IInv /\ UNCHANGED vars => IInv'
<1> SUFFICES ASSUME IInv, UNCHANGED vars PROVE IInv'
  OBVIOUS
<1> USE DEF IInv, vars, dfsVars, sweepVars, meetVars, walkVars, blockVars
<1>1. TypeOK'
  BY DEF TypeOK, RootId
<1>2. PhaseInv' /\ DfsInv'
  <2>1. Numbered' = Numbered /\ OnStack' = OnStack /\ \A b : Preds(b)' = Preds(b)
    BY DEF Numbered, OnStack, Preds
  <2>2. DfsInv'
    BY <2>1 DEF DfsInv, Preds
  <2>3. QED
    BY <2>2 DEF PhaseInv, BlockAt
<1>3. NumbersInv' /\ SweepInv'
  BY DEF NumbersInv, Ordered, Numbered, Preds, Computing, SweepInv, Processed, Idom, RootId
<1>4. MeetInv' /\ ClimbInv'
  BY DEF MeetInv, ClimbInv, Processed, Idom, Preds, BlockAt
<1>5. QED
  BY <1>1, <1>2, <1>3, <1>4

(* One case per action.                                                   *)
LEMMA NextIInv == IInv /\ [Next]_vars => IInv'
<1> SUFFICES ASSUME IInv, [Next]_vars PROVE IInv'
  OBVIOUS
<1>1. CASE BeginFunction
  BY <1>1, BeginFunctionIInv
<1>2. CASE PostOrder
  BY <1>2, VisitChildIInv, FinishBlockIInv DEF PostOrder
<1>3. CASE Sweep
  BY <1>3, InitDomsIInv, BeginSweepIInv, SkipRootIInv, BeginMeetIInv, StoreIdomIInv,
     PublishIdomsIInv DEF Sweep
<1>4. CASE Intersect
  BY <1>4, BeginIntersectIInv, Climb1IInv, Climb2IInv, EndIntersectIInv DEF Intersect
<1>5. CASE Frontier
  BY <1>5, BeginWalkIInv, AddFrontierIInv, EndWalkIInv DEF Frontier
<1>6. CASE RunAgain
  BY <1>6, EndWalkIInv
<1>7. CASE UNCHANGED vars
  BY <1>7, StutterIInv
<1>8. QED
  BY <1>1, <1>2, <1>3, <1>4, <1>5, <1>6, <1>7 DEF Next

(* The invariant is inductive, so every reachable state satisfies it. *)
THEOREM InductiveInvariant == Spec => []IInv
<1>1. Init => IInv
  BY InitIInv
<1>2. IInv /\ [Next]_vars => IInv'
  BY NextIInv
<1>3. QED
  BY <1>1, <1>2, PTL DEF Spec

(* Every variable of the pass stays within its type; in particular the     *)
(* indices into doms and reverse_post_order stay in range.                 *)
THEOREM TypeCorrect == Spec => []TypeOK
<1>1. IInv => TypeOK
  BY DEF IInv
<1>2. QED
  BY <1>1, InductiveInvariant, PTL

(* The numbering get_post_order leaves is one to one, with the entry at    *)
(* the top and for every other block a predecessor above it.               *)
THEOREM PostOrderCorrect == Spec => []PostOrderNumbers
<1>1. IInv => PostOrderNumbers
  <2> SUFFICES ASSUME IInv, Computing
               PROVE  /\ \A b, c \in Blocks : b # c => bb2int[b] # bb2int[c]
                      /\ \A b \in Blocks \ {Entry} :
                           /\ bb2int[b] < RootId
                           /\ \E p \in Preds(b) : bb2int[b] < bb2int[p]
    BY DEF PostOrderNumbers
  <2>1. /\ \A b \in Blocks : BlockAt(bb2int[b]) = b /\ bb2int[b] \in 0 .. RootId
        /\ BlockAt(RootId) = Entry /\ RootId \in Nat
    BY NumberFacts DEF IInv, Pointers
  <2>2. \A b, c \in Blocks : b # c => bb2int[b] # bb2int[c]
    BY <2>1
  <2>3. ASSUME NEW b \in Blocks \ {Entry} PROVE bb2int[b] < RootId
    <3>1. bb2int[b] # RootId
      BY <2>1
    <3>2. QED
      BY <2>1, <3>1
  <2>4. QED
    BY <2>2, <2>3 DEF IInv, NumbersInv, Ordered
<1>2. QED
  BY <1>1, InductiveInvariant, PTL

(* Every climb along doms goes up in the postorder and ends at the root.   *)
THEOREM DomsAlwaysAscend == Spec => []DomsAscend
<1>1. IInv => DomsAscend
  <2> SUFFICES ASSUME IInv, Computing
               PROVE  /\ Idom(Entry) = Entry
                      /\ \A b \in Blocks \ {Entry} :
                           Processed(b) => bb2int[b] < bb2int[Idom(b)]
    BY DEF DomsAscend
  <2>1. Idom(Entry) = Entry
    BY DEF IInv, SweepInv, Idom, RootId
  <2>2. QED
    BY <2>1, ClimbFacts DEF IInv
<1>2. QED
  BY <1>1, InductiveInvariant, PTL

(* intersect never dereferences the null pointer, on any graph. *)
THEOREM IntersectSafe == Spec => []IntersectStaysOnBlocks
<1>1. IInv => IntersectStaysOnBlocks
  BY DEF IInv, ClimbInv, IntersectStaysOnBlocks
<1>2. QED
  BY <1>1, InductiveInvariant, PTL

-----------------------------------------------------------------------------
(***************************************************************************)
(* That the pass computes what it is for, on every graph and in every      *)
(* execution: the frontiers it leaves are the dominance frontiers, idom_   *)
(* is the immediate dominator, and the candidates that doms stands for go  *)
(* from all blocks to the dominators without ever losing one               *)
(* (DominanceSpec).                                                        *)
(*                                                                         *)
(* ExactInv adds to the invariant above what DominatorTheory says of a     *)
(* tree of dominators on its way to the fixpoint: TreeInv of doms,         *)
(* StableInv of the current sweep, VisitInv of the block at hand and the   *)
(* two fingers, WalkInv and FrontierSound of get_bb_dom_front.             *)
(***************************************************************************)
T == INSTANCE DominatorTheory WITH Root <- Entry

(* The dominators recorded by now, as a function of the block. *)
Tree == [b \in Blocks |-> Idom(b)]

(* The words of the theory in the terms of the pass. *)
TreeWords ==
  /\ T!Numbered(cfg, bb2int) /\ T!Rooted(cfg)
  /\ \A b \in Blocks : /\ Tree[b] = Idom(b)
                       /\ T!Settled(Tree, b) <=> Processed(b)
                       /\ Chain(b) = T!Ancestors(Tree, b)
                       /\ Preds(b) = T!Preds(cfg, b)

(* What the theory asks of doms, at every step of the computation. *)
TreeInv == Computing => T!SweepInvariant(cfg, Tree, bb2int, at)

StableInv ==
  /\ Computing /\ ~ changed => T!Stable(cfg, Tree, bb2int, at)
  /\ pc \in {"front", "walk", "done"} => ~ changed

(* The block at hand, its new_idom and the fingers: none has gone too      *)
(* high, and each predecessor met so far has new_idom, or the finger that  *)
(* started from it, on its chain.                                          *)
VisitInv ==
  /\ pc \in {"meet", "climb"} =>
       /\ pending \subseteq Preds(BlockAt(at))
       /\ T!NotTooHigh(cfg, Tree, BlockAt(at), new_idom)
       /\ \A p \in Preds(BlockAt(at)) :
            Processed(p) => \/ p \in pending
                            \/ new_idom \in T!Ancestors(Tree, p)
                            \/ pc = "climb" /\ finger1 \in T!Ancestors(Tree, p)
  /\ pc = "climb" =>
       /\ T!NotTooHigh(cfg, Tree, BlockAt(at), finger1)
       /\ T!NotTooHigh(cfg, Tree, BlockAt(at), finger2)
       /\ finger2 \in T!Ancestors(Tree, new_idom)

(* The frontier sets never hold a block that does not belong there ...     *)
FrontierSound ==
  \A b \in Blocks : dom_frontier[b] \subseteq Dom!DominanceFrontier(cfg, b)

(* ... and the walk for the edge <<p, b>> has left b with every block of   *)
(* p's chain below top.                                                    *)
Walked(p, b, top) ==
  \A x \in T!Ancestors(Tree, p) : x \notin T!Ancestors(Tree, top) => b \in dom_frontier[x]

WalkInv ==
  /\ pc \in {"front", "walk", "done"} =>
       \A b \in Blocks : \A p, q \in Preds(b) :
         p # q => \/ <<p, b>> \in edges
                  \/ Walked(p, b, Idom(b))
                  \/ pc = "walk" /\ join = b /\ Walked(p, b, runner)
  /\ pc \in {"front", "walk"} => \A e \in edges : e[2] \in cfg[e[1]]
  /\ pc = "walk" =>
       /\ Idom(join) \in T!Ancestors(Tree, runner)
       /\ \E p \in Preds(join) : runner \in T!Ancestors(Tree, p)
  /\ pc = "done" => edges = {}

ExactInv == TreeInv /\ StableInv /\ VisitInv /\ FrontierSound /\ WalkInv

(* doms read as a tree: the number of a block and the block itself are as  *)
(* good as one another.                                                    *)
LEMMA TreeFacts == IInv /\ Computing => TreeWords
<1> SUFFICES ASSUME IInv, Computing PROVE TreeWords
  OBVIOUS
<1> USE DEF IInv
<1>1. \A b \in Blocks : bb2int[b] \in 0 .. RootId /\ BlockAt(bb2int[b]) = b
  BY NumberFacts DEF Pointers
<1>2. T!Numbering(bb2int)
  BY <1>1 DEF T!Numbering, TypeOK, Pointers
<1>3. T!Numbered(cfg, bb2int) /\ T!Rooted(cfg)
  BY <1>2, GraphAssumption
  DEF T!Numbered, T!Graphs, T!Preds, T!Rooted, T!Closed, TypeOK, NumbersInv, Ordered,
      Preds, Dom!Graphs, Dom!Preds, Dom!Rooted, Dom!Closed
<1>4. \A b \in Blocks : Tree[b] = Idom(b) /\ (T!Settled(Tree, b) <=> Processed(b))
  BY LookupType, GraphFacts DEF Tree, T!Settled, Processed, Pointers
<1>5. \A b \in Blocks : Chain(b) = T!Ancestors(Tree, b)
  BY <1>4 DEF Chain, T!Ancestors
<1>6. QED
  BY <1>3, <1>4, <1>5 DEF TreeWords, Preds, Dom!Preds, T!Preds

(* The same after a step. *)
LEMMA TreeFactsNext == (IInv /\ Computing => TreeWords)'
BY TreeFacts, PTL

(* The tree depends on doms and the numbers alone. *)
LEMMA TreeKept ==
  ASSUME UNCHANGED <<doms, bb2int>>
  PROVE  Tree' = Tree /\ \A x : Idom(x)' = Idom(x) /\ (Processed(x)' <=> Processed(x))
BY DEF Tree, Idom, Processed

(* The root has the highest number, and no other block has it. *)
RootHighest ==
  /\ RootId \in Nat /\ RootId = Len(order) - 1 /\ bb2int[Entry] = RootId
  /\ \A b \in Blocks : bb2int[b] \in 0 .. RootId /\ (b # Entry => bb2int[b] < RootId)

(* The entry is numbered last, so it is visited first. *)
LEMMA RootFacts == IInv /\ Computing => RootHighest
<1> SUFFICES ASSUME IInv, Computing PROVE RootHighest
  OBVIOUS
<1>1. /\ RootId \in Nat /\ RootId = Len(order) - 1 /\ bb2int[Entry] = RootId
      /\ BlockAt(RootId) = Entry
      /\ \A b \in Blocks : bb2int[b] \in 0 .. RootId /\ BlockAt(bb2int[b]) = b
  BY NumberFacts DEF IInv, Pointers, RootId
<1>2. ASSUME NEW b \in Blocks, b # Entry PROVE bb2int[b] < RootId
  <2>1. bb2int[b] # RootId
    BY <1>1, <1>2
  <2>2. QED
    BY <1>1, <2>1
<1>3. QED
  BY <1>1, <1>2 DEF RootHighest

(* The same after a step. *)
LEMMA RootFactsNext == (IInv /\ Computing => RootHighest)'
BY RootFacts, PTL

-----------------------------------------------------------------------------
(***************************************************************************)
(* The numbering, and the sweeps                                           *)
(***************************************************************************)
LEMMA InitExact == Init => ExactInv
BY DEF Init, ExactInv, TreeInv, StableInv, VisitInv, FrontierSound, WalkInv, Computing

(* While get_post_order runs, only the frontiers of earlier executions     *)
(* are there to speak of.                                                  *)
LEMMA NumberingExact ==
  ASSUME NEW c \in Blocks
  PROVE  IInv /\ ExactInv /\ (BeginFunction \/ VisitChild(c) \/ FinishBlock) => ExactInv'
<1> SUFFICES ASSUME IInv, ExactInv, BeginFunction \/ VisitChild(c) \/ FinishBlock
             PROVE  ExactInv'
  OBVIOUS
<1>1. pc' = "dfs" /\ UNCHANGED <<cfg, dom_frontier>>
  BY DEF BeginFunction, VisitChild, FinishBlock, blockVars
<1>2. FrontierSound'
  BY <1>1 DEF ExactInv, FrontierSound
<1>3. QED
  BY <1>1, <1>2 DEF ExactInv, TreeInv, StableInv, VisitInv, WalkInv, Computing

(* At the start only the root is settled. *)
LEMMA InitDomsExact == IInv /\ ExactInv /\ InitDoms => ExactInv'
<1> SUFFICES ASSUME IInv, ExactInv, InitDoms PROVE ExactInv'
  OBVIOUS
<1> USE DEF InitDoms
<1>1. IInv' /\ Computing'
  BY InitDomsIInv DEF Computing
<1>2. TreeWords'
  BY <1>1, TreeFactsNext
<1>3. /\ \A b \in Blocks : bb2int'[b] \in 0 .. RootId' /\ (bb2int'[b] = RootId' <=> b = Entry)
      /\ RootId' = RootId /\ RootId \in Nat /\ Entry \in Blocks /\ NULL \notin Blocks
  <2>1. RootHighest'
    BY <1>1, RootFactsNext
  <2>2. RootId' = RootId
    BY DEF RootId, dfsVars
  <2>3. RootId \in Nat /\ Entry \in Blocks /\ NULL \notin Blocks
    BY GraphFacts DEF IInv, TypeOK, RootId, Pointers
  <2>4. QED
    BY <2>1, <2>2, <2>3 DEF RootHighest
<1>4. \A b \in Blocks : Tree'[b] = IF b = Entry THEN Entry ELSE NULL
  BY <1>3 DEF Tree, Idom
<1>5. \A b \in Blocks : T!Settled(Tree', b) <=> b = Entry
  BY <1>3, <1>4 DEF T!Settled
<1>6. T!Ascends(Tree', bb2int')
  BY <1>4, <1>5 DEF T!Ascends
<1>7. T!RootOnChains(Tree')
  BY <1>5, T!AncestorsLeast DEF T!RootOnChains
<1>8. T!SettledFirst(Tree', bb2int')
  <2>1. ASSUME NEW x \in Blocks PROVE ~ (bb2int'[Entry] < bb2int'[x])
    BY <1>3
  <2>2. QED
    BY <1>5, <2>1 DEF T!SettledFirst
<1>9. T!NoneSkipped(cfg', Tree') /\ T!NoneTooShort(cfg', Tree')
      /\ T!AgreesAhead(cfg', Tree', bb2int', at')
  BY <1>5 DEF T!NoneSkipped, T!NoneTooShort, T!AgreesAhead
<1>10. TreeInv'
  BY <1>6, <1>7, <1>8, <1>9 DEF TreeInv, T!SweepInvariant
<1>11. FrontierSound'
  BY DEF ExactInv, FrontierSound, blockVars
<1>12. QED
  BY <1>10, <1>11 DEF ExactInv, StableInv, VisitInv, WalkInv

(* The beginning of a sweep, and its first block, which is the root.       *)
LEMMA SweepOnExact == IInv /\ ExactInv /\ (BeginSweep \/ SkipRoot) => ExactInv'
<1> SUFFICES ASSUME IInv, ExactInv, BeginSweep \/ SkipRoot PROVE ExactInv'
  OBVIOUS
<1> USE DEF ExactInv
<1>1. /\ Computing /\ pc = "sweep" /\ pc' = "sweep"
      /\ UNCHANGED <<cfg, doms, bb2int, dom_frontier>>
  BY DEF Computing, BeginSweep, SkipRoot, dfsVars, blockVars
<1>2. Tree' = Tree
  BY <1>1, TreeKept
<1>3. /\ RootId \in Nat /\ RootId = Len(order) - 1 /\ bb2int[Entry] = RootId
      /\ \A b \in Blocks : bb2int[b] \in 0 .. RootId
  BY <1>1, RootFacts DEF RootHighest
<1>4. at \in -1 .. RootId /\ at' \in Int
  <2>1. at \in -1 .. Len(order) - 1
    BY DEF IInv, TypeOK
  <2>2. QED
    BY <1>3, <2>1 DEF BeginSweep, SkipRoot
<1>5. \A b \in Blocks \ {Entry} : bb2int[b] < RootId
  BY <1>1, RootFacts DEF RootHighest
<1>6. CASE BeginSweep
  <2>1. at = -1 /\ at' = RootId
    BY <1>3, <1>6 DEF BeginSweep
  <2>2. T!AgreesAhead(cfg, Tree, bb2int, at')
    <3>1. \A b \in Blocks : at < bb2int[b]
      BY <1>3, <2>1
    <3>2. T!AgreesAhead(cfg, Tree, bb2int, at)
      BY <1>1 DEF TreeInv, T!SweepInvariant
    <3>3. QED
      BY <3>1, <3>2 DEF T!AgreesAhead
  <2>3. T!Stable(cfg, Tree, bb2int, at')
    BY <1>3, <2>1 DEF T!Stable
  <2>4. QED
    BY <1>1, <1>2, <2>2, <2>3
    DEF TreeInv, T!SweepInvariant, StableInv, VisitInv, FrontierSound, WalkInv, Computing
<1>7. CASE SkipRoot
  <2>1. at = RootId /\ at' = RootId - 1
    <3>1. at \in 0 .. RootId /\ BlockAt(at) = Entry
      BY <1>4, <1>7 DEF SkipRoot
    <3>2. bb2int[BlockAt(at)] = at
      BY <1>1, <3>1, NumberFacts DEF IInv
    <3>3. QED
      BY <1>3, <1>7, <3>1, <3>2 DEF SkipRoot
  <2>2. \A b \in Blocks \ {Entry} : ~ (at' < bb2int[b]) /\ ~ (at < bb2int[b])
    BY <1>3, <1>5, <2>1
  <2>3. T!AgreesAhead(cfg, Tree, bb2int, at')
    <3>1. T!AgreesAhead(cfg, Tree, bb2int, at)
      BY <1>1 DEF TreeInv, T!SweepInvariant
    <3>2. \A c \in Blocks : \A x \in T!Ancestors(Tree, c) : bb2int[x] \in Nat
      BY <1>3, T!AncestorsLeast
    <3>3. \A c \in Blocks : \A x \in T!Ancestors(Tree, c) : bb2int[x] <= at' => bb2int[x] <= at
      BY <1>3, <2>1, <3>2
    <3>4. QED
      BY <2>2, <3>1, <3>3 DEF T!AgreesAhead
  <2>4. T!Stable(cfg, Tree, bb2int, at')
    BY <2>2 DEF T!Stable
  <2>5. QED
    BY <1>1, <1>2, <2>3, <2>4
    DEF TreeInv, T!SweepInvariant, StableInv, VisitInv, FrontierSound, WalkInv, Computing
<1>8. QED
  BY <1>6, <1>7

-----------------------------------------------------------------------------
(***************************************************************************)
(* The visit of a block: intersect, predecessor by predecessor             *)
(***************************************************************************)
(* The steps before the store leave doms alone. *)
LEMMA DomsKept ==
  ASSUME ExactInv, Computing, pc' \in {"meet", "climb"},
         UNCHANGED <<cfg, dfsVars, sweepVars, blockVars>>
  PROVE  /\ TreeInv' /\ StableInv' /\ FrontierSound' /\ WalkInv'
         /\ Tree' = Tree /\ BlockAt(at)' = BlockAt(at)
         /\ \A b : (Processed(b)' <=> Processed(b)) /\ Preds(b)' = Preds(b)
<1>1. /\ UNCHANGED <<cfg, doms, bb2int, order, at, changed, dom_frontier>>
      /\ Tree' = Tree
      /\ \A b : Processed(b)' <=> Processed(b)
  BY TreeKept DEF dfsVars, sweepVars, blockVars
<1>2. TreeInv' /\ StableInv'
  BY <1>1 DEF ExactInv, TreeInv, StableInv
<1>3. FrontierSound' /\ WalkInv'
  BY <1>1 DEF ExactInv, FrontierSound, WalkInv
<1>4. QED
  BY <1>1, <1>2, <1>3 DEF BlockAt, Preds

(* Its first processed predecessor is a safe start for new_idom. *)
LEMMA BeginMeetExact == IInv /\ ExactInv /\ BeginMeet => ExactInv'
<1> SUFFICES ASSUME IInv, ExactInv, BeginMeet PROVE ExactInv'
  OBVIOUS
<1>1. Computing /\ TreeWords
  BY TreeFacts DEF Computing, BeginMeet
<1>2. /\ TreeInv' /\ StableInv' /\ FrontierSound' /\ WalkInv'
      /\ Tree' = Tree /\ BlockAt(at)' = BlockAt(at)
      /\ \A b : (Processed(b)' <=> Processed(b)) /\ Preds(b)' = Preds(b)
  BY <1>1, DomsKept DEF BeginMeet
<1>3. BlockAt(at) \in Blocks /\ \E p \in Preds(BlockAt(at)) : Processed(p)
  BY <1>1, ProcessedPredecessor DEF BeginMeet
<1>4. new_idom' \in Preds(BlockAt(at)) /\ Processed(new_idom')
  BY <1>3 DEF BeginMeet
<1>5. new_idom' \in Blocks
  BY <1>3, <1>4, GraphFacts DEF IInv
<1>6. T!NotTooHigh(cfg, Tree, BlockAt(at), new_idom')
  BY <1>1, <1>3, <1>4, <1>5, T!PredecessorNotTooHigh DEF TreeWords, T!Numbered
<1>7. VisitInv'
  BY <1>2, <1>6 DEF VisitInv, BeginMeet
<1>8. QED
  BY <1>2, <1>7 DEF ExactInv

(* So is a predecessor for finger1, and new_idom itself for finger2. *)
LEMMA BeginIntersectExact ==
  ASSUME NEW p \in Blocks PROVE IInv /\ ExactInv /\ BeginIntersect(p) => ExactInv'
<1> SUFFICES ASSUME IInv, ExactInv, BeginIntersect(p) PROVE ExactInv'
  OBVIOUS
<1>1. Computing /\ TreeWords /\ pc = "meet"
  BY TreeFacts DEF Computing, BeginIntersect
<1>2. /\ TreeInv' /\ StableInv' /\ FrontierSound' /\ WalkInv'
      /\ Tree' = Tree /\ BlockAt(at)' = BlockAt(at)
      /\ \A b : (Processed(b)' <=> Processed(b)) /\ Preds(b)' = Preds(b)
  BY <1>1, DomsKept DEF BeginIntersect
<1>3. /\ BlockAt(at) \in Blocks
      /\ p \in Preds(BlockAt(at)) /\ Processed(p)
      /\ new_idom \in Blocks
  BY <1>1, ProcessedPredecessor DEF BeginIntersect, IInv, PhaseInv, MeetInv, ExactInv, VisitInv
<1>4. T!NotTooHigh(cfg, Tree, BlockAt(at), p)
  BY <1>1, <1>3, T!PredecessorNotTooHigh DEF TreeWords, T!Numbered
<1>5. p \in T!Ancestors(Tree, p) /\ new_idom \in T!Ancestors(Tree, new_idom)
  BY <1>3, T!AncestorsLeast
<1>6. VisitInv'
  BY <1>1, <1>2, <1>4, <1>5 DEF VisitInv, ExactInv, BeginIntersect
<1>7. QED
  BY <1>2, <1>6 DEF ExactInv

(* Both fingers keep to the chains they started on, and stop short of what *)
(* the predecessors have in common.                                        *)
LEMMA ClimbExact == IInv /\ ExactInv /\ (Climb1 \/ Climb2 \/ EndIntersect) => ExactInv'
<1> SUFFICES ASSUME IInv, ExactInv, Climb1 \/ Climb2 \/ EndIntersect PROVE ExactInv'
  OBVIOUS
<1>1. Computing /\ TreeWords /\ pc = "climb"
  BY TreeFacts DEF Computing, Climb1, Climb2, EndIntersect
<1>2. /\ TreeInv' /\ StableInv' /\ FrontierSound' /\ WalkInv'
      /\ Tree' = Tree /\ BlockAt(at)' = BlockAt(at)
      /\ \A b : (Processed(b)' <=> Processed(b)) /\ Preds(b)' = Preds(b)
  BY <1>1, DomsKept DEF Climb1, Climb2, EndIntersect
<1> DEFINE c == BlockAt(at)
           f == finger1
           g == finger2
<1>3. /\ c \in Blocks /\ \A p \in Preds(c) : p \in Blocks
      /\ f \in Blocks /\ g \in Blocks /\ new_idom \in Blocks
      /\ Processed(f) /\ Processed(g)
  BY <1>1, ProcessedPredecessor, GraphFacts DEF IInv, PhaseInv, MeetInv, ClimbInv
<1>4. T!Numbered(cfg, bb2int) /\ T!SweepInvariant(cfg, Tree, bb2int, at)
  BY <1>1 DEF TreeWords, ExactInv, TreeInv
<1>5. /\ pending \subseteq Preds(c)
      /\ T!NotTooHigh(cfg, Tree, c, new_idom)
      /\ T!NotTooHigh(cfg, Tree, c, f) /\ T!NotTooHigh(cfg, Tree, c, g)
      /\ g \in T!Ancestors(Tree, new_idom)
      /\ \A p \in Preds(c) :
           Processed(p) => \/ p \in pending
                           \/ new_idom \in T!Ancestors(Tree, p)
                           \/ f \in T!Ancestors(Tree, p)
  BY <1>1 DEF ExactInv, VisitInv
<1>6. \A x \in Blocks : /\ Tree[x] = Idom(x)
                        /\ T!Settled(Tree, x) <=> Processed(x)
  BY <1>1 DEF TreeWords
<1>7. CASE Climb1
  <2>1. T!NotTooHigh(cfg, Tree, c, finger1')
    BY <1>3, <1>4, <1>5, <1>6, <1>7, T!ClimbNotTooHigh DEF Climb1
  <2>2. \A p \in Preds(c) : f \in T!Ancestors(Tree, p) => finger1' \in T!Ancestors(Tree, p)
    BY <1>3, <1>6, <1>7, T!AncestorsLeast DEF Climb1
  <2>3. VisitInv'
    BY <1>1, <1>2, <1>5, <1>7, <2>1, <2>2 DEF VisitInv, Climb1
  <2>4. QED
    BY <1>2, <2>3 DEF ExactInv
<1>8. CASE Climb2
  <2>1. T!NotTooHigh(cfg, Tree, c, finger2')
    BY <1>3, <1>4, <1>5, <1>6, <1>8, T!ClimbNotTooHigh DEF Climb2
  <2>2. finger2' \in T!Ancestors(Tree, new_idom)
    BY <1>3, <1>5, <1>6, <1>8, T!AncestorsLeast DEF Climb2
  <2>3. VisitInv'
    BY <1>1, <1>2, <1>5, <1>8, <2>1, <2>2 DEF VisitInv, Climb2
  <2>4. QED
    BY <1>2, <2>3 DEF ExactInv
<1>9. CASE EndIntersect
  <2>1. f = g /\ new_idom' = f /\ pending' = pending /\ pc' = "meet"
    BY <1>9 DEF EndIntersect
  <2>2. \A p \in Preds(c) :
          new_idom \in T!Ancestors(Tree, p) => new_idom' \in T!Ancestors(Tree, p)
    BY <1>3, <1>5, <2>1, T!AncestorsTransitive
  <2>3. \A p \in Preds(c) :
          Processed(p) => p \in pending' \/ new_idom' \in T!Ancestors(Tree, p)
    BY <1>5, <2>1, <2>2
  <2>4. T!NotTooHigh(cfg, Tree, c, new_idom') /\ pending' \subseteq Preds(c)
    BY <1>5, <2>1
  <2>5. cfg' = cfg
    BY <1>9 DEF EndIntersect
  <2>6. VisitInv'
    BY <1>2, <2>1, <2>3, <2>4, <2>5 DEF VisitInv
  <2>7. QED
    BY <1>2, <2>6 DEF ExactInv
<1>10. QED
  BY <1>7, <1>8, <1>9

(* When no predecessor is pending, new_idom is on the chains of all: the   *)
(* store is the visit the theory speaks of.                                *)
LEMMA StoreIsVisit ==
  IInv /\ ExactInv /\ StoreIdom =>
    /\ T!Visit(cfg, Tree, Tree', bb2int, at, BlockAt(at), new_idom)
    /\ ~ changed' => ~ changed /\ Tree' = Tree /\ Tree[BlockAt(at)] = new_idom
<1> SUFFICES ASSUME IInv, ExactInv, StoreIdom
             PROVE  /\ T!Visit(cfg, Tree, Tree', bb2int, at, BlockAt(at), new_idom)
                    /\ ~ changed' => /\ ~ changed
                                     /\ Tree' = Tree /\ Tree[BlockAt(at)] = new_idom
  OBVIOUS
<1> DEFINE c == BlockAt(at)
<1>1. Computing /\ TreeWords /\ pc = "meet" /\ pending = {}
  BY TreeFacts DEF Computing, StoreIdom
<1>2. c \in Blocks \ {Entry} /\ bb2int[c] = at /\ at \in 0 .. RootId
  <2>1. at # -1 /\ c # Entry
    BY <1>1 DEF IInv, PhaseInv
  <2>2. at \in 0 .. RootId - 1 /\ c \in Blocks /\ bb2int[c] = at
    BY <1>1, <2>1, ProcessedPredecessor
  <2>3. RootId \in Nat
    BY <1>1, RootFacts DEF RootHighest
  <2>4. QED
    BY <2>1, <2>2, <2>3
<1>3. T!NotTooHigh(cfg, Tree, c, new_idom)
  BY <1>1 DEF ExactInv, VisitInv
<1>4. \A p \in T!Preds(cfg, c) : T!Settled(Tree, p) => new_idom \in T!Ancestors(Tree, p)
  BY <1>1, <1>2, GraphFacts DEF ExactInv, VisitInv, TreeWords, IInv
<1>5. \A x \in Blocks : bb2int[x] \in 0 .. RootId
  BY <1>1, RootFacts DEF RootHighest
<1>6. \A x \in Blocks : at < bb2int[x] => T!Settled(Tree, x)
  <2>1. \A n \in 0 .. RootId : at < n => doms[n] # NULL
    BY <1>1 DEF IInv, SweepInv
  <2>2. QED
    BY <1>1, <1>5, <2>1 DEF TreeWords, Processed, Idom
<1>7. /\ Tree'[c] = new_idom
      /\ \A x \in Blocks \ {c} : Tree'[x] = Tree[x]
      /\ ~ changed' => ~ changed /\ Tree' = Tree /\ Tree[c] = new_idom
  <2>1. bb2int' = bb2int
    BY DEF StoreIdom, dfsVars
  <2>2. doms \in [0 .. RootId -> Pointers]
    BY <1>1 DEF IInv, TypeOK
  <2>3. \A x \in Blocks \ {c} : bb2int[x] # at
    BY <1>1, <1>2 DEF TreeWords, T!Numbered, T!Numbering
  <2>4. CASE Idom(c) # new_idom
    <3>1. doms' = [doms EXCEPT ![at] = new_idom] /\ changed' = TRUE
      BY <1>2, <2>4 DEF StoreIdom
    <3>2. doms'[at] = new_idom /\ \A n \in 0 .. RootId : n # at => doms'[n] = doms[n]
      BY <1>2, <2>2, <3>1
    <3>3. QED
      BY <1>2, <1>5, <2>1, <2>3, <3>1, <3>2 DEF Tree, Idom
  <2>5. CASE Idom(c) = new_idom
    <3>1. doms' = doms /\ changed' = changed
      BY <2>5 DEF StoreIdom
    <3>2. Tree' = Tree /\ Tree[c] = new_idom
      BY <1>2, <2>1, <2>5, <3>1 DEF Tree, Idom
    <3>3. QED
      BY <3>1, <3>2
  <2>6. QED
    BY <2>4, <2>5
<1>8. QED
  BY <1>2, <1>3, <1>4, <1>6, <1>7 DEF T!Visit

(* The store keeps the tree in order, and a block that had nothing to      *)
(* change is stable.                                                       *)
LEMMA StoreIdomExact == IInv /\ ExactInv /\ StoreIdom => ExactInv'
<1> SUFFICES ASSUME IInv, ExactInv, StoreIdom PROVE ExactInv'
  OBVIOUS
<1> DEFINE c == BlockAt(at)
<1>1. Computing /\ TreeWords /\ pc' = "sweep" /\ at' = at - 1
      /\ UNCHANGED <<cfg, bb2int, dom_frontier>>
  BY TreeFacts DEF Computing, StoreIdom, dfsVars, blockVars
<1>2. /\ T!Visit(cfg, Tree, Tree', bb2int, at, c, new_idom)
      /\ ~ changed' => ~ changed /\ Tree' = Tree /\ Tree[c] = new_idom
  BY StoreIsVisit
<1>3. T!Numbered(cfg, bb2int) /\ T!SweepInvariant(cfg, Tree, bb2int, at)
  BY <1>1 DEF TreeWords, ExactInv, TreeInv
<1>4. T!SweepInvariant(cfg, Tree', bb2int, at - 1)
  BY <1>2, <1>3, T!VisitKeepsInvariant
<1>5. TreeInv'
  BY <1>1, <1>4 DEF TreeInv
<1>6. ASSUME ~ changed' PROVE T!Stable(cfg, Tree, bb2int, at - 1)
  <2>1. T!Stable(cfg, Tree, bb2int, at)
    BY <1>1, <1>2, <1>6 DEF ExactInv, StableInv
  <2>2. /\ c \in Blocks /\ bb2int[c] = at /\ Tree[c] = new_idom
        /\ \A p \in T!Preds(cfg, c) : T!Settled(Tree, p) => new_idom \in T!Ancestors(Tree, p)
    BY <1>2, <1>6 DEF T!Visit
  <2>3. ASSUME NEW x \in Blocks, at - 1 < bb2int[x] PROVE x = c \/ at < bb2int[x]
    <3>1. bb2int[x] \in Nat /\ at \in Nat /\ (bb2int[x] = bb2int[c] => x = c)
      BY <1>3, <2>2, <2>3 DEF T!Numbered, T!Numbering
    <3>2. QED
      BY <2>2, <2>3, <3>1
  <2>4. QED
    BY <2>1, <2>2, <2>3 DEF T!Stable
<1>7. StableInv'
  BY <1>1, <1>2, <1>6 DEF StableInv
<1>8. VisitInv' /\ FrontierSound' /\ WalkInv'
  BY <1>1 DEF ExactInv, VisitInv, FrontierSound, WalkInv
<1>9. QED
  BY <1>5, <1>7, <1>8 DEF ExactInv

-----------------------------------------------------------------------------
(***************************************************************************)
(* The walks of get_bb_dom_front, over the final dominators                *)
(***************************************************************************)
(* The sweeps have ended with one that changed nothing. *)
SweepsOver == Computing /\ at = -1 /\ ~ changed

(* The iteration has reached the fixpoint then. *)
LEMMA SettledFacts ==
  ASSUME IInv, ExactInv, SweepsOver
  PROVE  T!Finished(cfg, Tree, bb2int)
<1>1. Computing /\ TreeWords /\ at = -1 /\ ~ changed
  BY TreeFacts DEF SweepsOver
<1>2. \A b \in Blocks : T!Settled(Tree, b)
  BY <1>1, AllProcessed DEF TreeWords
<1>3. QED
  BY <1>1, <1>2 DEF T!Finished, TreeWords, ExactInv, TreeInv, StableInv

(* No walk starts before that. *)
LEMMA FrontierPhases ==
  ASSUME IInv, ExactInv, pc \in {"front", "walk", "done"}
  PROVE  SweepsOver
BY DEF SweepsOver, Computing, IInv, PhaseInv, ExactInv, StableInv

(* The walks leave all but the frontiers alone. *)
LEMMA WalkKeepsTree ==
  ASSUME ExactInv, SweepsOver, pc' \in WalkPhases, UNCHANGED <<cfg, dfsVars, sweepVars>>
  PROVE  /\ TreeInv' /\ StableInv' /\ VisitInv'
         /\ Tree' = Tree
         /\ \A x : Idom(x)' = Idom(x) /\ Preds(x)' = Preds(x)
<1>1. UNCHANGED <<cfg, doms, bb2int, at, changed>> /\ Tree' = Tree /\ \A x : Idom(x)' = Idom(x)
  BY TreeKept DEF dfsVars, sweepVars
<1>2. QED
  BY <1>1 DEF ExactInv, SweepsOver, WalkPhases, TreeInv, StableInv, VisitInv, Computing, Preds

(* At first every edge into a join is still to be walked. *)
LEMMA PublishIdomsExact == IInv /\ ExactInv /\ PublishIdoms => ExactInv'
<1> SUFFICES ASSUME IInv, ExactInv, PublishIdoms PROVE ExactInv'
  OBVIOUS
<1>1. SweepsOver /\ pc' \in WalkPhases /\ UNCHANGED <<cfg, dfsVars, sweepVars, dom_frontier>>
  BY DEF PublishIdoms, SweepsOver, Computing, WalkPhases
<1>2. TreeInv' /\ StableInv' /\ VisitInv' /\ \A x : Preds(x)' = Preds(x)
  BY <1>1, WalkKeepsTree
<1>3. FrontierSound'
  BY <1>1 DEF ExactInv, FrontierSound
<1>4. ASSUME NEW b \in Blocks, NEW p \in Preds(b), NEW q \in Preds(b), p # q
      PROVE  <<p, b>> \in edges'
  <2>1. p \in Blocks /\ q \in Blocks /\ b \in cfg[p]
    BY GraphFacts DEF IInv
  <2>2. QED
    BY <1>4, <2>1 DEF PublishIdoms
<1>5. WalkInv'
  BY <1>2, <1>4 DEF WalkInv, PublishIdoms
<1>6. QED
  BY <1>2, <1>3, <1>5 DEF ExactInv

(* The dominator of the join is on the chain of the predecessor, so the    *)
(* runner is going to meet it.                                             *)
LEMMA BeginWalkExact ==
  ASSUME NEW p \in Blocks, NEW b \in Blocks
  PROVE  IInv /\ ExactInv /\ BeginWalk(p, b) => ExactInv'
<1> SUFFICES ASSUME IInv, ExactInv, BeginWalk(p, b) PROVE ExactInv'
  OBVIOUS
<1>1. /\ SweepsOver /\ pc = "front" /\ pc' = "walk"
      /\ UNCHANGED <<cfg, dfsVars, sweepVars, dom_frontier>>
  BY FrontierPhases DEF BeginWalk, blockVars
<1>2. /\ TreeInv' /\ StableInv' /\ VisitInv' /\ Tree' = Tree
      /\ \A x : Idom(x)' = Idom(x) /\ Preds(x)' = Preds(x)
  BY <1>1, WalkKeepsTree DEF WalkPhases
<1>3. FrontierSound'
  BY <1>1 DEF ExactInv, FrontierSound
<1>4. p \in Preds(b) /\ b # Entry
  <2>1. b \in cfg[p]
    BY <1>1 DEF BeginWalk, ExactInv, WalkInv
  <2>2. Preds(Entry) = {}
    BY GraphAssumption DEF Preds, IInv, TypeOK
  <2>3. QED
    BY <2>1, <2>2, GraphFacts DEF IInv
<1>5. Idom(b) \in T!Ancestors(Tree, p) /\ p \in T!Ancestors(Tree, p)
  <2>1. T!Finished(cfg, Tree, bb2int) /\ TreeWords
    BY <1>1, SettledFacts, TreeFacts DEF SweepsOver
  <2>2. p \in T!Preds(cfg, b) /\ Tree[b] = Idom(b)
    BY <1>4, <2>1 DEF TreeWords
  <2>3. QED
    BY <1>4, <2>1, <2>2, T!FinishedStable, T!AncestorsLeast
<1>6. ASSUME NEW x \in Blocks, NEW q \in Preds(x), NEW r \in Preds(x), q # r
      PROVE  \/ <<q, x>> \in edges'
             \/ Walked(q, x, Idom(x))
             \/ join' = x /\ Walked(q, x, runner')
  <2>1. CASE <<q, x>> = <<p, b>>
    BY <2>1 DEF BeginWalk, Walked
  <2>2. CASE <<q, x>> # <<p, b>>
    BY <1>1, <1>6, <2>2 DEF BeginWalk, ExactInv, WalkInv
  <2>3. QED
    BY <2>1, <2>2
<1>7. WalkInv'
  <2>1. pc' = "walk" /\ join' = b /\ runner' = p /\ edges' \subseteq edges
    BY DEF BeginWalk
  <2>2. \A e \in edges' : e[2] \in cfg[e[1]]
    BY <1>1, <2>1 DEF ExactInv, WalkInv
  <2>3. QED
    BY <1>1, <1>2, <1>4, <1>5, <1>6, <2>1, <2>2 DEF WalkInv, Walked
<1>8. QED
  BY <1>2, <1>3, <1>7 DEF ExactInv

(* The runner is below the dominator of the join, on a chain that starts   *)
(* at a predecessor: the join is in its frontier.                          *)
LEMMA AddFrontierExact == IInv /\ ExactInv /\ AddFrontier => ExactInv'
<1> SUFFICES ASSUME IInv, ExactInv, AddFrontier PROVE ExactInv'
  OBVIOUS
<1>1. /\ SweepsOver /\ pc = "walk" /\ pc' = "walk"
      /\ UNCHANGED <<cfg, dfsVars, sweepVars, edges, join>>
  BY FrontierPhases DEF AddFrontier
<1>2. /\ TreeInv' /\ StableInv' /\ VisitInv' /\ Tree' = Tree
      /\ \A x : Idom(x)' = Idom(x) /\ Preds(x)' = Preds(x)
  BY <1>1, WalkKeepsTree DEF WalkPhases
<1>3. T!Finished(cfg, Tree, bb2int) /\ TreeWords
  BY <1>1, SettledFacts, TreeFacts DEF SweepsOver
<1>4. /\ join \in Blocks /\ runner \in Blocks /\ runner # Idom(join)
      /\ runner' = Idom(runner) /\ Tree[join] = Idom(join) /\ Tree[runner] = Idom(runner)
      /\ Idom(join) \in Blocks /\ T!Settled(Tree, runner)
  BY <1>1, <1>3 DEF AddFrontier, IInv, PhaseInv, TreeWords, T!Finished, T!Settled
<1>5. PICK p \in Preds(join) : runner \in T!Ancestors(Tree, p)
  BY <1>1 DEF ExactInv, WalkInv
<1>6. /\ Idom(join) \in T!Ancestors(Tree, runner)
      /\ T!Ancestors(Tree, runner) = {runner} \cup T!Ancestors(Tree, runner')
  BY <1>1, <1>4, T!AncestorsStep DEF ExactInv, WalkInv
<1>7. runner \notin T!Ancestors(Tree, Idom(join))
  <2>1. T!Numbering(bb2int) /\ T!Ascends(Tree, bb2int)
    BY <1>3 DEF T!Finished, T!Numbered, T!SweepInvariant
  <2>2. bb2int[runner] < bb2int[Idom(join)]
    BY <1>4, <1>6, <2>1, T!AncestorsAbove
  <2>3. bb2int[runner] \in Nat /\ bb2int[Idom(join)] \in Nat
    BY <1>4, <2>1 DEF T!Numbering
  <2>4. QED
    BY <1>4, <2>1, <2>2, <2>3, T!AncestorsAbove
<1>8. join \in Dom!DominanceFrontier(cfg, runner)
  <2>1. p \in T!Preds(cfg, join)
    BY <1>3, <1>4, <1>5 DEF TreeWords
  <2>2. join \in T!DominanceFrontier(cfg, runner)
    BY <1>3, <1>4, <1>5, <1>7, <2>1, T!FrontierByWalks
  <2>3. QED
    BY <2>2 DEF Dom!DominanceFrontier, T!DominanceFrontier, Dom!StrictlyDominates,
                T!StrictlyDominates, Dom!Dominates, T!Dominates, Dom!Preds, T!Preds
<1>9. /\ \A x \in Blocks : dom_frontier[x] \subseteq dom_frontier'[x]
      /\ \A x \in Blocks \ {runner} : dom_frontier'[x] = dom_frontier[x]
      /\ dom_frontier'[runner] = dom_frontier[runner] \cup {join}
  BY <1>4 DEF AddFrontier, IInv, TypeOK
<1>10. FrontierSound'
  BY <1>1, <1>8, <1>9 DEF ExactInv, FrontierSound
<1> DEFINE Now(q, b, top) ==
      \A x \in T!Ancestors(Tree, q) : x \notin T!Ancestors(Tree, top) => b \in dom_frontier'[x]
<1>11. ASSUME NEW q \in Blocks, NEW b \in Blocks, NEW top, Walked(q, b, top)
       PROVE  Now(q, b, top)
  <2>1. T!Ancestors(Tree, q) \subseteq Blocks
    BY T!AncestorsLeast
  <2>2. QED
    BY <1>9, <1>11, <2>1 DEF Walked
<1>12. ASSUME NEW q \in Blocks, Walked(q, join, runner)
       PROVE  Now(q, join, runner')
  <2>1. T!Ancestors(Tree, q) \subseteq Blocks
    BY T!AncestorsLeast
  <2>2. QED
    BY <1>6, <1>9, <1>12, <2>1 DEF Walked
<1>13. ASSUME NEW b \in Blocks, NEW q \in Preds(b), NEW r \in Preds(b), q # r
       PROVE  \/ <<q, b>> \in edges
              \/ Now(q, b, Idom(b))
              \/ join = b /\ Now(q, b, runner')
  <2>1. q \in Blocks
    BY GraphFacts DEF IInv
  <2>2. \/ <<q, b>> \in edges
        \/ Walked(q, b, Idom(b))
        \/ join = b /\ Walked(q, b, runner)
    BY <1>1, <1>13 DEF ExactInv, WalkInv
  <2>3. QED
    BY <1>11, <1>12, <2>1, <2>2
<1>14. Idom(join)' \in T!Ancestors(Tree, runner') /\ runner' \in T!Ancestors(Tree, p)
  BY <1>2, <1>1, <1>3, <1>4, <1>5, <1>6, T!AncestorsLeast, GraphFacts DEF IInv
<1>15. WalkInv'
  <2>1. \A e \in edges' : e[2] \in cfg'[e[1]]
    BY <1>1 DEF ExactInv, WalkInv
  <2>2. QED
    BY <1>1, <1>2, <1>5, <1>13, <1>14, <2>1 DEF WalkInv, Walked
<1>16. QED
  BY <1>2, <1>10, <1>15 DEF ExactInv

(* The walk has come to the dominator of the join: all is said for this    *)
(* edge.                                                                   *)
LEMMA EndWalkExact == IInv /\ ExactInv /\ (EndWalk \/ Finish) => ExactInv'
<1> SUFFICES ASSUME IInv, ExactInv, EndWalk \/ Finish PROVE ExactInv'
  OBVIOUS
<1>1. /\ SweepsOver /\ pc \in {"front", "walk"} /\ pc' \in WalkPhases
      /\ UNCHANGED <<cfg, dfsVars, sweepVars, walkVars, dom_frontier>>
  BY FrontierPhases DEF EndWalk, Finish, WalkPhases, blockVars
<1>2. /\ TreeInv' /\ StableInv' /\ VisitInv' /\ Tree' = Tree
      /\ \A x : Idom(x)' = Idom(x) /\ Preds(x)' = Preds(x)
  BY <1>1, WalkKeepsTree
<1>3. FrontierSound'
  BY <1>1 DEF ExactInv, FrontierSound
<1>4. ASSUME NEW b \in Blocks, NEW p \in Preds(b), NEW q \in Preds(b), p # q
      PROVE  <<p, b>> \in edges \/ Walked(p, b, Idom(b))
  BY <1>1, <1>4 DEF ExactInv, WalkInv, EndWalk, Finish
<1>5. pc' # "walk" /\ (pc' = "done" => edges' = {})
  BY DEF EndWalk, Finish, walkVars
<1>6. WalkInv'
  <2>1. UNCHANGED <<cfg, edges, dom_frontier>>
    BY <1>1 DEF walkVars
  <2>2. \A e \in edges' : e[2] \in cfg'[e[1]]
    BY <1>1, <2>1 DEF ExactInv, WalkInv
  <2>3. QED
    BY <1>2, <1>4, <1>5, <2>1, <2>2 DEF WalkInv, Walked
<1>7. QED
  BY <1>2, <1>3, <1>6 DEF ExactInv

(* Another execution: what the frontiers hold is still right. *)
LEMMA RunAgainExact == IInv /\ ExactInv /\ RunAgain => ExactInv'
BY DEF RunAgain, blockVars, ExactInv, TreeInv, StableInv, VisitInv, FrontierSound, WalkInv,
       Computing

(* A step that changes no variable. *)
LEMMA StutterExact == IInv /\ ExactInv /\ UNCHANGED vars => ExactInv'
<1> SUFFICES ASSUME ExactInv, UNCHANGED vars PROVE ExactInv'
  OBVIOUS
<1>1. /\ UNCHANGED <<cfg, pc, doms, bb2int, order, at, changed, pending, new_idom>>
      /\ UNCHANGED <<finger1, finger2, edges, join, runner, dom_frontier>>
  BY DEF vars, dfsVars, sweepVars, meetVars, walkVars, blockVars
<1>2. Tree' = Tree /\ \A x : Idom(x)' = Idom(x) /\ (Processed(x)' <=> Processed(x))
  BY <1>1, TreeKept
<1>3. TreeInv' /\ StableInv' /\ VisitInv'
  BY <1>1, <1>2 DEF ExactInv, TreeInv, StableInv, VisitInv, Computing, BlockAt, Preds
<1>4. FrontierSound' /\ WalkInv'
  BY <1>1, <1>2 DEF ExactInv, FrontierSound, WalkInv, Walked, Preds
<1>5. QED
  BY <1>3, <1>4 DEF ExactInv

(* Every step keeps ExactInv. *)
LEMMA NextExact == IInv /\ ExactInv /\ [Next]_vars => ExactInv'
<1> SUFFICES ASSUME IInv, ExactInv, [Next]_vars PROVE ExactInv'
  OBVIOUS
<1>1. CASE BeginFunction
  BY <1>1, NumberingExact, GraphFacts DEF IInv
<1>2. CASE PostOrder
  BY <1>2, NumberingExact, GraphFacts DEF PostOrder, IInv
<1>3. CASE Sweep
  BY <1>3, InitDomsExact, SweepOnExact, BeginMeetExact, StoreIdomExact, PublishIdomsExact
  DEF Sweep
<1>4. CASE Intersect
  BY <1>4, BeginIntersectExact, ClimbExact DEF Intersect
<1>5. CASE Frontier
  BY <1>5, BeginWalkExact, AddFrontierExact, EndWalkExact DEF Frontier
<1>6. CASE RunAgain
  BY <1>6, RunAgainExact
<1>7. CASE UNCHANGED vars
  BY <1>7, StutterExact
<1>8. QED
  BY <1>1, <1>2, <1>3, <1>4, <1>5, <1>6, <1>7 DEF Next

(* Both invariants hold in every reachable state.                          *)
THEOREM ExactInvariant == Spec => [](IInv /\ ExactInv)
<1>1. Init => IInv /\ ExactInv
  BY InitIInv, InitExact
<1>2. IInv /\ ExactInv /\ [Next]_vars => IInv' /\ ExactInv'
  BY NextIInv, NextExact
<1>3. QED
  BY <1>1, <1>2, PTL DEF Spec

-----------------------------------------------------------------------------
(***************************************************************************)
(* What the pass leaves                                                    *)
(***************************************************************************)
(* When the pass is done, dom_frontier_ of every block is its dominance    *)
(* frontier, on every graph and after any number of executions: the walks  *)
(* of the last execution fill what is missing, and nothing that an earlier *)
(* execution put there is wrong.                                           *)
THEOREM FrontiersExact == Spec => []FrontierExact
<1>1. IInv /\ ExactInv => FrontierExact
  <2> SUFFICES ASSUME IInv, ExactInv, pc = "done", NEW x \in Blocks
               PROVE  dom_frontier[x] = Dom!DominanceFrontier(cfg, x)
    BY DEF FrontierExact
  <2>1. TreeWords /\ T!Finished(cfg, Tree, bb2int) /\ edges = {}
    BY FrontierPhases, SettledFacts, TreeFacts DEF SweepsOver, ExactInv, WalkInv
  <2>2. cfg \in T!Graphs /\ Entry \in Blocks /\ T!Rooted(cfg)
    BY <2>1 DEF TreeWords, T!Numbered
  <2>3. ASSUME NEW b \in Blocks, b \in T!DominanceFrontier(cfg, x)
        PROVE  b \in dom_frontier[x]
    <3>1. PICK p \in T!Preds(cfg, b) : /\ x \in T!Ancestors(Tree, p)
                                       /\ x \notin T!Ancestors(Tree, Tree[b])
      BY <2>1, <2>3, T!FrontierByWalks
    <3>2. b # Entry
      BY <2>1, <3>1 DEF TreeWords, T!Numbered
    <3>3. PICK q \in T!Preds(cfg, b) : q # p
      <4> SUFFICES ASSUME T!Preds(cfg, b) = {p} PROVE FALSE
        BY <3>1
      <4>1. QED
        BY <2>2, <2>3, <3>1, <3>2, T!NoFrontierWithoutJoin
    <3>4. Walked(p, b, Idom(b)) /\ Tree[b] = Idom(b)
      BY <2>1, <3>1, <3>3 DEF TreeWords, ExactInv, WalkInv
    <3>5. QED
      BY <3>1, <3>4 DEF Walked
  <2>4. T!DominanceFrontier(cfg, x) = Dom!DominanceFrontier(cfg, x)
    BY DEF Dom!DominanceFrontier, T!DominanceFrontier, Dom!StrictlyDominates,
           T!StrictlyDominates, Dom!Dominates, T!Dominates, Dom!Preds, T!Preds
  <2>5. T!DominanceFrontier(cfg, x) \subseteq Blocks
    BY DEF T!DominanceFrontier
  <2>6. QED
    BY <2>3, <2>4, <2>5 DEF ExactInv, FrontierSound
<1>2. QED
  BY <1>1, ExactInvariant, PTL

-----------------------------------------------------------------------------
(***************************************************************************)
(* The pass implements DominanceSpec                                       *)
(***************************************************************************)
Candidates == [b \in Blocks |-> IF Computing /\ Processed(b) THEN Chain(b) ELSE Blocks]
Reported == pc \in {"front", "walk", "done"}

(* The abstract analysis in the terms of the pass. *)
LEMMA AbstractWords ==
  /\ Abstract!Init <=> cfg \in CFGs /\ Candidates = Abstract!AllCandidates /\ ~ Reported
  /\ Abstract!Refine <=>
       /\ ~ Reported
       /\ Candidates' \in [Blocks -> SUBSET Blocks]
       /\ \A b \in Blocks : /\ T!DominatorsOf(cfg, b) \subseteq Candidates'[b]
                            /\ Candidates'[b] \subseteq Candidates[b]
       /\ cfg' = cfg /\ (Reported' <=> Reported)
  /\ Abstract!Report <=>
       /\ \A b \in Blocks : Candidates[b] = T!DominatorsOf(cfg, b)
       /\ Reported'
       /\ cfg' = cfg /\ Candidates' = Candidates
  /\ Abstract!Restart <=>
       /\ Reported
       /\ Candidates' = Abstract!AllCandidates
       /\ ~ Reported'
       /\ cfg' = cfg
  /\ UNCHANGED Abstract!vars <=> cfg' = cfg /\ Candidates' = Candidates /\ (Reported' <=> Reported)
<1>1. \A b : Abstract!DominatorsOf(cfg, b) = T!DominatorsOf(cfg, b)
  BY DEF Abstract!DominatorsOf, T!DominatorsOf, Abstract!Dominates, T!Dominates
<1>2. Abstract!Init <=> cfg \in CFGs /\ Candidates = Abstract!AllCandidates /\ ~ Reported
  BY DEF Abstract!Init, Candidates, Reported
<1>3. Abstract!Refine <=>
       /\ ~ Reported
       /\ Candidates' \in [Blocks -> SUBSET Blocks]
       /\ \A b \in Blocks : /\ T!DominatorsOf(cfg, b) \subseteq Candidates'[b]
                            /\ Candidates'[b] \subseteq Candidates[b]
       /\ cfg' = cfg /\ (Reported' <=> Reported)
  BY <1>1 DEF Abstract!Refine, Candidates, Reported
<1>4. Abstract!Report <=>
       /\ \A b \in Blocks : Candidates[b] = T!DominatorsOf(cfg, b)
       /\ Reported'
       /\ cfg' = cfg /\ Candidates' = Candidates
  BY <1>1 DEF Abstract!Report, Candidates, Reported
<1>5. Abstract!Restart <=>
       /\ Reported
       /\ Candidates' = Abstract!AllCandidates
       /\ ~ Reported'
       /\ cfg' = cfg
  BY DEF Abstract!Restart, Candidates, Reported
<1>6. UNCHANGED Abstract!vars <=> cfg' = cfg /\ Candidates' = Candidates /\ (Reported' <=> Reported)
  BY DEF Abstract!vars, Candidates, Reported
<1>7. QED
  BY <1>2, <1>3, <1>4, <1>5, <1>6

(* Between the numbering and the end of the execution, the candidates of a *)
(* block are its chain once it is settled, and no dominator is among the   *)
(* blocks ruled out; before that, none is.                                 *)
CandidateFacts ==
  /\ \A b \in Blocks : /\ T!DominatorsOf(cfg, b) \subseteq Candidates[b]
                       /\ Candidates[b] \subseteq Blocks
  /\ ~ Computing => Candidates = Abstract!AllCandidates /\ ~ Reported
  /\ Computing =>
       \A b \in Blocks :
         Candidates[b] = IF T!Settled(Tree, b) THEN T!Ancestors(Tree, b) ELSE Blocks
  /\ Reported => \A b \in Blocks : Candidates[b] = T!DominatorsOf(cfg, b)

(* Both invariants give these facts. *)
LEMMA CandidatesHold == IInv /\ ExactInv => CandidateFacts
<1> SUFFICES ASSUME IInv, ExactInv PROVE CandidateFacts
  OBVIOUS
<1>1. CASE ~ Computing
  <2>1. Candidates = Abstract!AllCandidates /\ ~ Reported
    BY <1>1 DEF Candidates, Abstract!AllCandidates, Reported, Computing
  <2>2. \A b \in Blocks : Candidates[b] = Blocks
    BY <1>1 DEF Candidates
  <2>3. QED
    BY <1>1, <2>1, <2>2 DEF CandidateFacts, T!DominatorsOf
<1>2. CASE Computing
  <2>1. TreeWords /\ T!SweepInvariant(cfg, Tree, bb2int, at)
    BY <1>2, TreeFacts DEF ExactInv, TreeInv
  <2>2. ASSUME NEW b \in Blocks
        PROVE  Candidates[b] = IF T!Settled(Tree, b) THEN T!Ancestors(Tree, b) ELSE Blocks
    BY <1>2, <2>1 DEF Candidates, TreeWords
  <2>3. ASSUME NEW b \in Blocks
        PROVE  T!DominatorsOf(cfg, b) \subseteq Candidates[b] /\ Candidates[b] \subseteq Blocks
    <3>1. CASE T!Settled(Tree, b)
      <4>1. \A d \in Blocks : T!Dominates(cfg, d, b) => d \in T!Ancestors(Tree, b)
        BY <2>1, <3>1, T!DominatorsOnChain DEF TreeWords, T!SweepInvariant
      <4>2. QED
        BY <2>2, <3>1, <4>1, T!AncestorsLeast DEF T!DominatorsOf
    <3>2. CASE ~ T!Settled(Tree, b)
      BY <2>2, <3>2 DEF T!DominatorsOf
    <3>3. QED
      BY <3>1, <3>2
  <2>4. ASSUME Reported, NEW b \in Blocks
        PROVE  Candidates[b] = T!DominatorsOf(cfg, b)
    <3>1. T!Finished(cfg, Tree, bb2int)
      BY <2>4, FrontierPhases, SettledFacts DEF Reported
    <3>2. T!Settled(Tree, b)
      BY <3>1 DEF T!Finished
    <3>3. QED
      BY <2>2, <3>1, <3>2, T!ChainsAreDominators
  <2>5. QED
    BY <1>2, <2>2, <2>3, <2>4 DEF CandidateFacts
<1>3. QED
  BY <1>1, <1>2

(* The same after a step. *)
LEMMA CandidatesHoldNext == (IInv /\ ExactInv => CandidateFacts)'
BY CandidatesHold, PTL

(* The first dominators, and each one stored later, refine the candidates. *)
LEMMA RefineSteps ==
  ASSUME IInv, ExactInv, IInv', ExactInv', InitDoms \/ StoreIdom
  PROVE  Abstract!Refine
<1>1. CandidateFacts /\ CandidateFacts' /\ cfg' = cfg /\ ~ Reported /\ ~ Reported'
  BY CandidatesHold, CandidatesHoldNext DEF InitDoms, StoreIdom, Reported
<1>2. Candidates' \in [Blocks -> SUBSET Blocks]
  BY <1>1 DEF CandidateFacts, Candidates
<1>3. ASSUME NEW b \in Blocks PROVE Candidates'[b] \subseteq Candidates[b]
  <2>1. CASE InitDoms
    <3>1. Candidates[b] = Blocks
      BY <1>1, <2>1 DEF CandidateFacts, InitDoms, Computing, Abstract!AllCandidates
    <3>2. QED
      BY <1>1, <3>1 DEF CandidateFacts
  <2>2. CASE StoreIdom
    <3>1. Computing /\ Computing' /\ TreeWords
      BY <2>2, TreeFacts DEF StoreIdom, Computing
    <3>2. T!Visit(cfg, Tree, Tree', bb2int, at, BlockAt(at), new_idom)
      BY <2>2, StoreIsVisit
    <3>3. T!Numbered(cfg, bb2int) /\ T!SweepInvariant(cfg, Tree, bb2int, at)
      BY <3>1 DEF TreeWords, ExactInv, TreeInv
    <3>4. CASE T!Settled(Tree, b)
      <4>1. T!Ancestors(Tree', b) \subseteq T!Ancestors(Tree, b)
        BY <3>2, <3>3, <3>4, T!VisitShortens
      <4>2. T!Settled(Tree', b)
        BY <3>2, <3>3, <3>4, T!VisitUpdates
      <4>3. QED
        BY <1>1, <3>1, <3>4, <4>1, <4>2 DEF CandidateFacts
    <3>5. CASE ~ T!Settled(Tree, b)
      BY <1>1, <3>1, <3>5 DEF CandidateFacts
    <3>6. QED
      BY <3>4, <3>5
  <2>3. QED
    BY <2>1, <2>2
<1>4. \A b \in Blocks : T!DominatorsOf(cfg, b) \subseteq Candidates'[b]
  BY <1>1 DEF CandidateFacts
<1>5. QED
  BY <1>1, <1>2, <1>3, <1>4, AbstractWords

(* The steps that leave doms and the phase of the pass alone. *)
LEMMA SilentSteps ==
  ASSUME UNCHANGED <<cfg, doms, bb2int>>,
         pc \in {"start", "dfs"} <=> pc' \in {"start", "dfs"},
         (Reported' <=> Reported)
  PROVE  UNCHANGED Abstract!vars
<1>1. /\ \A x : Idom(x)' = Idom(x) /\ (Processed(x)' <=> Processed(x))
      /\ Computing' <=> Computing
  BY TreeKept DEF Computing
<1>2. \A b \in Blocks : Chain(b)' = Chain(b)
  BY <1>1 DEF Chain
<1>3. Candidates' = Candidates
  BY <1>1, <1>2 DEF Candidates
<1>4. QED
  BY <1>3, AbstractWords

(* Every step of the pass is a step of the abstract analysis or stutters. *)
LEMMA NextRefines ==
  IInv /\ ExactInv /\ [Next]_vars => [Abstract!Next]_(Abstract!vars)
<1> SUFFICES ASSUME IInv, ExactInv, [Next]_vars
             PROVE  Abstract!Next \/ UNCHANGED Abstract!vars
  BY DEF Abstract!Next
<1>1. IInv' /\ ExactInv'
  BY NextIInv, NextExact
<1>2. CandidateFacts /\ CandidateFacts'
  BY <1>1, CandidatesHold, CandidatesHoldNext
<1>3. CASE BeginFunction \/ PostOrder
  <2>1. ~ Computing /\ ~ Computing' /\ cfg' = cfg
    BY <1>3 DEF BeginFunction, PostOrder, VisitChild, FinishBlock, Computing
  <2>2. Candidates' = Candidates /\ (Reported' <=> Reported)
    BY <1>2, <2>1 DEF CandidateFacts
  <2>3. QED
    BY <2>1, <2>2, AbstractWords
<1>4. CASE InitDoms \/ StoreIdom
  BY <1>1, <1>4, RefineSteps DEF Abstract!Next
<1>5. CASE PublishIdoms
  <2>1. Reported' /\ Computing /\ Computing'
    BY <1>5 DEF PublishIdoms, Reported, Computing
  <2>2. UNCHANGED <<cfg, doms, bb2int>>
    BY <1>5 DEF PublishIdoms, dfsVars, sweepVars
  <2>3. Tree' = Tree
    BY <2>2, TreeKept
  <2>4. \A b \in Blocks : Candidates'[b] = Candidates[b]
    BY <1>2, <2>1, <2>3 DEF CandidateFacts
  <2>5. Candidates' = Candidates
    BY <2>4 DEF Candidates
  <2>6. \A b \in Blocks : Candidates[b] = T!DominatorsOf(cfg, b)
    BY <1>2, <2>1, <2>2, <2>4 DEF CandidateFacts
  <2>7. QED
    BY <2>1, <2>2, <2>5, <2>6, AbstractWords DEF Abstract!Next
<1>6. CASE RunAgain
  <2>1. Reported /\ ~ Computing' /\ cfg' = cfg
    BY <1>6 DEF RunAgain, Reported, Computing
  <2>2. QED
    BY <1>2, <2>1, AbstractWords DEF CandidateFacts, Abstract!Next
<1>7. CASE BeginSweep \/ SkipRoot \/ BeginMeet \/ Intersect
  <2>1. UNCHANGED <<cfg, doms, bb2int>> /\ {pc, pc'} \subseteq {"sweep", "meet", "climb"}
    BY <1>7 DEF BeginSweep, SkipRoot, BeginMeet, Intersect, BeginIntersect, Climb1, Climb2,
                EndIntersect, dfsVars, sweepVars
  <2>2. QED
    BY <2>1, SilentSteps DEF Reported
<1>8. CASE Frontier
  <2>1. UNCHANGED <<cfg, doms, bb2int>> /\ {pc, pc'} \subseteq {"front", "walk", "done"}
    BY <1>8 DEF Frontier, BeginWalk, AddFrontier, EndWalk, Finish, dfsVars, sweepVars
  <2>2. QED
    BY <2>1, SilentSteps DEF Reported
<1>9. CASE UNCHANGED vars
  BY <1>9, SilentSteps DEF vars, dfsVars, sweepVars, Reported
<1>10. QED
  BY <1>3, <1>4, <1>5, <1>6, <1>7, <1>8, <1>9 DEF Next, Sweep

(* The candidates of every block only shrink, none of its dominators is    *)
(* ever ruled out, and what the pass publishes is exactly the dominators:  *)
(* the pass implements the abstract analysis, on every graph.              *)
THEOREM Refinement == Spec => ImplementsDominanceSpec
<1>1. Init => Abstract!Init
  <2> SUFFICES ASSUME Init PROVE Abstract!Init
    OBVIOUS
  <2>1. ~ Computing /\ ~ Reported /\ cfg \in CFGs
    BY DEF Init, Computing, Reported
  <2>2. QED
    BY <2>1, AbstractWords DEF Candidates, Abstract!AllCandidates
<1>2. IInv /\ ExactInv /\ [Next]_vars => [Abstract!Next]_(Abstract!vars)
  BY NextRefines
<1>3. QED
  BY <1>1, <1>2, ExactInvariant, PTL DEF Spec, ImplementsDominanceSpec, Abstract!Spec

-----------------------------------------------------------------------------
(***************************************************************************)
(* The published dominators                                                *)
(***************************************************************************)
PublishedInv == Reported => \A b \in Blocks : idom[b] = Idom(b)

(* Once published, idom_ of every block but the entry is its immediate     *)
(* dominator; the entry has itself.                                        *)
IdomsImmediate ==
  Reported => /\ idom[Entry] = Entry
              /\ \A b \in Blocks \ {Entry} : Dom!IsImmediateDominator(cfg, idom[b], b)

(* The walks and the steps before them leave idom_ alone. *)
LEMMA NextPublished == IInv /\ PublishedInv /\ [Next]_vars => PublishedInv'
<1> SUFFICES ASSUME IInv, PublishedInv, [Next]_vars, Reported'
             PROVE  \A b \in Blocks : idom'[b] = Idom(b)'
  BY DEF PublishedInv
<1>1. CASE PublishIdoms
  <2>1. visited = Blocks /\ UNCHANGED <<doms, bb2int>>
    BY <1>1 DEF PublishIdoms, IInv, NumbersInv, Ordered, Computing, dfsVars, sweepVars
  <2>2. \A x : Idom(x)' = Idom(x)
    BY <2>1, TreeKept
  <2>3. QED
    BY <1>1, <2>1, <2>2 DEF PublishIdoms
<1>2. CASE Frontier \/ UNCHANGED vars
  <2>1. Reported /\ UNCHANGED <<idom, doms, bb2int>>
    BY <1>2 DEF Frontier, BeginWalk, AddFrontier, EndWalk, Finish, Reported,
                vars, dfsVars, sweepVars, blockVars
  <2>2. QED
    BY <2>1, TreeKept DEF PublishedInv
<1>3. CASE BeginFunction \/ PostOrder \/ RunAgain
  BY <1>3 DEF BeginFunction, PostOrder, VisitChild, FinishBlock, RunAgain, Reported
<1>4. CASE InitDoms \/ BeginSweep \/ SkipRoot \/ BeginMeet \/ StoreIdom
  BY <1>4 DEF InitDoms, BeginSweep, SkipRoot, BeginMeet, StoreIdom, Reported
<1>5. CASE Intersect
  BY <1>5 DEF Intersect, BeginIntersect, Climb1, Climb2, EndIntersect, Reported
<1>6. QED
  BY <1>1, <1>2, <1>3, <1>4, <1>5 DEF Next, Sweep

(* The dominators the pass publishes are the immediate ones, on every      *)
(* graph and in every execution of it.                                     *)
THEOREM ImmediateDominators == Spec => []IdomsImmediate
<1>1. Init => PublishedInv
  <2>1. Init => ~ Reported
    BY DEF Init, Reported
  <2>2. QED
    BY <2>1 DEF PublishedInv
<1>2. IInv /\ PublishedInv /\ [Next]_vars => PublishedInv'
  BY NextPublished
<1>3. IInv /\ ExactInv /\ PublishedInv => IdomsImmediate
  <2> SUFFICES ASSUME IInv, ExactInv, PublishedInv, Reported
               PROVE  /\ idom[Entry] = Entry
                      /\ \A b \in Blocks \ {Entry} : Dom!IsImmediateDominator(cfg, idom[b], b)
    BY DEF IdomsImmediate
  <2>1. T!Finished(cfg, Tree, bb2int) /\ TreeWords
    BY FrontierPhases, SettledFacts, TreeFacts DEF Reported, SweepsOver
  <2>2. Entry \in Blocks /\ \A b \in Blocks : idom[b] = Tree[b]
    BY <2>1, GraphFacts DEF PublishedInv, TreeWords, IInv
  <2>3. idom[Entry] = Entry
    BY <2>1, <2>2 DEF T!Finished, T!SweepInvariant, T!Ascends
  <2>4. ASSUME NEW b \in Blocks \ {Entry}
        PROVE  Dom!IsImmediateDominator(cfg, idom[b], b)
    <3>1. T!IsImmediateDominator(cfg, Tree[b], b)
      BY <2>1, T!RecordedIsImmediate
    <3>2. QED
      BY <2>2, <3>1 DEF Dom!IsImmediateDominator, T!IsImmediateDominator, Dom!Dominates,
                        T!Dominates, Dom!StrictlyDominates, T!StrictlyDominates
  <2>5. QED
    BY <2>3, <2>4
<1>4. QED
  BY <1>1, <1>2, <1>3, ExactInvariant, PTL DEF Spec
=============================================================================
