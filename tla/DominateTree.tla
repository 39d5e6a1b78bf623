---------------------------- MODULE DominateTree ----------------------------
(***************************************************************************)
(* The DominateTree pass (src/src/Optimize/DominateTree.cpp): the          *)
(* Cooper-Harvey-Kennedy iteration over a postorder numbering, then the    *)
(* dominance frontiers.  One action per step of each loop, so that the     *)
(* state between two assignments of the code is a state of the model.      *)
(*                                                                         *)
(* The successor and predecessor lists are modelled as sets: the order in  *)
(* which a loop meets their members is any order.  The recursion of        *)
(* get_post_order is an explicit stack of the activations in progress.     *)
(***************************************************************************)
EXTENDS Integers, Sequences

CONSTANTS Blocks,    \* the basic blocks of the function
          Entry,     \* Function::get_entry_block
          NULL,      \* the null pointer
          CFGs,      \* the control-flow graphs considered
          MaxRuns    \* how often the pass may be scheduled on the function

Dom == INSTANCE Dominators WITH Root <- Entry

(* IRBuilder never branches to the entry block and leaves no block that    *)
(* the entry does not reach.                                               *)
ASSUME GraphAssumption ==
  /\ Entry \in Blocks
  /\ NULL \notin Blocks
  /\ CFGs \subseteq Dom!Graphs
  /\ \A G \in CFGs : Dom!Rooted(G) /\ Dom!Preds(G, Entry) = {}

ASSUME RunsAssumption == MaxRuns \in Nat \ {0}

VARIABLES
  cfg,            \* BasicBlock::succ_bbs_ of every block
  pc,             \* the loop the pass is in
  runs,           \* executions of the pass begun so far
  visited,        \* the blocks get_post_order has entered
  stack,          \* the activations of get_post_order in progress
  order,          \* reverse_post_order before it is reversed
  bb2int,         \* postorder numbers; operator[] gives 0 to any other key
  doms,           \* doms[n]: the current dominator of the block numbered n
  changed,        \* the current sweep has updated doms
  at,             \* number of the block the sweep is at; -1 past the last
  pending,        \* predecessors still to be intersected with new_idom
  new_idom,
  finger1, finger2,
  edges,          \* edges into joins that get_bb_dom_front has not walked yet
  join, runner,   \* the join and the block its frontier walk is at
  idom,           \* BasicBlock::idom_
  dom_frontier    \* BasicBlock::dom_frontier_

dfsVars   == <<visited, stack, order, bb2int>>
sweepVars == <<doms, changed, at>>
meetVars  == <<pending, new_idom, finger1, finger2>>
walkVars  == <<edges, join, runner>>
blockVars == <<idom, dom_frontier>>
vars == <<cfg, pc, runs, dfsVars, sweepVars, meetVars, walkVars, blockVars>>

Pointers == Blocks \cup {NULL}
Phases == {"start", "dfs", "sweep", "meet", "climb", "front", "walk", "done"}

Preds(b) == Dom!Preds(cfg, b)
Top == stack[Len(stack)]
RootId == bb2int[Entry]
BlockAt(n) == order[n + 1]

(* doms[bb2int[b]], the lookup every loop of the pass makes. *)
Idom(b) == doms[bb2int[b]]
Processed(b) == Idom(b) # NULL

-----------------------------------------------------------------------------
Init ==
  /\ cfg \in CFGs
  /\ pc = "start"
  /\ runs = 0
  /\ visited = {} /\ stack = <<>> /\ order = <<>>
  /\ bb2int = [b \in Pointers |-> 0]
  /\ doms = [n \in {} |-> NULL] /\ changed = FALSE /\ at = -1
  /\ pending = {} /\ new_idom = NULL /\ finger1 = NULL /\ finger2 = NULL
  /\ edges = {} /\ join = NULL /\ runner = NULL
  /\ idom = [b \in Blocks |-> NULL]
  /\ dom_frontier = [b \in Blocks |-> {}]

(* get_revserse_post_order: forget the last function, enter the entry.     *)
BeginFunction ==
  /\ pc = "start"
  /\ pc' = "dfs"
  /\ runs' = runs + 1
  /\ visited' = {Entry}
  /\ stack' = <<Entry>>
  /\ order' = <<>>
  /\ bb2int' = [b \in Pointers |-> 0]
  /\ doms' = [n \in {} |-> NULL]
  /\ UNCHANGED <<cfg, changed, at, meetVars, walkVars, blockVars>>

(* get_post_order calls itself on a successor it has not visited.          *)
VisitChild(c) ==
  /\ pc = "dfs"
  /\ stack # <<>>
  /\ c \in cfg[Top] \ visited
  /\ visited' = visited \cup {c}
  /\ stack' = Append(stack, c)
  /\ UNCHANGED <<cfg, pc, runs, order, bb2int, sweepVars, meetVars, walkVars, blockVars>>

(* Faulty: the loop over the successors stops after the first one.         *)
FinishBlock_OneChild ==
  /\ pc = "dfs"
  /\ stack # <<>>
  /\ cfg[Top] = {} \/ cfg[Top] \cap visited # {}
  /\ bb2int' = [bb2int EXCEPT ![Top] = Len(order)]
  /\ order' = Append(order, Top)
  /\ stack' = SubSeq(stack, 1, Len(stack) - 1)
  /\ UNCHANGED <<cfg, pc, runs, visited, sweepVars, meetVars, walkVars, blockVars>>

(* Every successor is visited: the activation numbers its block, returns.  *)
FinishBlock ==
  /\ pc = "dfs"
  /\ stack # <<>>
  /\ cfg[Top] \subseteq visited
  /\ bb2int' = [bb2int EXCEPT ![Top] = Len(order)]
  /\ order' = Append(order, Top)
  /\ stack' = SubSeq(stack, 1, Len(stack) - 1)
  /\ UNCHANGED <<cfg, pc, runs, visited, sweepVars, meetVars, walkVars, blockVars>>

(* get_bb_idom: size doms for the numbers in use; the root dominates itself. *)
InitDoms ==
  /\ pc = "dfs"
  /\ stack = <<>>
  /\ pc' = "sweep"
  /\ doms' = [n \in 0 .. RootId |-> IF n = RootId THEN Entry ELSE NULL]
  /\ changed' = TRUE
  /\ at' = -1
  /\ UNCHANGED <<cfg, runs, dfsVars, meetVars, walkVars, blockVars>>

(* Faulty: the sweep starts one past the last number.                      *)
BeginSweep_OffByOne ==
  /\ pc = "sweep"
  /\ at = -1
  /\ changed
  /\ changed' = FALSE
  /\ at' = Len(order)
  /\ UNCHANGED <<cfg, pc, runs, dfsVars, doms, meetVars, walkVars, blockVars>>

(* while(changed): another pass over the blocks, in reverse postorder.     *)
BeginSweep ==
  /\ pc = "sweep"
  /\ at = -1
  /\ changed
  /\ changed' = FALSE
  /\ at' = Len(order) - 1
  /\ UNCHANGED <<cfg, pc, runs, dfsVars, doms, meetVars, walkVars, blockVars>>

SkipRoot ==
  /\ pc = "sweep"
  /\ at # -1
  /\ BlockAt(at) = Entry
  /\ at' = at - 1
  /\ UNCHANGED <<cfg, pc, runs, dfsVars, doms, changed, meetVars, walkVars, blockVars>>

(* Faulty: the test for a processed predecessor is dropped.                *)
BeginMeet_Unprocessed ==
  /\ pc = "sweep"
  /\ at # -1
  /\ BlockAt(at) # Entry
  /\ pc' = "meet"
  /\ pending' = Preds(BlockAt(at))
  /\ new_idom' \in IF pending' = {} THEN {NULL} ELSE pending'
  /\ UNCHANGED <<cfg, runs, dfsVars, sweepVars, finger1, finger2, walkVars, blockVars>>

(* Faulty: the first processed predecessor is taken, none is intersected.  *)
BeginMeet_FirstOnly ==
  /\ pc = "sweep"
  /\ at # -1
  /\ BlockAt(at) # Entry
  /\ pc' = "meet"
  /\ pending' = {}
  /\ new_idom' \in {p \in Preds(BlockAt(at)) : Processed(p)}
  /\ UNCHANGED <<cfg, runs, dfsVars, sweepVars, finger1, finger2, walkVars, blockVars>>

(* new_idom starts as the first processed predecessor, null if there is    *)
(* none; every processed predecessor is then intersected with it.          *)
BeginMeet ==
  /\ pc = "sweep"
  /\ at # -1
  /\ BlockAt(at) # Entry
  /\ pc' = "meet"
  /\ pending' = {p \in Preds(BlockAt(at)) : Processed(p)}
  /\ new_idom' \in IF pending' = {} THEN {NULL} ELSE pending'
  /\ UNCHANGED <<cfg, runs, dfsVars, sweepVars, finger1, finger2, walkVars, blockVars>>

(* intersect(pred, new_idom) is called. *)
BeginIntersect(p) ==
  /\ pc = "meet"
  /\ p \in pending
  /\ pc' = "climb"
  /\ pending' = pending \ {p}
  /\ finger1' = p
  /\ finger2' = new_idom
  /\ UNCHANGED <<cfg, runs, dfsVars, sweepVars, new_idom, walkVars, blockVars>>

Climb1 ==
  /\ pc = "climb"
  /\ bb2int[finger1] < bb2int[finger2]
  /\ finger1' = Idom(finger1)
  /\ UNCHANGED <<cfg, pc, runs, dfsVars, sweepVars, pending, new_idom, finger2,
                 walkVars, blockVars>>

Climb2 ==
  /\ pc = "climb"
  /\ bb2int[finger2] < bb2int[finger1]
  /\ finger2' = Idom(finger2)
  /\ UNCHANGED <<cfg, pc, runs, dfsVars, sweepVars, pending, new_idom, finger1,
                 walkVars, blockVars>>

EndIntersect ==
  /\ pc = "climb"
  /\ finger1 = finger2
  /\ pc' = "meet"
  /\ new_idom' = finger1
  /\ UNCHANGED <<cfg, runs, dfsVars, sweepVars, pending, finger1, finger2,
                 walkVars, blockVars>>

(* Faulty: an update does not ask for another sweep.                       *)
StoreIdom_OneSweep ==
  /\ pc = "meet"
  /\ pending = {}
  /\ pc' = "sweep"
  /\ doms' = [doms EXCEPT ![bb2int[BlockAt(at)]] = new_idom]
  /\ at' = at - 1
  /\ UNCHANGED <<cfg, runs, dfsVars, changed, meetVars, walkVars, blockVars>>

(* Faulty: every store asks for another sweep, news or not.                *)
StoreIdom_AlwaysChanged ==
  /\ pc = "meet"
  /\ pending = {}
  /\ pc' = "sweep"
  /\ doms' = [doms EXCEPT ![bb2int[BlockAt(at)]] = new_idom]
  /\ changed' = TRUE
  /\ at' = at - 1
  /\ UNCHANGED <<cfg, runs, dfsVars, meetVars, walkVars, blockVars>>

(* All predecessors are intersected: record the result if it is news.      *)
StoreIdom ==
  /\ pc = "meet"
  /\ pending = {}
  /\ pc' = "sweep"
  /\ IF Idom(BlockAt(at)) # new_idom
       THEN /\ doms' = [doms EXCEPT ![bb2int[BlockAt(at)]] = new_idom]
            /\ changed' = TRUE
       ELSE UNCHANGED <<doms, changed>>
  /\ at' = at - 1
  /\ UNCHANGED <<cfg, runs, dfsVars, meetVars, walkVars, blockVars>>

(* A sweep changed nothing: publish idom_, start on the frontiers.         *)
PublishIdoms ==
  /\ pc = "sweep"
  /\ at = -1
  /\ ~ changed
  /\ pc' = "front"
  /\ idom' = [b \in Blocks |-> IF b \in visited THEN Idom(b) ELSE idom[b]]
  /\ edges' = {e \in Blocks \X Blocks :
                 /\ e[2] \in cfg[e[1]]
                 /\ \E p \in Preds(e[2]) : p # e[1]}
  /\ UNCHANGED <<cfg, runs, dfsVars, sweepVars, meetVars, join, runner, dom_frontier>>

(* Faulty: the runner starts above the predecessor.                        *)
BeginWalk_SkipsPred(p, b) ==
  /\ pc = "front"
  /\ <<p, b>> \in edges
  /\ pc' = "walk"
  /\ edges' = edges \ {<<p, b>>}
  /\ join' = b
  /\ runner' = IF p = Idom(b) THEN p ELSE Idom(p)
  /\ UNCHANGED <<cfg, runs, dfsVars, sweepVars, meetVars, blockVars>>

(* get_bb_dom_front: a block with two or more predecessors; start the      *)
(* runner at one of them.                                                  *)
BeginWalk(p, b) ==
  /\ pc = "front"
  /\ <<p, b>> \in edges
  /\ pc' = "walk"
  /\ edges' = edges \ {<<p, b>>}
  /\ join' = b
  /\ runner' = p
  /\ UNCHANGED <<cfg, runs, dfsVars, sweepVars, meetVars, blockVars>>

AddFrontier ==
  /\ pc = "walk"
  /\ runner # Idom(join)
  /\ dom_frontier' = [dom_frontier EXCEPT ![runner] = @ \cup {join}]
  /\ runner' = Idom(runner)
  /\ UNCHANGED <<cfg, pc, runs, dfsVars, sweepVars, meetVars, edges, join, idom>>

EndWalk ==
  /\ pc = "walk"
  /\ runner = Idom(join)
  /\ pc' = "front"
  /\ UNCHANGED <<cfg, runs, dfsVars, sweepVars, meetVars, walkVars, blockVars>>

Finish ==
  /\ pc = "front"
  /\ edges = {}
  /\ pc' = "done"
  /\ UNCHANGED <<cfg, runs, dfsVars, sweepVars, meetVars, walkVars, blockVars>>

(* The PassMgr runs another DominateTree: idom_ and dom_frontier_ keep     *)
(* what the last execution left there.                                     *)
RunAgain ==
  /\ pc = "done"
  /\ runs < MaxRuns
  /\ pc' = "start"
  /\ UNCHANGED <<cfg, runs, dfsVars, sweepVars, meetVars, walkVars, blockVars>>

PostOrder == (\E c \in Blocks : VisitChild(c)) \/ FinishBlock
Sweep     == InitDoms \/ BeginSweep \/ SkipRoot \/ BeginMeet \/ StoreIdom \/ PublishIdoms
Intersect == (\E p \in Blocks : BeginIntersect(p)) \/ Climb1 \/ Climb2 \/ EndIntersect
Frontier  == (\E p, b \in Blocks : BeginWalk(p, b)) \/ AddFrontier \/ EndWalk \/ Finish

Next == BeginFunction \/ PostOrder \/ Sweep \/ Intersect \/ Frontier \/ RunAgain

Spec == Init /\ [][Next]_vars

(* A sequential program takes its next step as long as it has one. *)
FairSpec == Spec /\ WF_vars(Next)

-----------------------------------------------------------------------------
(***************************************************************************)
(* Properties                                                              *)
(***************************************************************************)
TypeOK ==
  /\ cfg \in CFGs
  /\ pc \in Phases
  /\ runs \in 0 .. MaxRuns
  /\ visited \in SUBSET Blocks
  /\ stack \in Seq(Blocks)
  /\ order \in Seq(Blocks)
  /\ bb2int \in [Pointers -> Nat]
  /\ \/ pc \in {"start", "dfs"}
     \/ doms \in [0 .. RootId -> Pointers]
  /\ changed \in BOOLEAN
  /\ at \in -1 .. Len(order) - 1
  /\ pending \in SUBSET Blocks
  /\ {new_idom, finger1, finger2, join, runner} \subseteq Pointers
  /\ edges \in SUBSET (Blocks \X Blocks)
  /\ idom \in [Blocks -> Pointers]
  /\ dom_frontier \in [Blocks -> SUBSET Blocks]

(* The blocks on the way from b up to the root along doms: every set that  *)
(* holds b and the dominator of each member holds them.                    *)
Chain(b) ==
  {d \in Blocks : \A S \in SUBSET Blocks :
     b \in S /\ (\A x \in S : Processed(x) => Idom(x) \in S) => d \in S}

Computing == pc \notin {"start", "dfs"}

(* When get_post_order has returned to its first caller, every block has a *)
(* number, no two the same, the entry the highest, and every other block a *)
(* predecessor numbered above it (which the first sweep therefore meets    *)
(* first).                                                                 *)
PostOrderNumbers ==
  Computing =>
    /\ \A b, c \in Blocks : b # c => bb2int[b] # bb2int[c]
    /\ \A b \in Blocks \ {Entry} :
         /\ bb2int[b] < RootId
         /\ \E p \in Preds(b) : bb2int[b] < bb2int[p]

(* A dominator recorded in doms has a higher postorder number than the     *)
(* block it is recorded for, so every climb along doms ends at the root.   *)
DomsAscend ==
  Computing =>
    /\ Idom(Entry) = Entry
    /\ \A b \in Blocks \ {Entry} : Processed(b) => bb2int[b] < bb2int[Idom(b)]

(* intersect never steps onto the null pointer, where bb2int[] would give  *)
(* it the number 0 of another block and the climb would go astray.         *)
IntersectStaysOnBlocks ==
  pc = "climb" => finger1 \in Blocks /\ finger2 \in Blocks

(* When the pass ends, every frontier is exact, also after a second run    *)
(* over sets that are never cleared.                                       *)
FrontierExact ==
  pc = "done" =>
    \A b \in Blocks : dom_frontier[b] = Dom!DominanceFrontier(cfg, b)

(* The pass ends: the sweeps reach a fixpoint, every climb meets. *)
Termination == <>(pc = "done" /\ runs = MaxRuns)

-----------------------------------------------------------------------------
(* The pass implements the abstract analysis: the candidates of a block    *)
(* are all blocks until it has a dominator, its chain from then on.        *)
Abstract == INSTANCE DominanceSpec WITH
  Root <- Entry,
  candidates <- [b \in Blocks |-> IF Computing /\ Processed(b) THEN Chain(b) ELSE Blocks],
  reported <- pc \in {"front", "walk", "done"}

ImplementsDominanceSpec == Abstract!Spec
=============================================================================
