---------------------------- MODULE RDominateTree ----------------------------
(***************************************************************************)
(* The RDominateTree pass: postdominators, by the iteration of DominateTree *)
(* along the edges turned around, starting from the block that returns.    *)
(* Then the frontiers, and last the sets rdoms_ from the immediate         *)
(* postdominators, which are not kept themselves.  The pass goes through   *)
(* the functions of a module with one set of fields.                       *)
(*                                                                         *)
(* As in DominateTree the edge lists are sets, met in any order, and the   *)
(* recursion of get_post_order is a stack.                                 *)
(***************************************************************************)
EXTENDS Integers, Sequences, FiniteSets

CONSTANTS Blocks,       \* The basic blocks a function may have.
          NULL,         \* The null pointer.
          CFGs,         \* The control-flow graphs considered.
          MaxFunctions  \* The functions the pass goes through.

(* A graph maps the blocks of a function to the sets of their successors. *)
Preds(G, b) == {p \in DOMAIN G : b \in G[p]}
Returns(G) == {b \in DOMAIN G : G[b] = {}}

(* IRBuilder makes one block that returns, and every block reaches it.     *)
ASSUME ReverseAssumption ==
  /\ IsFiniteSet(Blocks) /\ NULL \notin Blocks /\ MaxFunctions \in Nat \ {0}
  /\ \A G \in CFGs :
       /\ DOMAIN G \subseteq Blocks /\ G \in [DOMAIN G -> SUBSET DOMAIN G]
       /\ Cardinality(Returns(G)) = 1
       /\ \A S \in SUBSET DOMAIN G :
            Returns(G) \subseteq S /\ (\A b \in DOMAIN G : G[b] \cap S # {} => b \in S) => S = DOMAIN G

VARIABLES
  cfg,             \* BasicBlock::succ_bbs_ of every block of the function
  pc,              \* The loop the pass is in.
  functions,       \* The functions begun so far.
  exit_block,      \* The block that returns; kept from function to function.
  visited, stack,  \* get_post_order: the blocks entered, the calls in progress
  order,           \* reverse_post_order before it is reversed
  bb2int,          \* operator[] gives 0 to any other key.
  rdoms,
  changed, at,     \* The sweep: whether it updated rdoms, and the number it is at.
  pending, new_irdom, finger1, finger2,
  edges,           \* The edges get_bb_rdom_front has not walked yet.
  branch, runner,  \* The branching block and the block its walk is at.
  unfilled,        \* The blocks get_bb_rdoms has not begun.
  bb, current,     \* The block it fills, and the block to be added.
  rdom, rdom_frontier  \* BasicBlock::rdoms_ and rdom_frontier_

orderVars == <<exit_block, visited, stack, order, bb2int>>
sweepVars == <<rdoms, changed, at>>
meetVars  == <<pending, new_irdom, finger1, finger2>>
walkVars  == <<edges, branch, runner>>
fillVars  == <<unfilled, bb, current>>
blockVars == <<rdom, rdom_frontier>>
vars == <<cfg, pc, functions, orderVars, sweepVars, meetVars, walkVars, fillVars, blockVars>>

Pointers == Blocks \cup {NULL}
Listed == DOMAIN cfg
Top == stack[Len(stack)]
BlockAt(n) == order[n + 1]
Irdom(b) == rdoms[bb2int[b]]
Processed(b) == Irdom(b) # NULL

-----------------------------------------------------------------------------
Init ==
  /\ cfg \in CFGs
  /\ pc = "start" /\ functions = 0
  /\ exit_block = NULL /\ visited = {} /\ stack = <<>> /\ order = <<>>
  /\ bb2int = [b \in Pointers |-> 0]
  /\ rdoms = [n \in {} |-> NULL] /\ changed = FALSE /\ at = -1
  /\ pending = {} /\ new_irdom = NULL /\ finger1 = NULL /\ finger2 = NULL
  /\ edges = {} /\ branch = NULL /\ runner = NULL
  /\ unfilled = {} /\ bb = NULL /\ current = NULL
  /\ rdom = [b \in Listed |-> {}] /\ rdom_frontier = [b \in Listed |-> {}]

(* execute clears the sets; get_revserse_post_order forgets the last       *)
(* function and looks for the block that returns.                          *)
BeginFunction ==
  /\ pc = "start"
  /\ pc' = "dfs" /\ functions' = functions + 1
  /\ rdom' = [b \in Listed |-> {}] /\ rdom_frontier' = [b \in Listed |-> {}]
  /\ exit_block' \in Returns(cfg)
  /\ visited' = {exit_block'} /\ stack' = <<exit_block'>>
  /\ order' = <<>> /\ bb2int' = [b \in Pointers |-> 0] /\ rdoms' = [n \in {} |-> NULL]
  /\ UNCHANGED <<cfg, changed, at, meetVars, walkVars, fillVars>>

(* get_post_order calls itself on a predecessor it has not visited ... *)
VisitParent(p) ==
  /\ pc = "dfs" /\ stack # <<>>
  /\ p \in Preds(cfg, Top) \ visited
  /\ visited' = visited \cup {p}
  /\ stack' = Append(stack, p)
  /\ UNCHANGED <<cfg, pc, functions, exit_block, order, bb2int, sweepVars, meetVars, walkVars, fillVars, blockVars>>

(* ... and numbers its block when there is none. *)
FinishBlock ==
  /\ pc = "dfs" /\ stack # <<>>
  /\ Preds(cfg, Top) \subseteq visited
  /\ bb2int' = [bb2int EXCEPT ![Top] = Len(order)]
  /\ order' = Append(order, Top)
  /\ stack' = SubSeq(stack, 1, Len(stack) - 1)
  /\ UNCHANGED <<cfg, pc, functions, exit_block, visited, sweepVars, meetVars, walkVars, fillVars, blockVars>>

(* get_bb_irdom: the root is its own. *)
InitRdoms ==
  /\ pc = "dfs" /\ stack = <<>>
  /\ pc' = "sweep"
  /\ rdoms' = [n \in 0 .. bb2int[exit_block] |-> IF n = bb2int[exit_block] THEN exit_block ELSE NULL]
  /\ changed' = TRUE /\ at' = -1
  /\ UNCHANGED <<cfg, functions, orderVars, meetVars, walkVars, fillVars, blockVars>>

BeginSweep ==
  /\ pc = "sweep" /\ at = -1 /\ changed
  /\ changed' = FALSE
  /\ at' = Len(order) - 1
  /\ UNCHANGED <<cfg, pc, functions, orderVars, rdoms, meetVars, walkVars, fillVars, blockVars>>

SkipRoot ==
  /\ pc = "sweep" /\ at # -1 /\ BlockAt(at) = exit_block
  /\ at' = at - 1
  /\ UNCHANGED <<cfg, pc, functions, orderVars, rdoms, changed, meetVars, walkVars, fillVars, blockVars>>

(* Faulty: the successors not yet reached are met too. *)
BeginMeet_Unprocessed ==
  /\ pc = "sweep" /\ at # -1 /\ BlockAt(at) # exit_block
  /\ pc' = "meet"
  /\ pending' = cfg[BlockAt(at)]
  /\ new_irdom' \in pending'
  /\ UNCHANGED <<cfg, functions, orderVars, sweepVars, finger1, finger2, walkVars, fillVars, blockVars>>

(* The successors that have a postdominator are met, from one of them on. *)
BeginMeet ==
  /\ pc = "sweep" /\ at # -1 /\ BlockAt(at) # exit_block
  /\ pc' = "meet"
  /\ pending' = {s \in cfg[BlockAt(at)] : Processed(s)}
  /\ new_irdom' \in IF pending' = {} THEN {NULL} ELSE pending'
  /\ UNCHANGED <<cfg, functions, orderVars, sweepVars, finger1, finger2, walkVars, fillVars, blockVars>>

BeginIntersect(s) ==
  /\ pc = "meet" /\ s \in pending
  /\ pc' = "climb"
  /\ pending' = pending \ {s}
  /\ finger1' = s /\ finger2' = new_irdom
  /\ UNCHANGED <<cfg, functions, orderVars, sweepVars, new_irdom, walkVars, fillVars, blockVars>>

(* intersect: the finger with the lower number goes up. *)
Climb ==
  /\ pc = "climb" /\ finger1 # finger2
  /\ \/ bb2int[finger1] < bb2int[finger2] /\ finger1' = Irdom(finger1) /\ UNCHANGED finger2
     \/ bb2int[finger2] < bb2int[finger1] /\ finger2' = Irdom(finger2) /\ UNCHANGED finger1
  /\ UNCHANGED <<cfg, pc, functions, orderVars, sweepVars, pending, new_irdom, walkVars, fillVars, blockVars>>

EndIntersect ==
  /\ pc = "climb" /\ finger1 = finger2
  /\ pc' = "meet"
  /\ new_irdom' = finger1
  /\ UNCHANGED <<cfg, functions, orderVars, sweepVars, pending, finger1, finger2, walkVars, fillVars, blockVars>>

(* Faulty: another sweep is asked for by every block. *)
StoreIrdom_AlwaysChanged ==
  /\ pc = "meet" /\ pending = {}
  /\ pc' = "sweep"
  /\ rdoms' = [rdoms EXCEPT ![bb2int[BlockAt(at)]] = new_irdom]
  /\ changed' = TRUE
  /\ at' = at - 1
  /\ UNCHANGED <<cfg, functions, orderVars, meetVars, walkVars, fillVars, blockVars>>

StoreIrdom ==
  /\ pc = "meet" /\ pending = {}
  /\ pc' = "sweep"
  /\ rdoms' = [rdoms EXCEPT ![bb2int[BlockAt(at)]] = new_irdom]
  /\ changed' = (changed \/ Irdom(BlockAt(at)) # new_irdom)
  /\ at' = at - 1
  /\ UNCHANGED <<cfg, functions, orderVars, meetVars, walkVars, fillVars, blockVars>>

(* get_bb_rdom_front: the edges out of the blocks with two successors. *)
BeginFrontiers ==
  /\ pc = "sweep" /\ at = -1 /\ ~changed
  /\ pc' = "front"
  /\ edges' = {e \in Listed \X Listed : e[2] \in cfg[e[1]] /\ Cardinality(cfg[e[1]]) >= 2}
  /\ UNCHANGED <<cfg, functions, orderVars, sweepVars, meetVars, branch, runner, fillVars, blockVars>>

BeginWalk(e) ==
  /\ pc = "front" /\ e \in edges
  /\ pc' = "walk"
  /\ edges' = edges \ {e}
  /\ branch' = e[1] /\ runner' = e[2]
  /\ UNCHANGED <<cfg, functions, orderVars, sweepVars, meetVars, fillVars, blockVars>>

(* Faulty: the walk goes on from the branching block. *)
AddFrontier_FromBranch ==
  /\ pc = "walk" /\ runner # Irdom(branch)
  /\ rdom_frontier' = [rdom_frontier EXCEPT ![runner] = @ \cup {branch}]
  /\ runner' = Irdom(branch)
  /\ UNCHANGED <<cfg, pc, functions, orderVars, sweepVars, meetVars, edges, branch, fillVars, rdom>>

AddFrontier ==
  /\ pc = "walk" /\ runner # Irdom(branch)
  /\ rdom_frontier' = [rdom_frontier EXCEPT ![runner] = @ \cup {branch}]
  /\ runner' = Irdom(runner)
  /\ UNCHANGED <<cfg, pc, functions, orderVars, sweepVars, meetVars, edges, branch, fillVars, rdom>>

EndWalk ==
  /\ pc = "walk" /\ runner = Irdom(branch)
  /\ pc' = "front"
  /\ UNCHANGED <<cfg, functions, orderVars, sweepVars, meetVars, walkVars, fillVars, blockVars>>

(* get_bb_rdoms: every block but the exit. *)
BeginRdoms ==
  /\ pc = "front" /\ edges = {}
  /\ pc' = "fill"
  /\ unfilled' = Listed \ {exit_block} /\ bb' = exit_block /\ current' = exit_block
  /\ UNCHANGED <<cfg, functions, orderVars, sweepVars, meetVars, walkVars, blockVars>>

(* Faulty: the walk starts above the block. *)
BeginBlock_Strict(b) ==
  /\ pc = "fill" /\ current = exit_block /\ b \in unfilled
  /\ unfilled' = unfilled \ {b}
  /\ bb' = b /\ current' = Irdom(b)
  /\ UNCHANGED <<cfg, pc, functions, orderVars, sweepVars, meetVars, walkVars, blockVars>>

BeginBlock(b) ==
  /\ pc = "fill" /\ current = exit_block /\ b \in unfilled
  /\ unfilled' = unfilled \ {b}
  /\ bb' = b /\ current' = b
  /\ UNCHANGED <<cfg, pc, functions, orderVars, sweepVars, meetVars, walkVars, blockVars>>

(* add_rdom; the exit itself is not added. *)
AddRdom ==
  /\ pc = "fill" /\ current # exit_block
  /\ rdom' = [rdom EXCEPT ![bb] = @ \cup {current}]
  /\ current' = Irdom(current)
  /\ UNCHANGED <<cfg, pc, functions, orderVars, sweepVars, meetVars, walkVars, unfilled, bb, rdom_frontier>>

EndFunction ==
  /\ pc = "fill" /\ current = exit_block /\ unfilled = {}
  /\ pc' = "done"
  /\ changed' = FALSE /\ at' = -1 /\ pending' = {} /\ edges' = {}
  /\ new_irdom' = NULL /\ finger1' = NULL /\ finger2' = NULL
  /\ branch' = NULL /\ runner' = NULL /\ bb' = NULL /\ current' = NULL
  /\ UNCHANGED <<cfg, functions, orderVars, rdoms, unfilled, blockVars>>

(* The next function, or this one when the pass runs again: the fields     *)
(* keep what they hold, and so do the blocks of this one.                  *)
NextFunction ==
  /\ pc = "done" /\ functions < MaxFunctions
  /\ pc' = "start"
  /\ cfg' \in CFGs
  /\ IF cfg' = cfg THEN UNCHANGED blockVars
     ELSE rdom' = [b \in DOMAIN cfg' |-> {}] /\ rdom_frontier' = [b \in DOMAIN cfg' |-> {}]
  /\ UNCHANGED <<functions, orderVars, sweepVars, meetVars, walkVars, fillVars>>

get_post_order == (\E p \in Blocks : VisitParent(p)) \/ FinishBlock
get_bb_irdom == InitRdoms \/ BeginSweep \/ SkipRoot \/ BeginMeet \/ StoreIrdom
intersect == (\E s \in Blocks : BeginIntersect(s)) \/ Climb \/ EndIntersect
get_bb_rdom_front == BeginFrontiers \/ (\E e \in Blocks \X Blocks : BeginWalk(e)) \/ AddFrontier \/ EndWalk
get_bb_rdoms == BeginRdoms \/ (\E b \in Blocks : BeginBlock(b)) \/ AddRdom \/ EndFunction

Next ==
  BeginFunction \/ get_post_order \/ get_bb_irdom \/ intersect \/ get_bb_rdom_front \/ get_bb_rdoms \/ NextFunction

Spec == Init /\ [][Next]_vars

(* A sequential program takes its next step as long as it has one. *)
FairSpec == Spec /\ WF_vars(Next)

-----------------------------------------------------------------------------
(***************************************************************************)
(* No walk leaves the blocks: a finger, a runner or the block being added  *)
(* that were null would be looked up under the number 0 of another block.  *)
(***************************************************************************)
TypeOK ==
  /\ cfg \in [Listed -> SUBSET Listed] /\ functions \in 0 .. MaxFunctions
  /\ pc \in {"start", "dfs", "sweep", "meet", "climb", "front", "walk", "fill", "done"}
  /\ exit_block \in Pointers /\ visited \subseteq Blocks /\ stack \in Seq(Blocks) /\ order \in Seq(Blocks)
  /\ bb2int \in [Pointers -> Nat]
  /\ pc \notin {"start", "dfs"} => rdoms \in [0 .. bb2int[exit_block] -> Pointers]
  /\ changed \in BOOLEAN /\ at \in -1 .. Len(order) - 1
  /\ pending \subseteq Blocks /\ new_irdom \in Pointers
  /\ pc = "climb" => {finger1, finger2} \subseteq Blocks
  /\ edges \subseteq Blocks \X Blocks /\ (pc = "walk" => {branch, runner} \subseteq Blocks)
  /\ unfilled \subseteq Blocks /\ (pc = "fill" => {bb, current} \subseteq Blocks)
  /\ rdom \in [Listed -> SUBSET Listed] /\ rdom_frontier \in [Listed -> SUBSET Listed]

Post == INSTANCE Dominators WITH Blocks <- Listed, Root <- exit_block
Turned == Post!Reversed(cfg)

(***************************************************************************)
(* At the end of each function the sets are those of this function, by the *)
(* definition of dominance in the graph turned around: every postdominator *)
(* but the exit, the block itself among them, and none for the exit; and   *)
(* the frontiers on which control dependence rests.                        *)
(***************************************************************************)
PostdominatorsExact ==
  pc = "done" =>
    \A b \in Listed :
      rdom[b] = IF b = exit_block THEN {} ELSE Post!DominatorsOf(Turned, b) \ {exit_block}
ReverseFrontierExact ==
  pc = "done" => \A b \in Listed : rdom_frontier[b] = Post!DominanceFrontier(Turned, b)

(* The sweeps end, and so does every walk up to the exit. *)
RTermination == <>(pc = "done" /\ functions = MaxFunctions)
=============================================================================
