------------------------------ MODULE Mem2Reg ------------------------------
(***************************************************************************)
(* The Mem2Reg pass (src/src/Optimize/Mem2Reg.cpp): loads and stores of    *)
(* scalar locals become SSA values and phi instructions.  After the pass   *)
(* the model runs the program it was given and the program it produced     *)
(* side by side, over the same branches and the same inputs.               *)
(*                                                                         *)
(* A block's code is a sequence of instructions.  "def" stands for any     *)
(* instruction that computes a value, "use" for any that consumes one;     *)
(* "load" and "store" are the memory operations.  An instruction is known  *)
(* by its block and position, a phi by its block and the local it is for.  *)
(* The dominance frontiers are those of the DominateTree pass, which has   *)
(* run; the def-use lists are complete (module DefUse), so that replacing  *)
(* a value means replacing it in every operand.                            *)
(***************************************************************************)
EXTENDS Integers, Sequences, FiniteSets, SequencesExt

CONSTANTS Blocks, Entry,
          BlockList,   \* the function's basic_blocks_ in list order
          Locals,      \* alloca'd scalars
          Globals,     \* addresses isLocalVarOp rejects: globals, elements
          Programs,    \* the functions considered: a graph and its code
          Data,        \* the data an instruction can compute
          NULL, Undef

Dom == INSTANCE Dominators WITH Root <- Entry

Vars == Locals \cup Globals
Instrs == [op : {"def", "use", "load", "store"}, var : Vars \cup {NULL}, arg : Nat]

Stores(p, b, v) == {i \in 1 .. Len(p.code[b]) : p.code[b][i].op = "store" /\ p.code[b][i].var = v}
Loads(p, b, v)  == {i \in 1 .. Len(p.code[b]) : p.code[b][i].op = "load" /\ p.code[b][i].var = v}

(* Every walk from the entry stores v before it reaches the start of b.    *)
AssignedBefore(p, v, b) ==
  \E S \in SUBSET (Blocks \ {b}) :
    Entry \in S /\ \A x \in S : Stores(p, x, v) # {} \/ p.cfg[x] \subseteq S

DefinitelyAssigned(p) ==
  \A b \in Blocks, v \in Locals : \A i \in Loads(p, b, v) :
    AssignedBefore(p, v, b) \/ \E j \in Stores(p, b, v) : j < i

(* An operand is what an earlier instruction of the block computed: locals *)
(* carry a value from one block to another.                                *)
WellFormed(c) ==
  \A k \in 1 .. Len(c) :
    /\ c[k].op \in {"load", "store"} => c[k].var \in Vars
    /\ c[k].op \in {"use", "store"} =>
         c[k].arg \in 1 .. k - 1 /\ c[c[k].arg].op \in {"def", "load"}

(* What IRBuilder hands over, from a program that reads no local before it *)
(* assigns it (one that does has no meaning in SysY).                      *)
ASSUME ProgramAssumption ==
  /\ Entry \in Blocks
  /\ BlockList \in Seq(Blocks) /\ ToSet(BlockList) = Blocks /\ IsInjective(BlockList)
  /\ Locals \cap (Globals \cup Nat) = {}
  /\ NULL \notin Vars \cup Blocks \cup Blocks \X (Nat \cup Locals)
  /\ \A p \in Programs :
       /\ p.cfg \in Dom!Graphs /\ Dom!Rooted(p.cfg) /\ Dom!Preds(p.cfg, Entry) = {}
       /\ p.code \in [Blocks -> Seq(Instrs)]
       /\ \A b \in Blocks : WellFormed(p.code[b])
       /\ DefinitelyAssigned(p)

VARIABLES
  prog,           \* the function as it was
  dom_frontier,   \* BasicBlock::dom_frontier_, as DominateTree left it
  pc,             \* the part of execute in progress
  live,           \* positions of the instructions still in each block
  operand,        \* the value each store and use takes
  phis,           \* the phis at the head of each block, first one first
  phi_args,       \* operand pairs <<value, predecessor>> of each phi
  allocas,        \* locals whose alloca is still there
  at, i,          \* insideBlockForwarding: the block and the instruction
  defined_list,   \* ... last store of each local in the block, 0 if none
  new_value,      \* ... value that store left
  forward_list,   \* ... loads that see a store of the block, and its value
  delete_list,    \* ... stores overwritten in the block
  todo,           \* genPhi: loaded locals that have no phis yet
  var, queue,     \* ... the local at hand, blocks that define it
  define_var,     \* how often each block pushes a value of each local
  value_status,   \* stack of current values of each local
  visited,
  frames,         \* activations of valueForwarding in progress
  fault,          \* end() or back() of nothing was dereferenced
  run             \* the two executions, once the pass is done

irVars    == <<live, operand, phis, phi_args, allocas>>
scanVars  == <<at, i, defined_list, new_value, forward_list, delete_list>>
phiVars   == <<todo, var, queue>>
nameVars  == <<define_var, value_status, visited, frames>>
vars == <<prog, dom_frontier, pc, irVars, scanVars, phiVars, nameVars, fault, run>>

Code(b) == prog.code[b]
Ids == UNION {{b} \X (1 .. Len(Code(b))) : b \in Blocks}
Phis == Blocks \X Locals
Values == Ids \cup Phis

isLocalVarOp(b, k) == Code(b)[k].op \in {"load", "store"} /\ Code(b)[k].var \in Locals
LocalOps(b, o) == {k \in live[b] : isLocalVarOp(b, k) /\ Code(b)[k].op = o}

Block == BlockList[at]
HasPhi(b, v) == v \in ToSet(phis[b])

NotRunning == [block |-> Entry, ip |-> 0, mem |-> <<>>, old |-> <<>>, new |-> <<>>]

-----------------------------------------------------------------------------
Init ==
  /\ prog \in Programs
  /\ dom_frontier = [b \in Blocks |-> Dom!DominanceFrontier(prog.cfg, b)]
  /\ pc = "forward"
  /\ live = [b \in Blocks |-> 1 .. Len(Code(b))]
  /\ operand = [id \in Ids |-> IF Code(id[1])[id[2]].op \in {"use", "store"}
                               THEN <<id[1], Code(id[1])[id[2]].arg>> ELSE NULL]
  /\ phis = [b \in Blocks |-> <<>>]
  /\ phi_args = [ph \in Phis |-> <<>>]
  /\ allocas = Locals
  /\ at = 1 /\ i = 1
  /\ defined_list = [v \in Locals |-> 0]
  /\ new_value = [v \in Locals |-> NULL]
  /\ forward_list = [k \in {} |-> NULL]
  /\ delete_list = {}
  /\ todo = {} /\ var = NULL /\ queue = <<>>
  /\ define_var = [b \in Blocks |-> [v \in Locals |-> 0]]
  /\ value_status = [v \in Locals |-> <<>>]
  /\ visited = {} /\ frames = <<>>
  /\ fault = FALSE
  /\ run = NotRunning

(***************************************************************************)
(* insideBlockForwarding                                                   *)
(***************************************************************************)
Scanning(o) == pc = "forward" /\ i \in LocalOps(Block, o) /\ i' = i + 1

(* The value a store leaves: what a forwarded load stands for, or rval.    *)
Forwarded(id) == IF id[1] = Block /\ id[2] \in DOMAIN forward_list
                 THEN forward_list[id[2]] ELSE id

(* Faulty: the later of two stores is deleted.                             *)
ForwardStore_DeletesItself ==
  LET v == Code(Block)[i].var IN
  /\ Scanning("store")
  /\ delete_list' = delete_list \cup {i}
  /\ defined_list' = [defined_list EXCEPT ![v] = i]
  /\ new_value' = [new_value EXCEPT ![v] = Forwarded(operand[<<Block, i>>])]
  /\ UNCHANGED <<prog, dom_frontier, pc, irVars, at, forward_list, phiVars, nameVars, fault, run>>

(* Faulty: the end of defined_list is not told from an entry.              *)
ForwardStore_NoFind ==
  LET v == Code(Block)[i].var IN
  /\ Scanning("store")
  /\ delete_list' = delete_list \cup {defined_list[v]}
  /\ defined_list' = [defined_list EXCEPT ![v] = i]
  /\ new_value' = [new_value EXCEPT ![v] = Forwarded(operand[<<Block, i>>])]
  /\ UNCHANGED <<prog, dom_frontier, pc, irVars, at, forward_list, phiVars, nameVars, fault, run>>

(* A store of a local the block has stored before makes that store dead.   *)
ForwardStore ==
  LET v == Code(Block)[i].var IN
  /\ Scanning("store")
  /\ delete_list' = delete_list \cup ({defined_list[v]} \ {0})
  /\ defined_list' = [defined_list EXCEPT ![v] = i]
  /\ new_value' = [new_value EXCEPT ![v] = Forwarded(operand[<<Block, i>>])]
  /\ UNCHANGED <<prog, dom_frontier, pc, irVars, at, forward_list, phiVars, nameVars, fault, run>>

(* A load after a store of the block is to be replaced by what it left.    *)
ForwardLoad ==
  LET v == Code(Block)[i].var IN
  /\ Scanning("load")
  /\ forward_list' = IF defined_list[v] = 0 THEN forward_list
                     ELSE [k \in DOMAIN forward_list \cup {i} |->
                             IF k = i THEN new_value[v] ELSE forward_list[k]]
  /\ UNCHANGED <<prog, dom_frontier, pc, irVars, at, defined_list, new_value, delete_list,
                 phiVars, nameVars, fault, run>>

(* Everything isLocalVarOp rejects is passed over.                         *)
SkipInstr ==
  /\ pc = "forward" /\ i \in live[Block] /\ ~ isLocalVarOp(Block, i)
  /\ i' = i + 1
  /\ UNCHANGED <<prog, dom_frontier, pc, irVars, at, defined_list, new_value, forward_list,
                 delete_list, phiVars, nameVars, fault, run>>

(* The block is scanned: forwarded loads are replaced and deleted, then    *)
(* the overwritten stores.                                                 *)
EndForwardBlock ==
  /\ pc = "forward" /\ i > Len(Code(Block))
  /\ operand' = [id \in Ids |-> IF operand[id] = NULL THEN NULL ELSE Forwarded(operand[id])]
  /\ live' = [live EXCEPT ![Block] = @ \ (DOMAIN forward_list \cup delete_list)]
  /\ defined_list' = [v \in Locals |-> 0]
  /\ new_value' = [v \in Locals |-> NULL]
  /\ forward_list' = [k \in {} |-> NULL]
  /\ delete_list' = {}
  /\ i' = 1
  /\ at' = IF at < Len(BlockList) THEN at + 1 ELSE 1
  /\ pc' = IF at < Len(BlockList) THEN "forward" ELSE "collect"
  /\ UNCHANGED <<prog, dom_frontier, phis, phi_args, allocas, phiVars, nameVars, fault, run>>

(***************************************************************************)
(* genPhi                                                                  *)
(***************************************************************************)
LoadedLocals == {v \in Locals : \E b \in Blocks : \E k \in LocalOps(b, "load") : Code(b)[k].var = v}
DefinedInBlocks(v) == {b \in Blocks : \E k \in LocalOps(b, "store") : Code(b)[k].var = v}

(* The locals that some block loads (globals in the code) need phis.       *)
CollectLoaded ==
  /\ pc = "collect"
  /\ todo' = LoadedLocals
  /\ pc' = "genphi"
  /\ UNCHANGED <<prog, dom_frontier, irVars, scanVars, var, queue, nameVars, fault, run>>

(* The queue starts with the defining blocks in the order of a pointer set.*)
StartVar(v) ==
  /\ pc = "genphi" /\ var = NULL /\ v \in todo
  /\ todo' = todo \ {v}
  /\ var' = v
  /\ fault' = (fault \/ DefinedInBlocks(v) = {})
  /\ queue' \in SetToSeqs(DefinedInBlocks(v))
  /\ UNCHANGED <<prog, dom_frontier, pc, irVars, scanVars, nameVars, run>>

(* The next block of the queue: its frontier blocks without a phi get one. *)
PlacePhis ==
  /\ pc = "genphi" /\ queue # <<>>
  /\ \E new \in SetToSeqs({b \in dom_frontier[Head(queue)] : ~ HasPhi(b, var)}) :
       /\ queue' = Tail(queue) \o new
       /\ phis' = [b \in Blocks |-> IF b \in ToSet(new) THEN <<var>> \o phis[b] ELSE phis[b]]
  /\ UNCHANGED <<prog, dom_frontier, pc, live, operand, phi_args, allocas, scanVars, todo, var,
                 nameVars, fault, run>>

(* The queue is done: on to the next local.                                *)
EndVar ==
  /\ pc = "genphi" /\ var # NULL /\ queue = <<>>
  /\ var' = NULL
  /\ UNCHANGED <<prog, dom_frontier, pc, irVars, scanVars, todo, queue, nameVars, fault, run>>

(***************************************************************************)
(* valueDefineCounting, and the first call of valueForwarding              *)
(***************************************************************************)
Call(b) == [bb |-> b, stage |-> "phis", ip |-> 1, succs |-> prog.cfg[b], deletes |-> {}]

(* What b pushes of v: one value for a phi, one for a store still there.   *)
Pushed(b, v) == Cardinality({k \in DOMAIN phis[b] : phis[b][k] = v})
                  + Cardinality({k \in LocalOps(b, "store") : Code(b)[k].var = v})

ValueDefineCounting ==
  /\ pc = "genphi" /\ var = NULL /\ todo = {}
  /\ define_var' = [b \in Blocks |-> [v \in Locals |-> Pushed(b, v)]]
  /\ frames' = <<Call(Entry)>>
  /\ pc' = "rename"
  /\ UNCHANGED <<prog, dom_frontier, irVars, scanVars, phiVars, value_status, visited, fault, run>>

(***************************************************************************)
(* valueForwarding: a depth-first walk of the graph with a stack of values *)
(* per local.                                                              *)
(***************************************************************************)
Frame == frames[Len(frames)]
bb == Frame.bb
InStage(s) == pc = "rename" /\ frames # <<>> /\ Frame.stage = s
Update(f) == frames' = [frames EXCEPT ![Len(frames)] = f]
Current(v) == IF value_status[v] = <<>> THEN NULL ELSE Last(value_status[v])

(* Entering a block: its phis become the current values of their locals.   *)
PushPhis ==
  /\ InStage("phis")
  /\ visited' = visited \cup {bb}
  /\ value_status' = [v \in Locals |->
       IF HasPhi(bb, v) THEN Append(value_status[v], <<bb, v>>) ELSE value_status[v]]
  /\ Update([Frame EXCEPT !.stage = "instrs"])
  /\ UNCHANGED <<prog, dom_frontier, pc, irVars, scanVars, phiVars, define_var, fault, run>>

AtInstr(o) == InStage("instrs") /\ Frame.ip \in LocalOps(bb, o)
ToDelete == [Frame EXCEPT !.ip = @ + 1, !.deletes = @ \cup {Frame.ip}]

(* Faulty: the uses of the load stay.                                      *)
RenameLoad_KeepsUses ==
  LET load == <<bb, Frame.ip>>
      value == Current(Code(bb)[Frame.ip].var)
      New(x) == IF x = load THEN value ELSE x
  IN
  /\ AtInstr("load")
  /\ fault' = (fault \/ value = NULL)
  /\ operand' = operand
  /\ phi_args' = [ph \in Phis |->
       [k \in DOMAIN phi_args[ph] |-> <<New(phi_args[ph][k][1]), phi_args[ph][k][2]>>]]
  /\ Update(ToDelete)
  /\ UNCHANGED <<prog, dom_frontier, pc, live, phis, allocas, scanVars, phiVars, define_var,
                 value_status, visited, run>>

(* A load is replaced by the current value of its local, wherever used.    *)
RenameLoad ==
  LET load == <<bb, Frame.ip>>
      value == Current(Code(bb)[Frame.ip].var)
      New(x) == IF x = load THEN value ELSE x
  IN
  /\ AtInstr("load")
  /\ fault' = (fault \/ value = NULL)
  /\ operand' = [id \in Ids |-> New(operand[id])]
  /\ phi_args' = [ph \in Phis |->
       [k \in DOMAIN phi_args[ph] |-> <<New(phi_args[ph][k][1]), phi_args[ph][k][2]>>]]
  /\ Update(ToDelete)
  /\ UNCHANGED <<prog, dom_frontier, pc, live, phis, allocas, scanVars, phiVars, define_var,
                 value_status, visited, run>>

(* A store makes the value it would write the current one.                 *)
RenameStore ==
  LET v == Code(bb)[Frame.ip].var IN
  /\ AtInstr("store")
  /\ value_status' = [value_status EXCEPT ![v] = Append(@, operand[<<bb, Frame.ip>>])]
  /\ Update(ToDelete)
  /\ UNCHANGED <<prog, dom_frontier, pc, irVars, scanVars, phiVars, define_var, visited, fault, run>>

(* Phis, and what isLocalVarOp rejects, stay.                              *)
RenameOther ==
  /\ InStage("instrs")
  /\ Frame.ip <= Len(Code(bb))
  /\ Frame.ip \notin LocalOps(bb, "load") \cup LocalOps(bb, "store")
  /\ Update([Frame EXCEPT !.ip = @ + 1])
  /\ UNCHANGED <<prog, dom_frontier, pc, irVars, scanVars, phiVars, define_var, value_status,
                 visited, fault, run>>

(* At the end of the block its values go to the phis of the successors; a  *)
(* local without a value gives none, and the printer writes undef for it.  *)
FillPhiOperands ==
  /\ InStage("instrs")
  /\ Frame.ip > Len(Code(bb))
  /\ phi_args' = [ph \in Phis |->
       IF ph[1] \in Frame.succs /\ HasPhi(ph[1], ph[2]) /\ value_status[ph[2]] # <<>>
         THEN Append(phi_args[ph], <<Current(ph[2]), bb>>) ELSE phi_args[ph]]
  /\ Update([Frame EXCEPT !.stage = "succs"])
  /\ UNCHANGED <<prog, dom_frontier, pc, live, operand, phis, allocas, scanVars, phiVars, define_var,
                 value_status, visited, fault, run>>

(* Faulty: the loop does not move past a visited successor.                *)
VisitSucc_Stuck(s) ==
  LET caller == [Frame EXCEPT !.succs = @ \ {s}] IN
  /\ InStage("succs") /\ s \in Frame.succs
  /\ frames' = IF s \in visited
               THEN frames
               ELSE Append([frames EXCEPT ![Len(frames)] = caller], Call(s))
  /\ UNCHANGED <<prog, dom_frontier, pc, irVars, scanVars, phiVars, define_var, value_status,
                 visited, fault, run>>

(* The loop over the successors calls valueForwarding on one not visited.  *)
VisitSucc(s) ==
  LET caller == [Frame EXCEPT !.succs = @ \ {s}] IN
  /\ InStage("succs") /\ s \in Frame.succs
  /\ frames' = IF s \in visited
               THEN [frames EXCEPT ![Len(frames)] = caller]
               ELSE Append([frames EXCEPT ![Len(frames)] = caller], Call(s))
  /\ UNCHANGED <<prog, dom_frontier, pc, irVars, scanVars, phiVars, define_var, value_status,
                 visited, fault, run>>

(* One pop for each value pushed, then the loads and stores go.            *)
Pops(v) == define_var[bb][v]

(* Faulty: the values of the block stay current after it is left.          *)
LeaveBlock_NoPops ==
  /\ InStage("succs") /\ Frame.succs = {}
  /\ value_status' = [v \in Locals |->
       value_status[v]]
  /\ live' = [live EXCEPT ![bb] = @ \ Frame.deletes]
  /\ frames' = Front(frames)
  /\ pc' = IF Len(frames) = 1 THEN "remove" ELSE pc
  /\ UNCHANGED <<prog, dom_frontier, operand, phis, phi_args, allocas, scanVars, phiVars, define_var,
                 visited, fault, run>>

LeaveBlock ==
  /\ InStage("succs") /\ Frame.succs = {}
  /\ value_status' = [v \in Locals |->
       SubSeq(value_status[v], 1, Len(value_status[v]) - Pops(v))]
  /\ live' = [live EXCEPT ![bb] = @ \ Frame.deletes]
  /\ frames' = Front(frames)
  /\ pc' = IF Len(frames) = 1 THEN "remove" ELSE pc
  /\ UNCHANGED <<prog, dom_frontier, operand, phis, phi_args, allocas, scanVars, phiVars, define_var,
                 visited, fault, run>>

(***************************************************************************)
(* removeAlloc                                                             *)
(***************************************************************************)
(* The allocas of scalars go. The two programs start with the locals       *)
(* unassigned and the globals at some value.                               *)
RemoveAlloc ==
  /\ pc = "remove"
  /\ allocas' = {}
  /\ pc' = "run"
  /\ run' = [block |-> Entry, ip |-> 1,
             mem |-> [v \in Vars |-> IF v \in Locals THEN Undef ELSE CHOOSE d \in Data : TRUE],
             old |-> [id \in Ids |-> Undef],
             new |-> [id \in Ids \cup Phis |-> Undef]]
  /\ UNCHANGED <<prog, dom_frontier, live, operand, phis, phi_args, scanVars, phiVars, nameVars, fault>>

(***************************************************************************)
(* The two programs run together: what each instruction computed is kept   *)
(* in old for the given program, in new for the one Mem2Reg made.  Memory  *)
(* is shared: both programs write the same to it as long as they agree.    *)
(***************************************************************************)
Here == <<run.block, run.ip>>
Instr == Code(run.block)[run.ip]
Running(o) == pc = "run" /\ run.ip <= Len(Code(run.block)) /\ Instr.op = o
Execute(r) == run' = [r EXCEPT !.ip = @ + 1]
                /\ UNCHANGED <<prog, dom_frontier, pc, irVars, scanVars, phiVars, nameVars, fault>>

RunDef(d) ==
  /\ Running("def")
  /\ Execute([run EXCEPT !.old[Here] = d, !.new[Here] = d])

RunLoad ==
  /\ Running("load")
  /\ Execute([run EXCEPT !.old[Here] = run.mem[Instr.var],
                         !.new[Here] = IF run.ip \in live[run.block] THEN run.mem[Instr.var] ELSE Undef])

RunStore ==
  /\ Running("store")
  /\ Execute([run EXCEPT !.mem[Instr.var] = run.old[<<run.block, Instr.arg>>]])

RunUse ==
  /\ Running("use")
  /\ Execute(run)

(* A branch: the phis of the target take their operands at once.           *)
PhiValue(ph, p) ==
  LET from == {k \in DOMAIN phi_args[ph] : phi_args[ph][k][2] = p}
  IN IF from = {} THEN Undef ELSE run.new[phi_args[ph][CHOOSE k \in from : TRUE][1]]

RunBranch(s) ==
  /\ pc = "run" /\ run.ip > Len(Code(run.block))
  /\ s \in prog.cfg[run.block]
  /\ run' = [run EXCEPT
       !.block = s, !.ip = 1,
       !.old = [id \in Ids |-> Undef],
       !.new = [x \in DOMAIN run.new |->
                  IF x \in {<<s, v>> : v \in ToSet(phis[s])}
                    THEN PhiValue(x, run.block) ELSE run.new[x]]]
  /\ UNCHANGED <<prog, dom_frontier, pc, irVars, scanVars, phiVars, nameVars, fault>>

-----------------------------------------------------------------------------
Next ==
  \/ ForwardStore \/ ForwardLoad \/ SkipInstr \/ EndForwardBlock
  \/ CollectLoaded \/ (\E v \in Locals : StartVar(v)) \/ PlacePhis \/ EndVar
  \/ ValueDefineCounting
  \/ PushPhis \/ RenameLoad \/ RenameStore \/ RenameOther \/ FillPhiOperands
  \/ (\E s \in Blocks : VisitSucc(s)) \/ LeaveBlock
  \/ RemoveAlloc
  \/ (\E d \in Data : RunDef(d)) \/ RunLoad \/ RunStore \/ RunUse
  \/ (\E s \in Blocks : RunBranch(s))

Spec == Init /\ [][Next]_vars

-----------------------------------------------------------------------------
TypeOK ==
  /\ pc \in {"forward", "collect", "genphi", "rename", "remove", "run"}
  /\ \A b \in Blocks : live[b] \subseteq 1 .. Len(Code(b))
  /\ operand \in [Ids -> Values \cup {NULL}]
  /\ phis \in [Blocks -> Seq(Locals)]
  /\ \A ph \in Phis : \A k \in DOMAIN phi_args[ph] : phi_args[ph][k] \in (Values \cup {NULL}) \X Blocks
  /\ allocas \subseteq Locals
  /\ at \in 1 .. Len(BlockList) /\ i \in Nat \ {0}
  /\ defined_list \in [Locals -> Nat]
  /\ new_value \in [Locals -> Values \cup {NULL}]
  /\ DOMAIN forward_list \cup delete_list \subseteq 1 .. Len(Code(Block))
  /\ todo \subseteq Locals /\ var \in Locals \cup {NULL} /\ queue \in Seq(Blocks)
  /\ define_var \in [Blocks -> [Locals -> Nat]]
  /\ \A v \in Locals : value_status[v] \in Seq(Values)
  /\ visited \subseteq Blocks
  /\ fault \in BOOLEAN

(* A program that assigns before it reads never makes the pass dereference *)
(* defined_in_block.end() (no store of a loaded local) or the top of an    *)
(* empty value stack: insideBlockForwarding deletes no store that is the   *)
(* last one, and the walk reaches a load only through a definition.        *)
NeverFaults == ~ fault

(* No operand ever names an instruction that has been deleted, and when    *)
(* the allocas go no load or store of a local is left to name them.        *)
Placed(x) == IF x[2] \in Locals THEN HasPhi(x[1], x[2]) ELSE x[2] \in live[x[1]]
OperandsInPlace ==
  /\ \A b \in Blocks : \A k \in live[b] :
       operand[<<b, k>>] # NULL => Placed(operand[<<b, k>>])
  /\ \A ph \in Phis : \A k \in DOMAIN phi_args[ph] : Placed(phi_args[ph][k][1])
  /\ allocas = {} => \A b \in Blocks : LocalOps(b, "load") \cup LocalOps(b, "store") = {}

(* The memory operations on globals and elements stay, and wherever the    *)
(* given program uses a value or writes it to memory that remains, the new *)
(* program has the same value.                                             *)
ProgramsAgree ==
  (pc = "run" /\ run.ip <= Len(Code(run.block)) /\ ~ isLocalVarOp(run.block, run.ip)) =>
    /\ run.ip \in live[run.block]
    /\ Instr.op \in {"use", "store"} =>
         run.new[operand[Here]] = run.old[<<run.block, Instr.arg>>]
=============================================================================
