--------------------------- MODULE Mem2Reg_proofs ---------------------------
(***************************************************************************)
(* That Mem2Reg is right for every function, whatever its graph and code:  *)
(* it never dereferences what is not there, no operand it leaves names an  *)
(* instruction that is gone, and the function it leaves computes what the  *)
(* function it was given does, along every path and for every input.       *)
(*                                                                         *)
(* The argument says, for each program point, which value stands for each  *)
(* local in the new function: what the last store of the block wrote, else *)
(* the phi of the block, else what is left by the block that is the        *)
(* nearest to define the local among those that dominate.  Where the       *)
(* frontiers of all defining blocks have phis, that value is the one each  *)
(* predecessor ends with (EdgeValue).  The walk's stacks hold it           *)
(* (StackInv), the operands are replaced by it (UsesInv), the phis collect *)
(* it (PhiArgsInv), and the run compares it with memory (RunInv).          *)
(*                                                                         *)
(* Then, of the compiler around it: what Function::print returns reads     *)
(* back as the function.                                                   *)
(***************************************************************************)
EXTENDS Compile, SequenceFacts

T == INSTANCE DominatorTheory WITH Root <- Entry

-----------------------------------------------------------------------------
(***************************************************************************)
(* The words of the argument.  p is a function (a member of Programs), ph  *)
(* says which phis each block has and op which value each use takes.       *)
(***************************************************************************)
Positions(p, b) == 1 .. Len(p.code[b])
End(p, b) == Len(p.code[b]) + 1

IsLocal(p, b, k, o) == p.code[b][k].op = o /\ p.code[b][k].var \in Locals
IsLocalOp(p, b, k) == IsLocal(p, b, k, "load") \/ IsLocal(p, b, k, "store")
TakesOperand(p, b, k) == k \in Positions(p, b) /\ p.code[b][k].op \in {"use", "store"}
Computes(p, b, k) == k \in Positions(p, b) /\ p.code[b][k].op \in {"def", "load"}

(* The last store of v in b before k, 0 if there is none. *)
LastStore(p, b, v, k) ==
  IF \E j \in Stores(p, b, v) : j < k
    THEN CHOOSE j \in Stores(p, b, v) : j < k /\ \A m \in Stores(p, b, v) : m < k => m <= j
    ELSE 0

(* What insideBlockForwarding leaves of b. *)
Kept(p, b) ==
  {k \in Positions(p, b) :
     /\ IsLocal(p, b, k, "load") => LastStore(p, b, p.code[b][k].var, k) = 0
     /\ IsLocal(p, b, k, "store") => \A j \in Stores(p, b, p.code[b][k].var) : j <= k}

(* What is left when the renaming is done with b. *)
Renamed(p, b) == {k \in Kept(p, b) : ~ IsLocalOp(p, b, k)}

Loaded(p) == {v \in Locals : \E b \in Blocks : \E k \in Kept(p, b) : k \in Loads(p, b, v)}
StoreBlocks(p, v) == {b \in Blocks : Stores(p, b, v) # {}}
PhiBlocks(ph, v) == {b \in Blocks : v \in ToSet(ph[b])}
Defs(p, ph, v) == StoreBlocks(p, v) \cup PhiBlocks(ph, v)

(* The phis of v are where its definitions meet. *)
Complete(p, ph, v) == T!Joined(p.cfg, Defs(p, ph, v), PhiBlocks(ph, v))

IsEntryDef(p, ph, v, d, b) == T!EntryDef(p.cfg, Defs(p, ph, v), d, b)

(* The value of v that a defining block d leaves ... *)
Left(p, op, v, d) ==
  IF LastStore(p, d, v, End(p, d)) # 0 THEN op[<<d, LastStore(p, d, v, End(p, d))>>] ELSE <<d, v>>

(* ... the one b is entered with, phis taken, NULL if there is none ...    *)
EntryVal(p, ph, op, v, b) ==
  IF b \in PhiBlocks(ph, v) THEN <<b, v>>
  ELSE IF \E d \in Blocks : IsEntryDef(p, ph, v, d, b)
         THEN Left(p, op, v, CHOOSE d \in Blocks : IsEntryDef(p, ph, v, d, b))
         ELSE NULL

(* ... and the one at position k of b. *)
ValueAt(p, ph, op, v, b, k) ==
  IF LastStore(p, b, v, k) # 0 THEN op[<<b, LastStore(p, b, v, k)>>] ELSE EntryVal(p, ph, op, v, b)

(* What position k of b computes, in the new function; the loads before n  *)
(* are renamed.                                                            *)
Rep(p, ph, op, b, k, n) ==
  IF IsLocal(p, b, k, "load")
    THEN IF LastStore(p, b, p.code[b][k].var, k) # 0
           THEN op[<<b, LastStore(p, b, p.code[b][k].var, k)>>]
           ELSE IF k < n THEN EntryVal(p, ph, op, p.code[b][k].var, b) ELSE <<b, k>>
    ELSE <<b, k>>

(* x stays in the new function. *)
InPlace(p, ph, x) ==
  \/ x \in Phis /\ x[2] \in ToSet(ph[x[1]])
  \/ /\ x \in Blocks \X Nat /\ Computes(p, x[1], x[2])
     /\ ~ IsLocal(p, x[1], x[2], "load")

(* x has its value at position k of b. *)
Available(p, ph, x, b, k) ==
  /\ InPlace(p, ph, x) /\ T!Dominates(p.cfg, x[1], b)
  /\ x[1] = b /\ x[2] \in Nat => x[2] < k

(* The operand at j of b stays, or is a load of b that is still to go.     *)
Located(p, ph, op, b, j, n) ==
  \/ Available(p, ph, op[<<b, j>>], b, j)
  \/ \E m \in n .. j - 1 :
       op[<<b, j>>] = <<b, m>> /\ m \in Kept(p, b) /\ IsLocal(p, b, m, "load")

(* The operands of b when the loads before n are renamed. *)
UsesInv(p, ph, op, b, n) ==
  \A j \in Positions(p, b) : TakesOperand(p, b, j) =>
    /\ Located(p, ph, op, b, j, n)
    /\ op[<<b, j>>] = Rep(p, ph, op, b, p.code[b][j].arg, n)

(* What b pushes on the stack of v, in all and before k. *)
Pushes(p, ph, v, b) ==
  (IF b \in PhiBlocks(ph, v) THEN 1 ELSE 0) + (IF Stores(p, b, v) # {} THEN 1 ELSE 0)
PushedBefore(p, ph, v, b, k) ==
  (IF b \in PhiBlocks(ph, v) THEN 1 ELSE 0)
    + (IF Stores(p, b, v) # {} /\ LastStore(p, b, v, End(p, b)) < k THEN 1 ELSE 0)

(* The value on the stack when the walk is at k of b: of the stores of b   *)
(* the last one alone is left.                                             *)
TopAt(p, ph, op, v, b, k) ==
  IF Stores(p, b, v) # {} /\ LastStore(p, b, v, End(p, b)) < k
    THEN op[<<b, LastStore(p, b, v, End(p, b))>>] ELSE EntryVal(p, ph, op, v, b)

-----------------------------------------------------------------------------
(***************************************************************************)
(* The invariant                                                           *)
(***************************************************************************)
FrameT == [bb : Blocks, stage : {"phis", "instrs", "succs"}, ip : Nat \ {0},
           succs : SUBSET Blocks, deletes : SUBSET Nat]

TypeInv ==
  /\ prog \in Programs
  /\ dom_frontier = [b \in Blocks |-> Dom!DominanceFrontier(prog.cfg, b)]
  /\ pc \in {"forward", "collect", "genphi", "rename", "remove", "run"}
  /\ live \in [Blocks -> SUBSET Nat]
  /\ operand \in [Ids -> Ids \cup Phis \cup {NULL}]
  /\ \A b \in Blocks : \A k \in Positions(prog, b) :
       operand[<<b, k>>] = NULL <=> ~ TakesOperand(prog, b, k)
  /\ phis \in [Blocks -> Seq(Locals)]
  /\ phi_args \in [Phis -> Seq(Values \X Blocks)]
  /\ at \in 1 .. Len(BlockList) /\ i \in Nat \ {0}
  /\ defined_list \in [Locals -> Nat]
  /\ new_value \in [Locals -> Values \cup {NULL}]
  /\ todo \in SUBSET Locals /\ var \in Locals \cup {NULL} /\ queue \in Seq(Blocks)
  /\ define_var \in [Blocks -> [Locals -> Nat]]
  /\ value_status \in [Locals -> Seq(Values)]
  /\ visited \in SUBSET Blocks
  /\ frames \in Seq(FrameT)
  /\ fault \in BOOLEAN

(* Which parts of the state the parts of execute have touched. *)
PhaseInv ==
  /\ allocas = IF pc = "run" THEN {} ELSE Locals
  /\ pc # "forward" => i = 1 /\ DOMAIN forward_list = {} /\ delete_list = {}
  /\ pc \in {"forward", "collect"} => \A b \in Blocks : phis[b] = <<>>
  /\ pc # "genphi" => todo = {} /\ var = NULL
  /\ var = NULL => queue = <<>>
  /\ pc \in {"forward", "collect", "genphi"} =>
       /\ visited = {}
       /\ \A v \in Locals : value_status[v] = <<>>
       /\ \A x \in Phis : phi_args[x] = <<>>
  /\ pc = "rename" <=> frames # <<>>
  /\ pc \in {"remove", "run"} => visited = Blocks

(* insideBlockForwarding. Seen is Forwarded, of the loads that fl replaces. *)
Seen(fl, b, x) == IF x[1] = b /\ x[2] \in DOMAIN fl THEN fl[x[2]] ELSE x

ForwardInv == pc = "forward" =>
  /\ i \in 1 .. End(prog, Block)
  /\ \A v \in Locals :
       /\ defined_list[v] = LastStore(prog, Block, v, i)
       /\ new_value[v] = IF defined_list[v] = 0 THEN NULL
                         ELSE Seen(forward_list, Block, operand[<<Block, defined_list[v]>>])
  /\ DOMAIN forward_list =
       {k \in 1 .. i - 1 : /\ IsLocal(prog, Block, k, "load")
                           /\ LastStore(prog, Block, prog.code[Block][k].var, k) # 0}
  /\ \A k \in DOMAIN forward_list :
       /\ forward_list[k] = Seen(forward_list, Block,
                               operand[<<Block, LastStore(prog, Block, prog.code[Block][k].var, k)>>])
       /\ \E m \in 1 .. k - 1 : /\ forward_list[k] = <<Block, m>>
                                /\ Computes(prog, Block, m) /\ m \in Kept(prog, Block)
  /\ delete_list =
       {k \in 1 .. i - 1 : /\ IsLocal(prog, Block, k, "store")
                           /\ \E j \in Stores(prog, Block, prog.code[Block][k].var) : k < j /\ j < i}
  /\ \A n \in 1 .. Len(BlockList) :
       IF n < at
         THEN UsesInv(prog, phis, operand, BlockList[n], 1)
         ELSE \A j \in Positions(prog, BlockList[n]) : TakesOperand(prog, BlockList[n], j) =>
                operand[<<BlockList[n], j>>] = <<BlockList[n], prog.code[BlockList[n]][j].arg>>

InFrames(b) == \E n \in 1 .. Len(frames) : frames[n].bb = b

LiveInv ==
  /\ pc = "forward" => \A n \in 1 .. Len(BlockList) :
       live[BlockList[n]] = IF n < at THEN Kept(prog, BlockList[n]) ELSE Positions(prog, BlockList[n])
  /\ pc # "forward" => \A b \in Blocks :
       live[b] = IF b \in visited /\ ~ InFrames(b) THEN Renamed(prog, b) ELSE Kept(prog, b)

(* genPhi. *)
PhiInv == pc \notin {"forward", "collect"} =>
  /\ \A b \in Blocks : \A j, k \in 1 .. Len(phis[b]) : phis[b][j] = phis[b][k] => j = k
  /\ todo \subseteq Loaded(prog) /\ (var # NULL => var \in Loaded(prog) \ todo)
  /\ \A v \in Locals :
       /\ v \notin Loaded(prog) \/ v \in todo => PhiBlocks(phis, v) = {}
       /\ \A b \in PhiBlocks(phis, v) :
            \E d \in Defs(prog, phis, v) : b \in T!DominanceFrontier(prog.cfg, d)
       /\ v \in Loaded(prog) \ todo => \A d \in Defs(prog, phis, v) :
            \/ T!DominanceFrontier(prog.cfg, d) \subseteq PhiBlocks(phis, v)
            \/ v = var /\ d \in ToSet(queue)
  /\ var # NULL => ToSet(queue) \subseteq Defs(prog, phis, var)

(* How far the renaming is in b, and whether its phi operands are given.   *)
Ip(b) == IF b \notin visited THEN 1
         ELSE IF frames # <<>> /\ b = Frame.bb THEN Frame.ip
         ELSE End(prog, b)
Passed(b) == b \in visited /\ (frames # <<>> /\ b = Frame.bb => Frame.stage = "succs")
Reached(b) == b \in visited \/ (frames # <<>> /\ b = Frame.bb)

OperandsInv == pc # "forward" =>
  \A b \in Blocks : UsesInv(prog, phis, operand, b, Ip(b))

(* valueForwarding: the calls that have not returned. *)
FrameOk(p, f) ==
  /\ f.ip \in 1 .. End(p, f.bb)
  /\ f.stage = "phis" => f.ip = 1
  /\ f.stage = "succs" => f.ip = End(p, f.bb)
  /\ f.stage # "succs" => f.succs = p.cfg[f.bb]
  /\ f.succs \subseteq p.cfg[f.bb]
  /\ f.deletes = {k \in Kept(p, f.bb) : IsLocalOp(p, f.bb, k) /\ k < f.ip}

FramesInv ==
  /\ \A n \in 1 .. Len(frames) :
       /\ FrameOk(prog, frames[n])
       /\ n < Len(frames) => /\ frames[n].stage = "succs"
                             /\ frames[n + 1].bb \in prog.cfg[frames[n].bb]
       /\ frames[n].bb \in visited <=> (n < Len(frames) \/ frames[n].stage # "phis")
       /\ \A m \in 1 .. Len(frames) : frames[m].bb = frames[n].bb => m = n
  /\ frames # <<>> => frames[1].bb = Entry

(* ... the blocks seen ... *)
VisitedInv ==
  /\ \A b \in visited : \A s \in prog.cfg[b] :
       \/ Reached(s)
       \/ \E n \in 1 .. Len(frames) : frames[n].bb = b /\ s \in frames[n].succs
  /\ pc = "rename" => Reached(Entry)
  /\ \A b \in Blocks : Reached(b) =>
       \A d \in Blocks : T!StrictlyDominates(prog.cfg, d, b) => Passed(d)

(* ... and the stacks: h is how high each call found them. *)
Element(s, n) == IF n = 0 THEN NULL ELSE s[n]

Stacked(v, h) ==
  /\ h[1] = 0
  /\ \A n \in 1 .. Len(frames) : \A m \in 1 .. n : h[m] <= h[n]
  /\ \A n \in 1 .. Len(frames) - 1 :
       /\ h[n + 1] = h[n] + Pushes(prog, phis, v, frames[n].bb)
       /\ Element(value_status[v], h[n + 1])
            = ValueAt(prog, phis, operand, v, frames[n].bb, End(prog, frames[n].bb))
  /\ IF Frame.stage = "phis"
       THEN Len(value_status[v]) = h[Len(frames)]
       ELSE /\ Len(value_status[v])
                 = h[Len(frames)] + PushedBefore(prog, phis, v, Frame.bb, Frame.ip)
            /\ Current(v) = TopAt(prog, phis, operand, v, Frame.bb, Frame.ip)

StackInv == pc = "rename" =>
  /\ \A b \in Blocks : \A v \in Locals : define_var[b][v] = Pushes(prog, phis, v, b)
  /\ \A v \in Loaded(prog) : \E h \in [1 .. Len(frames) -> Nat] : Stacked(v, h)

(* The operands of the phis. *)
PhiArgsOf(s, v) ==
  /\ s \notin PhiBlocks(phis, v) => phi_args[<<s, v>>] = <<>>
  /\ \A k \in 1 .. Len(phi_args[<<s, v>>]) : \A b \in Blocks :
       phi_args[<<s, v>>][k][2] = b =>
         /\ Passed(b) /\ s \in prog.cfg[b]
         /\ phi_args[<<s, v>>][k][1] = ValueAt(prog, phis, operand, v, b, End(prog, b))
  /\ s \in PhiBlocks(phis, v) => \A b \in Blocks :
       /\ Passed(b) /\ s \in prog.cfg[b]
       /\ ValueAt(prog, phis, operand, v, b, End(prog, b)) # NULL
       => \E k \in 1 .. Len(phi_args[<<s, v>>]) : phi_args[<<s, v>>][k][2] = b

PhiArgsInv == pc \notin {"forward", "collect", "genphi"} =>
  \A s \in Blocks : \A v \in Locals : PhiArgsOf(s, v)

(* The two programs: what the new one has for x, ... *)
NewOf(r, x) == IF x = NULL THEN Undef ELSE r.new[x]

(* ... the parts of a run, ... *)
RunShape(r) ==
  /\ r.block \in Blocks /\ r.ip \in 1 .. End(prog, r.block)
  /\ DOMAIN r = {"block", "ip", "mem", "old", "new"}
  /\ DOMAIN r.mem = Vars /\ DOMAIN r.old = Ids /\ DOMAIN r.new = Ids \cup Phis

(* ... the memory of the given program, ... *)
MemOk(r) ==
  \A v \in Locals :
    LET j == LastStore(prog, r.block, v, r.ip) IN
    IF j = 0 THEN v \in Loaded(prog) => r.mem[v] = NewOf(r, EntryVal(prog, phis, operand, v, r.block))
    ELSE r.mem[v] = r.old[<<r.block, prog.code[r.block][j].arg>>]

(* ... and what its block has computed. *)
ValuesOk(r) ==
  \A k \in 1 .. r.ip - 1 : Computes(prog, r.block, k) =>
    r.old[<<r.block, k>>] = NewOf(r, Rep(prog, phis, operand, r.block, k, End(prog, r.block)))

RunInv == pc = "run" => RunShape(run) /\ MemOk(run) /\ ValuesOk(run)

Inv ==
  /\ TypeInv /\ PhaseInv /\ ForwardInv /\ LiveInv /\ PhiInv /\ OperandsInv
  /\ FramesInv /\ VisitedInv /\ StackInv /\ PhiArgsInv /\ RunInv
  /\ ~ fault
-----------------------------------------------------------------------------
(***************************************************************************)
(* The last store                                                          *)
(***************************************************************************)
(* Positions count from 1. *)
LEMMA CountedFrom == \A n : \A k \in 1 .. n : k \in Nat /\ ~ (k < 1)
OBVIOUS

(* What a function is made of. *)
LEMMA ProgramFacts ==
  ASSUME NEW p \in Programs
  PROVE  /\ p.cfg \in T!Graphs /\ p.cfg \in [Blocks -> SUBSET Blocks]
         /\ T!Rooted(p.cfg) /\ Entry \in Blocks
         /\ \A b \in Blocks : Entry \notin p.cfg[b]
         /\ p.code \in [Blocks -> Seq(Instrs)]
         /\ \A b \in Blocks : Len(p.code[b]) \in Nat
         /\ \A b \in Blocks : \A k \in Positions(p, b) :
              /\ p.code[b][k].op \in {"load", "store"} => p.code[b][k].var \in Vars
              /\ TakesOperand(p, b, k) => /\ p.code[b][k].arg \in 1 .. k - 1
                                          /\ Computes(p, b, p.code[b][k].arg)
<1>1. /\ p.cfg \in T!Graphs /\ p.cfg \in [Blocks -> SUBSET Blocks] /\ T!Rooted(p.cfg)
      /\ Entry \in Blocks /\ \A b \in Blocks : Entry \notin p.cfg[b]
  BY ProgramAssumption
  DEF T!Graphs, T!Rooted, T!Closed, Dom!Graphs, Dom!Rooted, Dom!Closed, Dom!Preds
<1>2. p.code \in [Blocks -> Seq(Instrs)] /\ \A b \in Blocks : WellFormed(p.code[b])
  BY ProgramAssumption
<1>3. \A b \in Blocks : Len(p.code[b]) \in Nat
  BY <1>2, LenProperties
<1>4. ASSUME NEW b \in Blocks, NEW k \in Positions(p, b)
      PROVE  /\ p.code[b][k].op \in {"load", "store"} => p.code[b][k].var \in Vars
             /\ TakesOperand(p, b, k) => /\ p.code[b][k].arg \in 1 .. k - 1
                                         /\ Computes(p, b, p.code[b][k].arg)
  BY <1>2, <1>3, <1>4 DEF WellFormed, Positions, TakesOperand, Computes
<1>5. QED
  BY <1>1, <1>2, <1>3, <1>4

(* The dominators of Mem2Reg are those of the theory. *)
LEMMA FrontierWords ==
  ASSUME NEW G, NEW d
  PROVE  Dom!DominanceFrontier(G, d) = T!DominanceFrontier(G, d)
BY DEF Dom!DominanceFrontier, T!DominanceFrontier, Dom!Preds, T!Preds,
       Dom!StrictlyDominates, T!StrictlyDominates, Dom!Dominates, T!Dominates

(* A set of numbers with a bound has a greatest one. *)
LEMMA GreatestElement ==
  ASSUME NEW S \in SUBSET Nat, S # {}, NEW n \in Nat, \A k \in S : k <= n
  PROVE  \E m \in S : \A k \in S : k <= m
<1> DEFINE R == {k \in 0 .. n : n - k \in S}
<1>1. R \in SUBSET Nat /\ R # {}
  <2>1. PICK k \in S : TRUE
    OBVIOUS
  <2>2. n - k \in 0 .. n /\ n - (n - k) = k
    BY <2>1
  <2>3. QED
    BY <2>1, <2>2
<1>2. PICK m \in R : \A k \in R : m <= k
  BY <1>1, LeastElement
<1>3. n - m \in S /\ m \in 0 .. n
  BY <1>2
<1>4. ASSUME NEW k \in S PROVE k <= n - m
  <2>1. n - k \in 0 .. n /\ n - (n - k) = k /\ k \in Nat
    OBVIOUS
  <2>2. m <= n - k
    BY <1>2, <2>1
  <2>3. QED
    BY <1>3, <2>1, <2>2
<1>5. QED
  BY <1>3, <1>4

(* The stores of v are positions of the block. *)
LEMMA StoresFacts ==
  ASSUME NEW p \in Programs, NEW b \in Blocks, NEW v
  PROVE  /\ Stores(p, b, v) \subseteq Positions(p, b) /\ Stores(p, b, v) \subseteq Nat \ {0}
         /\ Positions(p, b) \subseteq Nat \ {0} /\ End(p, b) \in Nat \ {0}
         /\ \A k : k \in Stores(p, b, v) =>
              k < End(p, b) /\ p.code[b][k].op = "store" /\ p.code[b][k].var = v
         /\ \A k : k \in Positions(p, b) <=> k \in Nat /\ 0 < k /\ k < End(p, b)
BY ProgramFacts DEF Stores, Positions, End

(* The last store is the greatest before k. *)
LEMMA LastStoreFacts ==
  ASSUME NEW p \in Programs, NEW b \in Blocks, NEW v, NEW k \in Nat
  PROVE  /\ LastStore(p, b, v, k) \in Nat
         /\ LastStore(p, b, v, k) # 0 => /\ LastStore(p, b, v, k) \in Stores(p, b, v)
                                         /\ LastStore(p, b, v, k) < k
         /\ \A m \in Stores(p, b, v) : m < k =>
              LastStore(p, b, v, k) # 0 /\ m <= LastStore(p, b, v, k)
<1> DEFINE S == {j \in Stores(p, b, v) : j < k}
<1>1. Stores(p, b, v) \subseteq Nat \ {0}
  BY StoresFacts
<1>2. CASE S = {}
  BY <1>1, <1>2 DEF LastStore
<1>3. CASE S # {}
  <2>1. S \in SUBSET Nat /\ \A j \in S : j <= k
    BY <1>1
  <2>2. PICK m \in S : \A j \in S : j <= m
    BY <1>3, <2>1, GreatestElement
  <2>3. \E j \in Stores(p, b, v) : j < k /\ \A n \in Stores(p, b, v) : n < k => n <= j
    BY <2>2
  <2>4. LastStore(p, b, v, k)
          = CHOOSE j \in Stores(p, b, v) : j < k /\ \A n \in Stores(p, b, v) : n < k => n <= j
    BY <2>3 DEF LastStore
  <2>5. QED
    BY <1>1, <2>3, <2>4
<1>4. QED
  BY <1>2, <1>3

(* A store before k that no other one follows before k is the last one.    *)
LEMMA LastStoreIs ==
  ASSUME NEW p \in Programs, NEW b \in Blocks, NEW v, NEW k \in Nat,
         NEW j \in Stores(p, b, v), j < k, \A m \in Stores(p, b, v) : m < k => m <= j
  PROVE  LastStore(p, b, v, k) = j
<1>1. j \in Nat \ {0}
  BY StoresFacts
<1>2. LastStore(p, b, v, k) # 0 /\ j <= LastStore(p, b, v, k)
  BY LastStoreFacts
<1>3. LastStore(p, b, v, k) \in Stores(p, b, v) /\ LastStore(p, b, v, k) < k
  BY <1>2, LastStoreFacts
<1>4. LastStore(p, b, v, k) <= j /\ LastStore(p, b, v, k) \in Nat
  BY <1>3, LastStoreFacts
<1>5. QED
  BY <1>1, <1>2, <1>4

(* From one position to the next. *)
LEMMA LastStoreNext ==
  ASSUME NEW p \in Programs, NEW b \in Blocks, NEW v, NEW k \in Nat
  PROVE  LastStore(p, b, v, k + 1) = IF k \in Stores(p, b, v) THEN k ELSE LastStore(p, b, v, k)
<1>1. Stores(p, b, v) \subseteq Nat \ {0}
  BY StoresFacts
<1>2. CASE k \in Stores(p, b, v)
  <2>1. \A m \in Stores(p, b, v) : m < k + 1 => m <= k
    BY <1>1
  <2>2. QED
    BY <1>2, <2>1, LastStoreIs
<1>3. CASE k \notin Stores(p, b, v)
  <2>1. \A m \in Stores(p, b, v) : m < k + 1 <=> m < k
    BY <1>1, <1>3
  <2>2. CASE LastStore(p, b, v, k) = 0
    <3>1. \A m \in Stores(p, b, v) : ~ (m < k + 1)
      BY <2>1, <2>2, LastStoreFacts
    <3>2. QED
      BY <1>3, <2>2, <3>1, LastStoreFacts
  <2>3. CASE LastStore(p, b, v, k) # 0
    <3>1. /\ LastStore(p, b, v, k) \in Stores(p, b, v) /\ LastStore(p, b, v, k) < k + 1
          /\ \A m \in Stores(p, b, v) : m < k + 1 => m <= LastStore(p, b, v, k)
      BY <2>1, <2>3, LastStoreFacts
    <3>2. QED
      BY <1>3, <3>1, LastStoreIs
  <2>4. QED
    BY <2>2, <2>3
<1>4. QED
  BY <1>2, <1>3

(* No store comes before the first position. *)
LEMMA LastStoreFirst ==
  ASSUME NEW p \in Programs, NEW b \in Blocks, NEW v
  PROVE  LastStore(p, b, v, 1) = 0
<1>1. Stores(p, b, v) \subseteq Nat \ {0}
  BY StoresFacts
<1>2. QED
  BY <1>1, LastStoreFacts

(* A block that stores v at all has a last store, and it is the one store  *)
(* of v that is kept.                                                      *)
LEMMA LastStoreEnd ==
  ASSUME NEW p \in Programs, NEW b \in Blocks, NEW v
  PROVE  /\ LastStore(p, b, v, End(p, b)) # 0 <=> Stores(p, b, v) # {}
         /\ LastStore(p, b, v, End(p, b)) # 0 <=> b \in StoreBlocks(p, v)
         /\ v \in Locals => \A k : k \in Kept(p, b) /\ k \in Stores(p, b, v)
              <=> k # 0 /\ k = LastStore(p, b, v, End(p, b))
<1>1. End(p, b) \in Nat /\ \A m \in Stores(p, b, v) : m \in Positions(p, b) /\ m \in Nat \ {0} /\ m < End(p, b)
  BY StoresFacts
<1>2. LastStore(p, b, v, End(p, b)) # 0 <=> Stores(p, b, v) # {}
  BY <1>1, LastStoreFacts
<1>3. ASSUME v \in Locals, NEW k
      PROVE  k \in Kept(p, b) /\ k \in Stores(p, b, v)
               <=> k # 0 /\ k = LastStore(p, b, v, End(p, b))
  <2>1. ASSUME k \in Kept(p, b), k \in Stores(p, b, v)
        PROVE  k # 0 /\ k = LastStore(p, b, v, End(p, b))
    <3>1. IsLocal(p, b, k, "store") /\ p.code[b][k].var = v
      BY <1>3, <2>1, StoresFacts DEF IsLocal
    <3>2. \A m \in Stores(p, b, v) : m <= k
      BY <2>1, <3>1 DEF Kept
    <3>3. QED
      BY <1>1, <2>1, <3>2, LastStoreIs
  <2>2. ASSUME k # 0, k = LastStore(p, b, v, End(p, b))
        PROVE  k \in Kept(p, b) /\ k \in Stores(p, b, v)
    <3>1. k \in Stores(p, b, v) /\ \A m \in Stores(p, b, v) : m <= k
      BY <1>1, <2>2, LastStoreFacts
    <3>2. p.code[b][k].op = "store" /\ p.code[b][k].var = v
      BY <3>1, StoresFacts
    <3>3. QED
      BY <1>1, <3>1, <3>2 DEF Kept, IsLocal
  <2>3. QED
    BY <2>1, <2>2
<1>4. QED
  BY <1>2, <1>3 DEF StoreBlocks
-----------------------------------------------------------------------------
(***************************************************************************)
(* The value of a local                                                    *)
(***************************************************************************)
(* NULL is no value, and a local is no number. *)
LEMMA ValueFacts ==
  /\ \A b \in Blocks : \A k \in Nat : <<b, k>> # NULL /\ k \notin Locals
  /\ \A b \in Blocks : \A v \in Locals : <<b, v>> # NULL /\ v \notin Nat
  /\ NULL \notin Ids \cup Phis /\ NULL \notin Blocks /\ NULL \notin Locals
  /\ Ids \subseteq Blocks \X Nat /\ Ids \cap Phis = {}
<1>1. NULL \notin Blocks \X (Nat \cup Locals) /\ NULL \notin Blocks /\ NULL \notin Locals
      /\ Locals \cap Nat = {}
  BY ProgramAssumption DEF Vars
<1>2. Ids \subseteq Blocks \X Nat
  BY DEF Ids
<1>3. Phis \subseteq Blocks \X Locals
  BY DEF Phis
<1>4. QED
  BY <1>1, <1>2, <1>3

(* The identifiers of a function's instructions. *)
LEMMA IdFacts ==
  ASSUME prog \in Programs
  PROVE  /\ \A b, k : <<b, k>> \in Ids <=> b \in Blocks /\ k \in Positions(prog, b)
         /\ \A x \in Ids : x = <<x[1], x[2]>> /\ x[1] \in Blocks /\ x[2] \in Positions(prog, x[1])
BY DEF Ids, Positions, Code

(* A block without a phi is entered with what is left by the nearest       *)
(* definition.                                                             *)
LEMMA EntryValIs ==
  ASSUME NEW p, NEW ph, NEW op, NEW v, Complete(p, ph, v),
         NEW b \in Blocks, b \notin PhiBlocks(ph, v), NEW d, IsEntryDef(p, ph, v, d, b)
  PROVE  EntryVal(p, ph, op, v, b) = Left(p, op, v, d)
<1>1. d \in Blocks
  BY DEF IsEntryDef, Complete, T!EntryDef, T!Joined
<1>2. \A e \in Blocks : IsEntryDef(p, ph, v, e, b) => e = d
  BY T!EntryDefUnique DEF Complete, IsEntryDef
<1>3. (CHOOSE e \in Blocks : IsEntryDef(p, ph, v, e, b)) = d
  BY <1>1, <1>2
<1>4. QED
  BY <1>1, <1>3 DEF EntryVal

(* The value at the end of a block of which d is the last definition.      *)
LEMMA EndValIs ==
  ASSUME NEW p \in Programs, NEW ph, NEW op, NEW v, Complete(p, ph, v),
         NEW b \in Blocks, NEW d, T!LastDef(p.cfg, Defs(p, ph, v), d, b)
  PROVE  ValueAt(p, ph, op, v, b, End(p, b)) = Left(p, op, v, d)
<1>1. p.cfg \in T!Graphs /\ Entry \in Blocks /\ T!Rooted(p.cfg) /\ d \in Blocks
  BY DEF Complete, T!Joined, T!LastDef
<1>2. CASE b \in Defs(p, ph, v)
  <2>1. d = b
    BY <1>1, <1>2, T!DominatesItself, T!DominatesAntisymmetric DEF T!LastDef
  <2>2. CASE LastStore(p, b, v, End(p, b)) # 0
    BY <2>1, <2>2 DEF ValueAt, Left
  <2>3. CASE LastStore(p, b, v, End(p, b)) = 0
    <3>1. b \in PhiBlocks(ph, v)
      BY <1>2, <2>3, LastStoreEnd DEF Defs
    <3>2. QED
      BY <2>1, <2>3, <3>1 DEF ValueAt, Left, EntryVal
  <2>4. QED
    BY <2>2, <2>3
<1>3. CASE b \notin Defs(p, ph, v)
  <2>1. b \notin PhiBlocks(ph, v) /\ LastStore(p, b, v, End(p, b)) = 0
    BY <1>3, LastStoreEnd DEF Defs
  <2>2. IsEntryDef(p, ph, v, d, b)
    BY <1>3 DEF IsEntryDef, T!EntryDef, T!LastDef, T!StrictlyDominates
  <2>3. QED
    BY <2>1, <2>2, EntryValIs DEF ValueAt
<1>4. QED
  BY <1>2, <1>3

(* A block without a phi is entered with the value each of its             *)
(* predecessors ends with: what makes the renaming right.                  *)
LEMMA EdgeValue ==
  ASSUME NEW p \in Programs, NEW ph, NEW op, NEW v, Complete(p, ph, v),
         NEW x \in Blocks, NEW s \in p.cfg[x], s \notin PhiBlocks(ph, v)
  PROVE  EntryVal(p, ph, op, v, s) = ValueAt(p, ph, op, v, x, End(p, x))
<1> DEFINE D == Defs(p, ph, v)
<1>1. /\ T!Joined(p.cfg, D, PhiBlocks(ph, v))
      /\ D \in SUBSET Blocks /\ s \in Blocks /\ x \in T!Preds(p.cfg, s)
  BY ProgramFacts DEF Complete, T!Joined, T!Preds
<1>2. CASE \E d \in D : T!Dominates(p.cfg, d, x)
  <2>1. PICK d : T!LastDef(p.cfg, D, d, x)
    BY <1>1, <1>2, T!LastDefExists
  <2>2. IsEntryDef(p, ph, v, d, s)
    BY <1>1, <2>1, T!EdgeKeepsDef DEF IsEntryDef
  <2>3. QED
    BY <1>1, <2>1, <2>2, EntryValIs, EndValIs
<1>3. CASE \A d \in D : ~ T!Dominates(p.cfg, d, x)
  <2>1. p.cfg \in T!Graphs /\ Entry \in Blocks
    BY ProgramFacts
  <2>2. x \notin D
    BY <1>3, <2>1, T!DominatesItself
  <2>3. LastStore(p, x, v, End(p, x)) = 0 /\ x \notin PhiBlocks(ph, v)
    BY <2>2, LastStoreEnd DEF Defs
  <2>4. \A d \in Blocks : ~ IsEntryDef(p, ph, v, d, x)
    BY <1>3 DEF IsEntryDef, T!EntryDef, T!StrictlyDominates
  <2>5. \A d \in Blocks : ~ IsEntryDef(p, ph, v, d, s)
    BY <1>1, <1>3, <2>1, T!DominatesPredecessor DEF IsEntryDef, T!EntryDef
  <2>6. QED
    BY <2>3, <2>4, <2>5 DEF ValueAt, EntryVal
<1>4. QED
  BY <1>2, <1>3

(* Nothing comes before the entry. *)
LEMMA EntryValAtEntry ==
  ASSUME NEW p \in Programs, NEW ph, NEW op, NEW v, Complete(p, ph, v),
         Entry \notin PhiBlocks(ph, v)
  PROVE  EntryVal(p, ph, op, v, Entry) = NULL
<1>1. \A d \in Blocks : ~ T!StrictlyDominates(p.cfg, d, Entry)
  BY ProgramFacts, T!RootDominated DEF T!StrictlyDominates
<1>2. \A d \in Blocks : ~ IsEntryDef(p, ph, v, d, Entry)
  BY <1>1 DEF IsEntryDef, T!EntryDef
<1>3. QED
  BY <1>2 DEF EntryVal

(* What a definition leaves is a value, if stores have one. *)
LEMMA LeftDefined ==
  ASSUME NEW p \in Programs, NEW op, NEW v \in Locals, NEW d \in Blocks,
         \A j \in Stores(p, d, v) : op[<<d, j>>] # NULL
  PROVE  Left(p, op, v, d) # NULL
BY LastStoreFacts, StoresFacts, ValueFacts DEF Left

(* A load that no store of its block precedes finds a value: the program   *)
(* assigns before it reads.                                                *)
LEMMA LoadDefined ==
  ASSUME NEW p \in Programs, NEW ph, NEW op, NEW v \in Locals, Complete(p, ph, v),
         NEW b \in Blocks, NEW k \in Loads(p, b, v), LastStore(p, b, v, k) = 0,
         \A d \in Blocks : \A j \in Stores(p, d, v) : op[<<d, j>>] # NULL
  PROVE  EntryVal(p, ph, op, v, b) # NULL
<1>1. DefinitelyAssigned(p)
  BY ProgramAssumption
<1>2. k \in Nat
  BY ProgramFacts DEF Loads
<1>3. ~ \E j \in Stores(p, b, v) : j < k
  BY <1>2, LastStoreFacts
<1>4. AssignedBefore(p, v, b)
  BY <1>1, <1>3 DEF DefinitelyAssigned
<1>5. PICK S \in SUBSET (Blocks \ {b}) :
        Entry \in S /\ \A x \in S : Stores(p, x, v) # {} \/ p.cfg[x] \subseteq S
  BY <1>4 DEF AssignedBefore
<1>6. \A x \in S : x \in Defs(p, ph, v) \/ p.cfg[x] \subseteq S
  BY <1>5 DEF Defs, StoreBlocks
<1>7. b \in PhiBlocks(ph, v) \/ \E d : IsEntryDef(p, ph, v, d, b)
  BY <1>5, <1>6, T!AlwaysDefined DEF Complete, IsEntryDef
<1>8. CASE b \in PhiBlocks(ph, v)
  BY <1>8, ValueFacts DEF EntryVal
<1>9. CASE b \notin PhiBlocks(ph, v)
  <2>1. PICK d : IsEntryDef(p, ph, v, d, b)
    BY <1>7, <1>9
  <2>2. d \in Blocks
    BY <2>1 DEF IsEntryDef, Complete, T!EntryDef, T!Joined
  <2>3. QED
    BY <1>9, <2>1, <2>2, EntryValIs, LeftDefined
<1>10. QED
  BY <1>8, <1>9

(* A local that is loaded at all is stored somewhere. *)
LEMMA LoadedStored ==
  ASSUME NEW p \in Programs, NEW v \in Loaded(p)
  PROVE  StoreBlocks(p, v) # {}
<1> SUFFICES ASSUME StoreBlocks(p, v) = {} PROVE FALSE
  OBVIOUS
<1>1. PICK b \in Blocks : \E k \in Kept(p, b) : k \in Loads(p, b, v)
  BY DEF Loaded
<1>2. \A x \in Blocks : Stores(p, x, v) = {}
  BY DEF StoreBlocks
<1>3. AssignedBefore(p, v, b)
  BY <1>1, <1>2, ProgramAssumption DEF DefinitelyAssigned, Loaded
<1>4. PICK S \in SUBSET (Blocks \ {b}) : Entry \in S /\ \A x \in S : p.cfg[x] \subseteq S
  BY <1>2, <1>3 DEF AssignedBefore
<1>5. S \in SUBSET Blocks /\ T!Closed(p.cfg, S)
  BY <1>4 DEF T!Closed
<1>6. S = Blocks
  BY <1>4, <1>5, ProgramFacts DEF T!Rooted
<1>7. QED
  BY <1>6

(* A block where the dominance of a definition ends has a predecessor that *)
(* ends with a value: its phi has an operand.                              *)
LEMMA FrontierDefined ==
  ASSUME NEW p \in Programs, NEW ph, NEW op, NEW v \in Locals, Complete(p, ph, v),
         \A d \in Blocks : \A j \in Stores(p, d, v) : op[<<d, j>>] # NULL,
         NEW d \in Defs(p, ph, v), NEW s \in T!DominanceFrontier(p.cfg, d)
  PROVE  \E x \in Blocks : s \in p.cfg[x] /\ ValueAt(p, ph, op, v, x, End(p, x)) # NULL
<1>1. PICK x \in Blocks : s \in p.cfg[x] /\ T!Dominates(p.cfg, d, x)
  BY DEF T!DominanceFrontier, T!Preds
<1>2. PICK e : T!LastDef(p.cfg, Defs(p, ph, v), e, x)
  BY <1>1, T!LastDefExists DEF Complete
<1>3. e \in Blocks
  BY <1>2 DEF T!LastDef, Complete, T!Joined
<1>4. ValueAt(p, ph, op, v, x, End(p, x)) = Left(p, op, v, e)
  BY <1>1, <1>2, EndValIs
<1>5. Left(p, op, v, e) # NULL
  BY <1>3, LeftDefined
<1>6. QED
  BY <1>1, <1>4, <1>5

-----------------------------------------------------------------------------
(***************************************************************************)
(* Where values are available                                              *)
(***************************************************************************)
(* A value in place is a value, and its first component a block.           *)
LEMMA InPlaceFacts ==
  ASSUME NEW p \in Programs, NEW ph, NEW x, InPlace(p, ph, x)
  PROVE  /\ x[1] \in Blocks /\ x # NULL /\ x = <<x[1], x[2]>>
         /\ x[2] \in Nat \/ x[2] \in Locals
         /\ \A b, k : x = <<b, k>> => ~ (b \in Blocks /\ k \in Nat /\ IsLocal(p, b, k, "load"))
<1>1. CASE x \in Phis /\ x[2] \in ToSet(ph[x[1]])
  BY <1>1, ValueFacts DEF Phis
<1>2. CASE x \in Blocks \X Nat /\ Computes(p, x[1], x[2]) /\ ~ IsLocal(p, x[1], x[2], "load")
  BY <1>2, ValueFacts
<1>3. QED
  BY <1>1, <1>2 DEF InPlace

(* What is available in a block is available further down. *)
LEMMA AvailableBelow ==
  ASSUME NEW p \in Programs, NEW ph, NEW x, NEW d \in Blocks, NEW k,
         Available(p, ph, x, d, k), NEW b \in Blocks, T!StrictlyDominates(p.cfg, d, b), NEW n
  PROVE  Available(p, ph, x, b, n) /\ x[1] # b
<1>1. x[1] \in Blocks /\ T!Dominates(p.cfg, x[1], d) /\ T!Dominates(p.cfg, d, b) /\ d # b
  BY InPlaceFacts DEF Available, T!StrictlyDominates
<1>2. T!Dominates(p.cfg, x[1], b)
  BY <1>1, ProgramFacts, T!DominatesTransitive
<1>3. x[1] # b
  BY <1>1, ProgramFacts, T!DominatesAntisymmetric
<1>4. QED
  BY <1>2, <1>3 DEF Available

(* ... and later in the block. *)
LEMMA AvailableLater ==
  ASSUME NEW p, NEW ph, NEW x, NEW b, NEW k \in Nat, NEW n \in Nat, k <= n,
         Available(p, ph, x, b, k)
  PROVE  Available(p, ph, x, b, n)
BY DEF Available

(* The stores of v in d write available values. *)
StoresAvailable(p, ph, op, v, d) ==
  \A j \in Stores(p, d, v) : Available(p, ph, op[<<d, j>>], d, j)

(* The value a block is entered with is available at its start; unless it  *)
(* is the block's phi, it comes from another block.                        *)
LEMMA EntryValAvailable ==
  ASSUME NEW p \in Programs, NEW ph, NEW op, NEW v \in Locals, Complete(p, ph, v),
         NEW b \in Blocks, EntryVal(p, ph, op, v, b) # NULL,
         \A d \in Blocks : T!StrictlyDominates(p.cfg, d, b) => StoresAvailable(p, ph, op, v, d)
  PROVE  /\ \A n : Available(p, ph, EntryVal(p, ph, op, v, b), b, n)
         /\ b \notin PhiBlocks(ph, v) => EntryVal(p, ph, op, v, b)[1] # b
<1>0. p.cfg \in T!Graphs /\ Entry \in Blocks
  BY ProgramFacts
<1>1. CASE b \in PhiBlocks(ph, v)
  <2>1. InPlace(p, ph, <<b, v>>)
    BY <1>1 DEF InPlace, Phis, PhiBlocks
  <2>2. T!Dominates(p.cfg, b, b) /\ v \notin Nat
    BY <1>0, T!DominatesItself, ValueFacts
  <2>3. EntryVal(p, ph, op, v, b) = <<b, v>>
    BY <1>1 DEF EntryVal
  <2>4. QED
    BY <1>1, <2>1, <2>2, <2>3 DEF Available
<1>2. CASE b \notin PhiBlocks(ph, v)
  <2>1. PICK d \in Blocks : IsEntryDef(p, ph, v, d, b)
    BY <1>2 DEF EntryVal
  <2>2. EntryVal(p, ph, op, v, b) = Left(p, op, v, d)
    BY <1>2, <2>1, EntryValIs
  <2>3. T!StrictlyDominates(p.cfg, d, b) /\ d \in Defs(p, ph, v)
    BY <2>1 DEF IsEntryDef, T!EntryDef
  <2>4. \E k : Available(p, ph, Left(p, op, v, d), d, k)
    <3>1. CASE LastStore(p, d, v, End(p, d)) # 0
      <4>1. LastStore(p, d, v, End(p, d)) \in Stores(p, d, v)
        BY <3>1, StoresFacts, LastStoreFacts
      <4>2. QED
        BY <2>3, <3>1, <4>1 DEF Left, StoresAvailable
    <3>2. CASE LastStore(p, d, v, End(p, d)) = 0
      <4>1. d \in PhiBlocks(ph, v)
        BY <2>3, <3>2, LastStoreEnd DEF Defs
      <4>2. InPlace(p, ph, <<d, v>>)
        BY <4>1 DEF InPlace, Phis, PhiBlocks
      <4>3. T!Dominates(p.cfg, d, d) /\ v \notin Nat
        BY <1>0, T!DominatesItself, ValueFacts
      <4>4. Available(p, ph, <<d, v>>, d, 1)
        BY <4>2, <4>3 DEF Available
      <4>5. QED
        BY <3>2, <4>4 DEF Left
    <3>3. QED
      BY <3>1, <3>2
  <2>5. QED
    BY <2>2, <2>3, <2>4, AvailableBelow
<1>3. QED
  BY <1>1, <1>2
-----------------------------------------------------------------------------
(***************************************************************************)
(* insideBlockForwarding                                                   *)
(***************************************************************************)
(* The list of blocks names each block once. *)
LEMMA BlockListFacts ==
  /\ Len(BlockList) \in Nat /\ Len(BlockList) # 0
  /\ \A n \in 1 .. Len(BlockList) : BlockList[n] \in Blocks
  /\ \A m, n \in 1 .. Len(BlockList) : BlockList[m] = BlockList[n] => m = n
  /\ \A b \in Blocks : \E n \in 1 .. Len(BlockList) : BlockList[n] = b
<1>1. BlockList \in Seq(Blocks) /\ ToSet(BlockList) = Blocks /\ IsInjective(BlockList) /\ Entry \in Blocks
  BY ProgramAssumption
<1>2. Sequence(BlockList) /\ \A n \in 1 .. Len(BlockList) : BlockList[n] \in Blocks
  BY <1>1, TypedSequence
<1>3. /\ Len(BlockList) \in Nat /\ DOMAIN BlockList = 1 .. Len(BlockList)
      /\ \A b : b \in ToSet(BlockList) <=> \E n \in 1 .. Len(BlockList) : BlockList[n] = b
  BY <1>2, SequenceFacts1
<1>4. QED
  BY <1>1, <1>2, <1>3 DEF IsInjective

(* The first two passes of execute work block by block: what the uses of a *)
(* block are depends on its own operands alone.                            *)
LEMMA UsesFirst ==
  ASSUME NEW p \in Programs, NEW b \in Blocks, NEW ph, NEW ph2, NEW op, NEW op2,
         UsesInv(p, ph, op, b, 1),
         \A x : InPlace(p, ph, x) => InPlace(p, ph2, x),
         \A j \in Positions(p, b) : TakesOperand(p, b, j) => op2[<<b, j>>] = op[<<b, j>>]
  PROVE  UsesInv(p, ph2, op2, b, 1)
<1> SUFFICES ASSUME NEW j \in Positions(p, b), TakesOperand(p, b, j)
             PROVE  /\ Located(p, ph2, op2, b, j, 1)
                    /\ op2[<<b, j>>] = Rep(p, ph2, op2, b, p.code[b][j].arg, 1)
  BY DEF UsesInv
<1>1. Located(p, ph2, op2, b, j, 1)
  BY DEF UsesInv, Located, Available
<1> DEFINE k == p.code[b][j].arg
           L == LastStore(p, b, p.code[b][k].var, k)
<1>2. k \in Nat /\ ~ (k < 1)
  <2>1. k \in 1 .. j - 1
    BY ProgramFacts, Zenon
  <2> HIDE DEF k
  <2>2. QED
    BY <2>1, CountedFrom, Zenon
<1>3. L # 0 => TakesOperand(p, b, L) /\ L \in Positions(p, b)
  BY <1>2, LastStoreFacts, StoresFacts DEF TakesOperand
<1>4. op[<<b, j>>] = Rep(p, ph, op, b, k, 1) /\ op2[<<b, j>>] = op[<<b, j>>]
  BY DEF UsesInv
<1>5. QED
  BY <1>1, <1>2, <1>3, <1>4 DEF Rep

(* Where the scan is. *)
LEMMA ScanFacts ==
  ASSUME Inv, pc = "forward"
  PROVE  /\ prog \in Programs /\ Block \in Blocks /\ i \in 1 .. End(prog, Block)
         /\ live[Block] = Positions(prog, Block)
         /\ \A k : k \in Positions(prog, Block) <=> k \in Nat /\ 0 < k /\ k < End(prog, Block)
         /\ frames = <<>> /\ visited = {}
         /\ \A b \in Blocks : phis[b] = <<>>
<1> USE DEF Inv, TypeInv, PhaseInv, LiveInv, ForwardInv
<1>1. prog \in Programs /\ at \in 1 .. Len(BlockList)
  OBVIOUS
<1>2. Block \in Blocks
  BY <1>1, BlockListFacts DEF Block
<1>3. live[Block] = Positions(prog, Block)
  BY <1>1, BlockListFacts DEF Block
<1>4. QED
  BY <1>1, <1>2, <1>3, StoresFacts

(* What stands for the operand of an instruction no later than i. *)
LEMMA ForwardedFacts ==
  ASSUME Inv, pc = "forward", NEW j \in Positions(prog, Block), j <= i, TakesOperand(prog, Block, j)
  PROVE  /\ operand[<<Block, j>>] = <<Block, prog.code[Block][j].arg>>
         /\ prog.code[Block][j].arg \in 1 .. j - 1
         /\ \E m \in 1 .. j - 1 : /\ Seen(forward_list, Block, operand[<<Block, j>>]) = <<Block, m>>
                                  /\ Computes(prog, Block, m) /\ m \in Kept(prog, Block)
<1> USE DEF Inv
<1> DEFINE k == prog.code[Block][j].arg
<1>1. /\ prog \in Programs /\ Block \in Blocks /\ i \in Nat /\ j \in Nat
      /\ k \in 1 .. j - 1 /\ Computes(prog, Block, k)
  BY ScanFacts, ProgramFacts, StoresFacts
<1>2. operand[<<Block, j>>] = <<Block, k>>
  <2>1. at \in 1 .. Len(BlockList) /\ ~ (at < at) /\ BlockList[at] = Block
    BY DEF TypeInv, Block
  <2>2. QED
    BY <2>1 DEF ForwardInv
<1>3. CASE k \in DOMAIN forward_list
  <2>1. PICK m \in 1 .. k - 1 : /\ forward_list[k] = <<Block, m>>
                                /\ Computes(prog, Block, m) /\ m \in Kept(prog, Block)
    BY <1>3 DEF ForwardInv
  <2>2. Seen(forward_list, Block, operand[<<Block, j>>]) = <<Block, m>>
    BY <1>2, <1>3, <2>1 DEF Seen
  <2>3. m \in 1 .. j - 1
    BY <1>1
  <2>4. QED
    BY <1>1, <1>2, <2>1, <2>2, <2>3
<1>4. CASE k \notin DOMAIN forward_list
  <2>1. Seen(forward_list, Block, operand[<<Block, j>>]) = <<Block, k>>
    BY <1>2, <1>4 DEF Seen
  <2>2. k \in 1 .. i - 1
    BY <1>1
  <2>3. IsLocal(prog, Block, k, "load") => LastStore(prog, Block, prog.code[Block][k].var, k) = 0
    BY <1>4, <2>2 DEF ForwardInv
  <2>4. k \in Kept(prog, Block)
    BY <1>1, <2>3 DEF Kept, Computes, IsLocal
  <2>5. QED
    BY <1>1, <1>2, <2>1, <2>4
<1>5. QED
  BY <1>3, <1>4

(* While blocks are scanned the later parts have nothing to say. *)
LEMMA StillScanning ==
  ASSUME Inv, pc = "forward", pc' = "forward",
         UNCHANGED <<prog, dom_frontier, irVars, phiVars, nameVars, fault, run>>
  PROVE  /\ PhiInv' /\ OperandsInv' /\ FramesInv' /\ VisitedInv' /\ StackInv' /\ PhiArgsInv'
         /\ RunInv' /\ ~ fault' /\ PhaseInv'
<1> USE DEF Inv, irVars, phiVars, nameVars
<1>1. frames = <<>> /\ visited = {} /\ Len(frames) = 0
  BY ScanFacts, ShortSequences
<1>2. FramesInv'
  BY <1>1 DEF FramesInv
<1>3. VisitedInv'
  BY <1>1 DEF VisitedInv, Reached
<1>4. PhaseInv'
  BY DEF PhaseInv
<1>5. QED
  BY <1>2, <1>3, <1>4 DEF PhiInv, OperandsInv, StackInv, PhiArgsInv, RunInv

(* Each step of the scan looks at one instruction. *)
LEMMA ScanningFacts ==
  ASSUME Inv, NEW o \in {"load", "store"}, Scanning(o)
  PROVE  /\ pc = "forward" /\ i' = i + 1 /\ prog \in Programs /\ Block \in Blocks
         /\ i \in Positions(prog, Block) /\ i \in Nat \ {0} /\ i + 1 \in 1 .. End(prog, Block)
         /\ IsLocal(prog, Block, i, o) /\ prog.code[Block][i].var \in Locals
         /\ Code(Block)[i] = prog.code[Block][i] /\ prog.code[Block][i].op = o
<1>1. pc = "forward" /\ i \in live[Block] /\ i' = i + 1 /\ isLocalVarOp(Block, i) /\ Code(Block)[i].op = o
  BY DEF Scanning, LocalOps
<1>2. i \in Positions(prog, Block)
  BY <1>1, ScanFacts
<1>3. i \in Nat \ {0} /\ i + 1 \in 1 .. End(prog, Block)
  BY <1>1, <1>2, ScanFacts, StoresFacts
<1>4. QED
  BY <1>1, <1>2, <1>3, ScanFacts DEF isLocalVarOp, IsLocal, Code

(* A store of a local. *)
LEMMA ForwardStoreKeeps ==
  ASSUME Inv, ForwardStore
  PROVE  Inv'
<1> USE DEF Inv, irVars, scanVars, phiVars, nameVars
<1> DEFINE v == prog.code[Block][i].var
<1>0. Scanning("store")
  BY DEF ForwardStore
<1>1. /\ pc = "forward" /\ i' = i + 1 /\ prog \in Programs /\ Block \in Blocks
      /\ i \in Positions(prog, Block) /\ i \in Nat \ {0} /\ i + 1 \in 1 .. End(prog, Block)
      /\ IsLocal(prog, Block, i, "store") /\ v \in Locals
      /\ Code(Block)[i] = prog.code[Block][i]
      /\ prog.code[Block][i].op = "store"
  BY <1>0, ScanningFacts
<1>2. /\ UNCHANGED <<prog, dom_frontier, pc, irVars, at, forward_list, phiVars, nameVars, fault, run>>
      /\ delete_list' = delete_list \cup ({defined_list[v]} \ {0})
      /\ defined_list' = [defined_list EXCEPT ![v] = i]
      /\ new_value' = [new_value EXCEPT ![v] = Forwarded(operand[<<Block, i>>])]
  BY <1>1 DEF ForwardStore
<1>3. pc' = "forward" /\ Block' = Block /\ prog' = prog /\ operand' = operand /\ \A x : Forwarded(x) = Seen(forward_list, Block, x)
  BY <1>1, <1>2 DEF Block, Forwarded, Seen
<1>4. PhiInv' /\ OperandsInv' /\ FramesInv' /\ VisitedInv' /\ StackInv' /\ PhiArgsInv'
      /\ RunInv' /\ ~ fault' /\ PhaseInv'
  BY <1>1, <1>2, <1>3, StillScanning
<1>5. LiveInv'
  BY <1>1, <1>2 DEF LiveInv
<1>6. \A w : i \in Stores(prog, Block, w) <=> w = v
  BY <1>1 DEF Stores, Positions
<1>7. \A w : LastStore(prog, Block, w, i + 1) = IF w = v THEN i ELSE LastStore(prog, Block, w, i)
  BY <1>1, <1>6, LastStoreNext
<1>8. defined_list[v] = LastStore(prog, Block, v, i)
  BY <1>1 DEF ForwardInv
<1>9. TypeInv'
  <2>1. TakesOperand(prog, Block, i)
    BY <1>1 DEF TakesOperand
  <2>2. PICK m \in 1 .. i - 1 : Seen(forward_list, Block, operand[<<Block, i>>]) = <<Block, m>> /\ Computes(prog, Block, m)
    BY <1>1, <2>1, ForwardedFacts
  <2>3. <<Block, m>> \in Ids
    BY <1>1, <2>2, IdFacts DEF Computes
  <2>4. new_value' \in [Locals -> Values \cup {NULL}] /\ defined_list' \in [Locals -> Nat]
    BY <1>1, <1>2, <1>3, <2>2, <2>3 DEF TypeInv, Values
  <2>5. i' \in Nat \ {0}
    BY <1>1
  <2>6. Ids' = Ids /\ Values' = Values
    BY <1>3 DEF Ids, Values, Code
  <2>7. QED
    BY <1>2, <2>4, <2>5, <2>6 DEF TypeInv
<1>10. ForwardInv'
  <2>1. i' \in 1 .. End(prog, Block)
    BY <1>1
  <2>2. ASSUME NEW w \in Locals
        PROVE  /\ defined_list'[w] = LastStore(prog, Block, w, i')
               /\ new_value'[w] = IF defined_list'[w] = 0 THEN NULL
                                  ELSE Seen(forward_list, Block, operand[<<Block, defined_list'[w]>>])
    BY <1>1, <1>2, <1>3, <1>7 DEF TypeInv, ForwardInv
  <2>3. DOMAIN forward_list =
       {k \in 1 .. i' - 1 : /\ IsLocal(prog, Block, k, "load")
                            /\ LastStore(prog, Block, prog.code[Block][k].var, k) # 0}
    <3>1. ~ IsLocal(prog, Block, i, "load")
      BY <1>1 DEF IsLocal
    <3>2. \A k : k \in 1 .. i' - 1 <=> k \in 1 .. i - 1 \/ k = i
      BY <1>1
    <3>3. QED
      BY <1>1, <3>1, <3>2 DEF ForwardInv
  <2>4. delete_list' =
       {k \in 1 .. i' - 1 : /\ IsLocal(prog, Block, k, "store")
                            /\ \E j \in Stores(prog, Block, prog.code[Block][k].var) : k < j /\ j < i'}
    <3> DEFINE L == LastStore(prog, Block, v, i)
               Over(n) == {k \in 1 .. n - 1 : /\ IsLocal(prog, Block, k, "store")
                            /\ \E j \in Stores(prog, Block, prog.code[Block][k].var) : k < j /\ j < n}
    <3>1. delete_list = Over(i)
      BY <1>1 DEF ForwardInv
    <3>2. L \in Nat /\ (L # 0 => L \in Stores(prog, Block, v) /\ L < i)
      BY <1>1, LastStoreFacts
    <3>3. ASSUME NEW k \in Over(i + 1) PROVE k \in Over(i) \/ (k = L /\ L # 0)
      <4>1. PICK j \in Stores(prog, Block, prog.code[Block][k].var) : k < j /\ j < i + 1
        BY <3>3
      <4>2. k \in Nat \ {0} /\ j \in Nat \ {0} /\ IsLocal(prog, Block, k, "store")
        BY <1>1, <3>3, <4>1, StoresFacts
      <4>3. CASE j < i
        BY <1>1, <4>1, <4>2, <4>3
      <4>4. CASE j = i
        <5>1. prog.code[Block][k].var = v
          BY <1>6, <4>1, <4>4
        <5>2. k \in Positions(prog, Block)
          BY <1>1, <4>1, <4>2, <4>4, StoresFacts
        <5>3. k \in Stores(prog, Block, v) /\ k < i
          BY <4>1, <4>2, <4>4, <5>1, <5>2 DEF Stores, IsLocal, Positions
        <5>4. L # 0 /\ k <= L
          BY <1>1, <5>3, LastStoreFacts
        <5>5. CASE k < L
          BY <1>1, <3>2, <4>2, <5>1, <5>3, <5>4, <5>5
        <5>6. k < L \/ k = L
          BY <3>2, <4>2, <5>4
        <5> HIDE DEF Over, L
        <5>7. QED
          BY <5>4, <5>5, <5>6
      <4>5. QED
        BY <1>1, <4>1, <4>2, <4>3, <4>4
    <3>4. ASSUME NEW k \in Over(i) PROVE k \in Over(i + 1)
      <4>1. PICK j \in Stores(prog, Block, prog.code[Block][k].var) : k < j /\ j < i
        BY <3>4
      <4>2. j \in Nat /\ k \in 1 .. i - 1
        BY <1>1, <3>4, <4>1, StoresFacts
      <4>3. j < i + 1 /\ k \in 1 .. (i + 1) - 1
        BY <1>1, <4>1, <4>2
      <4>4. QED
        BY <3>4, <4>1, <4>3
    <3>5. ASSUME L # 0 PROVE L \in Over(i + 1)
      <4>1. L \in Stores(prog, Block, v) /\ L < i /\ L \in Nat
        BY <3>2, <3>5
      <4>2. prog.code[Block][L].op = "store" /\ prog.code[Block][L].var = v
        BY <1>1, <4>1, StoresFacts
      <4>3. i \in Stores(prog, Block, v) /\ L < i /\ i < i + 1
        BY <1>1, <1>6, <4>1
      <4>4. L \in 1 .. (i + 1) - 1
        BY <1>1, <3>5, <4>1
      <4>5. IsLocal(prog, Block, L, "store") /\ prog.code[Block][L].var = v
        BY <1>1, <4>2 DEF IsLocal
      <4> HIDE DEF L, v
      <4>6. QED
        BY <4>3, <4>4, <4>5
    <3>6. delete_list' = Over(i) \cup ({L} \ {0})
      BY <1>2, <1>8, <3>1
    <3> HIDE DEF Over, L
    <3>7. delete_list' = Over(i + 1)
      BY <3>3, <3>4, <3>5, <3>6
    <3>8. QED
      BY <1>1, <3>7 DEF Over
  <2>5. /\ \A k \in DOMAIN forward_list :
             /\ forward_list[k] = Seen(forward_list, Block,
                      operand[<<Block, LastStore(prog, Block, prog.code[Block][k].var, k)>>])
             /\ \E m \in 1 .. k - 1 : /\ forward_list[k] = <<Block, m>>
                                      /\ Computes(prog, Block, m) /\ m \in Kept(prog, Block)
        /\ \A n \in 1 .. Len(BlockList) :
             IF n < at
               THEN UsesInv(prog, phis, operand, BlockList[n], 1)
               ELSE \A j \in Positions(prog, BlockList[n]) : TakesOperand(prog, BlockList[n], j) =>
                      operand[<<BlockList[n], j>>] = <<BlockList[n], prog.code[BlockList[n]][j].arg>>
    BY <1>1 DEF ForwardInv
  <2>6. phis' = phis /\ forward_list' = forward_list /\ at' = at
    BY <1>2
  <2> HIDE DEF Inv
  <2>7. QED
    BY <1>3, <2>1, <2>2, <2>3, <2>4, <2>5, <2>6 DEF ForwardInv
<1>11. QED
  BY <1>4, <1>5, <1>9, <1>10
(* What the scan has gathered stays true of the instructions before i when *)
(* another load is added.                                                  *)
LEMMA SeenGrows ==
  ASSUME Inv, pc = "forward", i \in Positions(prog, Block),
         NEW fl, \A k \in DOMAIN fl : k \in DOMAIN forward_list \/ k = i,
         \A k \in DOMAIN forward_list : k \in DOMAIN fl /\ fl[k] = forward_list[k],
         NEW j \in Positions(prog, Block), j <= i, TakesOperand(prog, Block, j)
  PROVE  Seen(fl, Block, operand[<<Block, j>>]) = Seen(forward_list, Block, operand[<<Block, j>>])
<1> DEFINE k == prog.code[Block][j].arg
<1>1. operand[<<Block, j>>] = <<Block, k>> /\ k \in 1 .. j - 1
  BY ForwardedFacts
<1>2. i \in Nat /\ j \in Nat
  BY ScanFacts
<1>3. k # i
  BY <1>1, <1>2
<1>4. QED
  BY <1>1, <1>3 DEF Seen

(* A load of a local. *)
LEMMA ForwardLoadKeeps ==
  ASSUME Inv, ForwardLoad
  PROVE  Inv'
<1> USE DEF Inv, irVars, scanVars, phiVars, nameVars
<1> DEFINE v == prog.code[Block][i].var
           L == LastStore(prog, Block, v, i)
<1>0. Scanning("load")
  BY DEF ForwardLoad
<1>1. /\ pc = "forward" /\ i' = i + 1 /\ prog \in Programs /\ Block \in Blocks
      /\ i \in Positions(prog, Block) /\ i \in Nat \ {0} /\ i + 1 \in 1 .. End(prog, Block)
      /\ IsLocal(prog, Block, i, "load") /\ v \in Locals
      /\ Code(Block)[i] = prog.code[Block][i]
      /\ prog.code[Block][i].op = "load"
  BY <1>0, ScanningFacts
<1>2. /\ UNCHANGED <<prog, dom_frontier, pc, irVars, at, defined_list, new_value, delete_list,
                     phiVars, nameVars, fault, run>>
      /\ forward_list' = IF defined_list[v] = 0 THEN forward_list
                         ELSE [k \in DOMAIN forward_list \cup {i} |->
                                 IF k = i THEN new_value[v] ELSE forward_list[k]]
  BY <1>1 DEF ForwardLoad
<1>3. pc' = "forward" /\ Block' = Block /\ prog' = prog /\ operand' = operand
  BY <1>1, <1>2 DEF Block
<1>4. PhiInv' /\ OperandsInv' /\ FramesInv' /\ VisitedInv' /\ StackInv' /\ PhiArgsInv'
      /\ RunInv' /\ ~ fault' /\ PhaseInv'
  BY <1>1, <1>2, <1>3, StillScanning
<1>5. LiveInv'
  BY <1>1, <1>2 DEF LiveInv
<1>6. \A w : i \notin Stores(prog, Block, w)
  BY <1>1 DEF Stores, Positions
<1>7. \A w : LastStore(prog, Block, w, i + 1) = LastStore(prog, Block, w, i)
  BY <1>1, <1>6, LastStoreNext
<1>8. defined_list[v] = L /\ L \in Nat /\ (L # 0 => L \in Stores(prog, Block, v) /\ L < i)
  BY <1>1, LastStoreFacts DEF ForwardInv
<1>9. TypeInv'
  <2>1. i' \in Nat \ {0}
    BY <1>1
  <2>2. Ids' = Ids /\ Values' = Values
    BY <1>3 DEF Ids, Values, Code
  <2>3. QED
    BY <1>2, <2>1, <2>2 DEF TypeInv
<1>10. DOMAIN forward_list' = IF L = 0 THEN DOMAIN forward_list ELSE DOMAIN forward_list \cup {i}
  BY <1>2, <1>8
<1>11. i \notin DOMAIN forward_list /\ \A k \in DOMAIN forward_list : k \in 1 .. i - 1
  BY <1>1 DEF ForwardInv
<1>12. \A k \in DOMAIN forward_list : forward_list'[k] = forward_list[k]
  BY <1>2, <1>11
<1>13. \A j \in Positions(prog, Block) : j <= i /\ TakesOperand(prog, Block, j) =>
         Seen(forward_list', Block, operand[<<Block, j>>]) = Seen(forward_list, Block, operand[<<Block, j>>])
  <2> SUFFICES ASSUME NEW fl, fl = forward_list', NEW j \in Positions(prog, Block), j <= i,
                      TakesOperand(prog, Block, j)
               PROVE  Seen(fl, Block, operand[<<Block, j>>]) = Seen(forward_list, Block, operand[<<Block, j>>])
    OBVIOUS
  <2>1. /\ \A k \in DOMAIN fl : k \in DOMAIN forward_list \/ k = i
        /\ \A k \in DOMAIN forward_list : k \in DOMAIN fl /\ fl[k] = forward_list[k]
    BY <1>10, <1>12
  <2> HIDE DEF Inv
  <2>2. QED
    BY <1>1, <2>1, SeenGrows
<1>14. \A w, k : k \in Nat /\ k <= i /\ LastStore(prog, Block, w, k) # 0 =>
         LET j == LastStore(prog, Block, w, k) IN
         j \in Positions(prog, Block) /\ j <= i /\ j < k /\ TakesOperand(prog, Block, j)
  BY <1>1, LastStoreFacts, StoresFacts DEF TakesOperand
<1>15. ForwardInv'
  <2>1. i' \in 1 .. End(prog, Block)
    BY <1>1
  <2>2. ASSUME NEW w \in Locals
        PROVE  /\ defined_list[w] = LastStore(prog, Block, w, i')
               /\ new_value[w] = IF defined_list[w] = 0 THEN NULL
                                 ELSE Seen(forward_list', Block, operand[<<Block, defined_list[w]>>])
    <3>1. /\ defined_list[w] = LastStore(prog, Block, w, i)
          /\ new_value[w] = IF defined_list[w] = 0 THEN NULL
                            ELSE Seen(forward_list, Block, operand[<<Block, defined_list[w]>>])
      BY <1>1 DEF ForwardInv
    <3> HIDE DEF Inv
    <3>2. QED
      BY <1>1, <1>7, <1>13, <1>14, <3>1
  <2>3. DOMAIN forward_list' =
       {k \in 1 .. i' - 1 : /\ IsLocal(prog, Block, k, "load")
                            /\ LastStore(prog, Block, prog.code[Block][k].var, k) # 0}
    <3>1. \A k : k \in 1 .. i' - 1 <=> k \in 1 .. i - 1 \/ k = i
      BY <1>1
    <3>2. DOMAIN forward_list = {k \in 1 .. i - 1 : /\ IsLocal(prog, Block, k, "load")
                                    /\ LastStore(prog, Block, prog.code[Block][k].var, k) # 0}
      BY <1>1 DEF ForwardInv
    <3> HIDE DEF Inv
    <3>3. QED
      BY <1>1, <1>10, <3>1, <3>2
  <2>4. delete_list =
       {k \in 1 .. i' - 1 : /\ IsLocal(prog, Block, k, "store")
                            /\ \E j \in Stores(prog, Block, prog.code[Block][k].var) : k < j /\ j < i'}
    <3>1. ~ IsLocal(prog, Block, i, "store")
      BY <1>1 DEF IsLocal
    <3>2. \A k : k \in 1 .. i' - 1 <=> k \in 1 .. i - 1 \/ k = i
      BY <1>1
    <3>3. \A w : \A j \in Stores(prog, Block, w) : j < i' <=> j < i
      BY <1>1, <1>6, StoresFacts
    <3>4. delete_list = {k \in 1 .. i - 1 : /\ IsLocal(prog, Block, k, "store")
                            /\ \E j \in Stores(prog, Block, prog.code[Block][k].var) : k < j /\ j < i}
      BY <1>1 DEF ForwardInv
    <3> HIDE DEF Inv
    <3>5. QED
      BY <1>1, <3>1, <3>2, <3>3, <3>4
  <2>5. ASSUME NEW k \in DOMAIN forward_list'
        PROVE  /\ forward_list'[k] = Seen(forward_list', Block,
                      operand[<<Block, LastStore(prog, Block, prog.code[Block][k].var, k)>>])
               /\ \E m \in 1 .. k - 1 : /\ forward_list'[k] = <<Block, m>>
                                        /\ Computes(prog, Block, m) /\ m \in Kept(prog, Block)
    <3> DEFINE j == LastStore(prog, Block, prog.code[Block][k].var, k)
    <3>1. k \in Nat /\ k <= i /\ j # 0
      BY <1>1, <2>3
    <3>2. j \in Positions(prog, Block) /\ j <= i /\ j < k /\ TakesOperand(prog, Block, j)
      BY <1>14, <3>1
    <3>3. Seen(forward_list', Block, operand[<<Block, j>>]) = Seen(forward_list, Block, operand[<<Block, j>>])
      BY <1>13, <3>2
    <3>4. CASE k \in DOMAIN forward_list
      <4>1. /\ forward_list[k] = Seen(forward_list, Block, operand[<<Block, j>>])
            /\ \E m \in 1 .. k - 1 : /\ forward_list[k] = <<Block, m>>
                                     /\ Computes(prog, Block, m) /\ m \in Kept(prog, Block)
        BY <1>1, <3>4 DEF ForwardInv
      <4> HIDE DEF Inv
      <4>2. QED
        BY <1>12, <3>3, <3>4, <4>1
    <3>5. CASE k \notin DOMAIN forward_list
      <4>1. k = i /\ L # 0
        BY <1>10, <3>5
      <4>2. forward_list'[k] = new_value[v]
        BY <1>2, <1>8, <4>1
      <4>3. new_value[v] = Seen(forward_list, Block, operand[<<Block, L>>])
        BY <1>1, <1>8, <4>1 DEF ForwardInv
      <4>4. j = L
        BY <4>1
      <4> HIDE DEF Inv
      <4>5. PICK m \in 1 .. j - 1 : /\ Seen(forward_list, Block, operand[<<Block, j>>]) = <<Block, m>>
                                   /\ Computes(prog, Block, m) /\ m \in Kept(prog, Block)
        BY <1>1, <3>2, ForwardedFacts
      <4>6. j \in Nat /\ m \in 1 .. k - 1
        BY <1>1, <1>8, <3>1, <3>2, <4>4
      <4> HIDE DEF L, v, j
      <4>7. QED
        BY <3>3, <4>2, <4>3, <4>4, <4>5, <4>6 DEF j
    <3>6. QED
      BY <3>4, <3>5
  <2>6. \A n \in 1 .. Len(BlockList) :
             IF n < at
               THEN UsesInv(prog, phis, operand, BlockList[n], 1)
               ELSE \A j \in Positions(prog, BlockList[n]) : TakesOperand(prog, BlockList[n], j) =>
                      operand[<<BlockList[n], j>>] = <<BlockList[n], prog.code[BlockList[n]][j].arg>>
    BY <1>1 DEF ForwardInv
  <2>7. /\ phis' = phis /\ at' = at
        /\ defined_list' = defined_list /\ new_value' = new_value /\ delete_list' = delete_list
    BY <1>2
  <2> HIDE DEF Inv
  <2>8. QED
    BY <1>3, <2>1, <2>2, <2>3, <2>4, <2>5, <2>6, <2>7 DEF ForwardInv
<1>16. QED
  BY <1>4, <1>5, <1>9, <1>15

(* Any other instruction. *)
LEMMA SkipInstrKeeps ==
  ASSUME Inv, SkipInstr
  PROVE  Inv'
<1> USE DEF Inv, irVars, scanVars, phiVars, nameVars
<1>0. pc = "forward" /\ i \in live[Block] /\ ~ isLocalVarOp(Block, i) /\ i' = i + 1
  BY DEF SkipInstr
<1>1. /\ prog \in Programs /\ Block \in Blocks
      /\ i \in Positions(prog, Block) /\ i \in Nat \ {0} /\ i + 1 \in 1 .. End(prog, Block)
  BY <1>0, ScanFacts, StoresFacts
<1>2. ~ IsLocal(prog, Block, i, "load") /\ ~ IsLocal(prog, Block, i, "store")
  BY <1>0 DEF isLocalVarOp, IsLocal, Code
<1>3. /\ UNCHANGED <<prog, dom_frontier, pc, irVars, at, defined_list, new_value, forward_list,
                     delete_list, phiVars, nameVars, fault, run>>
      /\ pc' = "forward" /\ Block' = Block
  BY <1>0 DEF SkipInstr, Block
<1>4. PhiInv' /\ OperandsInv' /\ FramesInv' /\ VisitedInv' /\ StackInv' /\ PhiArgsInv'
      /\ RunInv' /\ ~ fault' /\ PhaseInv'
  BY <1>0, <1>3, StillScanning
<1>5. LiveInv'
  BY <1>3 DEF LiveInv
<1>6. \A w \in Locals : i \notin Stores(prog, Block, w)
  BY <1>1, <1>2 DEF Stores, Positions, IsLocal
<1>7. \A w \in Locals : LastStore(prog, Block, w, i + 1) = LastStore(prog, Block, w, i)
  BY <1>1, <1>6, LastStoreNext
<1>8. TypeInv'
  <2>1. i' \in Nat \ {0}
    BY <1>0, <1>1
  <2>2. Ids' = Ids /\ Values' = Values
    BY <1>3 DEF Ids, Values, Code
  <2>3. QED
    BY <1>3, <2>1, <2>2 DEF TypeInv
<1>9. ForwardInv'
  <2>1. i' \in 1 .. End(prog, Block)
    BY <1>0, <1>1
  <2>2. ASSUME NEW w \in Locals
        PROVE  defined_list[w] = LastStore(prog, Block, w, i')
    BY <1>0, <1>7 DEF ForwardInv
  <2>3. \A k : k \in 1 .. i' - 1 <=> k \in 1 .. i - 1 \/ k = i
    BY <1>0, <1>1
  <2>4. DOMAIN forward_list =
       {k \in 1 .. i' - 1 : /\ IsLocal(prog, Block, k, "load")
                            /\ LastStore(prog, Block, prog.code[Block][k].var, k) # 0}
    <3>1. DOMAIN forward_list = {k \in 1 .. i - 1 : /\ IsLocal(prog, Block, k, "load")
                                    /\ LastStore(prog, Block, prog.code[Block][k].var, k) # 0}
      BY <1>0 DEF ForwardInv
    <3> HIDE DEF Inv
    <3>2. QED
      BY <1>2, <2>3, <3>1
  <2>5. delete_list =
       {k \in 1 .. i' - 1 : /\ IsLocal(prog, Block, k, "store")
                            /\ \E j \in Stores(prog, Block, prog.code[Block][k].var) : k < j /\ j < i'}
    <3>1. \A w \in Locals : \A j \in Stores(prog, Block, w) : j < i' <=> j < i
      BY <1>0, <1>1, <1>6, StoresFacts
    <3>2. delete_list = {k \in 1 .. i - 1 : /\ IsLocal(prog, Block, k, "store")
                            /\ \E j \in Stores(prog, Block, prog.code[Block][k].var) : k < j /\ j < i}
      BY <1>0 DEF ForwardInv
    <3>3. \A k : IsLocal(prog, Block, k, "store") => prog.code[Block][k].var \in Locals
      BY DEF IsLocal
    <3> HIDE DEF Inv
    <3>4. QED
      BY <1>2, <2>3, <3>1, <3>2, <3>3
  <2>6. /\ \A v \in Locals :
             new_value[v] = IF defined_list[v] = 0 THEN NULL
                            ELSE Seen(forward_list, Block, operand[<<Block, defined_list[v]>>])
        /\ \A k \in DOMAIN forward_list :
             /\ forward_list[k] = Seen(forward_list, Block,
                      operand[<<Block, LastStore(prog, Block, prog.code[Block][k].var, k)>>])
             /\ \E m \in 1 .. k - 1 : /\ forward_list[k] = <<Block, m>>
                                      /\ Computes(prog, Block, m) /\ m \in Kept(prog, Block)
        /\ \A n \in 1 .. Len(BlockList) :
             IF n < at
               THEN UsesInv(prog, phis, operand, BlockList[n], 1)
               ELSE \A j \in Positions(prog, BlockList[n]) : TakesOperand(prog, BlockList[n], j) =>
                      operand[<<BlockList[n], j>>] = <<BlockList[n], prog.code[BlockList[n]][j].arg>>
    BY <1>0 DEF ForwardInv
  <2>7. /\ phis' = phis /\ at' = at /\ prog' = prog /\ operand' = operand /\ forward_list' = forward_list
        /\ defined_list' = defined_list /\ new_value' = new_value /\ delete_list' = delete_list
    BY <1>3
  <2> HIDE DEF Inv
  <2>8. QED
    BY <1>3, <2>1, <2>2, <2>4, <2>5, <2>6, <2>7 DEF ForwardInv
<1>10. QED
  BY <1>4, <1>5, <1>8, <1>9
(* The end of the scan of a block: its loads and stores that are decided   *)
(* go, and the operands are what UsesInv says.                             *)
LEMMA ForwardedBlock ==
  ASSUME Inv, EndForwardBlock
  PROVE  /\ UsesInv(prog, phis, operand', Block, 1)
         /\ \A n \in 1 .. Len(BlockList) : n # at =>
              \A j \in Positions(prog, BlockList[n]) :
                TakesOperand(prog, BlockList[n], j)
                  => operand'[<<BlockList[n], j>>] = operand[<<BlockList[n], j>>]
         /\ live' = [live EXCEPT ![Block] = Kept(prog, Block)]
         /\ operand' \in [Ids -> Ids \cup Phis \cup {NULL}]
         /\ \A b \in Blocks : \A k \in Positions(prog, b) :
              operand'[<<b, k>>] = NULL <=> ~ TakesOperand(prog, b, k)
<1> USE DEF Inv, irVars, scanVars, phiVars, nameVars
<1>1. /\ pc = "forward" /\ i > Len(Code(Block))
      /\ operand' = [id \in Ids |-> IF operand[id] = NULL THEN NULL ELSE Forwarded(operand[id])]
      /\ live' = [live EXCEPT ![Block] = @ \ (DOMAIN forward_list \cup delete_list)]
  BY DEF EndForwardBlock
<1>2. /\ prog \in Programs /\ Block \in Blocks /\ live[Block] = Positions(prog, Block)
      /\ End(prog, Block) \in Nat \ {0}
      /\ \A k : k \in Positions(prog, Block) <=> k \in Nat /\ 0 < k /\ k < End(prog, Block)
      /\ \A b \in Blocks : phis[b] = <<>>
      /\ at \in 1 .. Len(BlockList) /\ BlockList[at] = Block
  <2>1. at \in 1 .. Len(BlockList) /\ BlockList[at] = Block
    BY DEF Block, TypeInv
  <2> HIDE DEF Inv
  <2>2. QED
    BY <1>1, <2>1, ScanFacts, StoresFacts
<1>3. i = End(prog, Block)
  BY <1>1, <1>2, ScanFacts, ProgramFacts DEF End, Code
<1>4. /\ \A id \in Ids : operand'[id] = IF operand[id] = NULL THEN NULL
                                        ELSE Seen(forward_list, Block, operand[id])
      /\ \A b \in Blocks : \A k \in Positions(prog, b) : <<b, k>> \in Ids
  BY <1>1, <1>2, IdFacts DEF Forwarded, Seen
<1>5. \A j \in Positions(prog, Block) : TakesOperand(prog, Block, j) =>
        /\ operand[<<Block, j>>] = <<Block, prog.code[Block][j].arg>>
        /\ prog.code[Block][j].arg \in 1 .. j - 1
        /\ operand'[<<Block, j>>] = Seen(forward_list, Block, operand[<<Block, j>>])
        /\ \E m \in 1 .. j - 1 : /\ operand'[<<Block, j>>] = <<Block, m>>
                                 /\ Computes(prog, Block, m) /\ m \in Kept(prog, Block)
  <2> SUFFICES ASSUME NEW j \in Positions(prog, Block), TakesOperand(prog, Block, j)
               PROVE  /\ operand[<<Block, j>>] = <<Block, prog.code[Block][j].arg>>
                      /\ prog.code[Block][j].arg \in 1 .. j - 1
                      /\ operand'[<<Block, j>>] = Seen(forward_list, Block, operand[<<Block, j>>])
                      /\ \E m \in 1 .. j - 1 : /\ operand'[<<Block, j>>] = <<Block, m>>
                                 /\ Computes(prog, Block, m) /\ m \in Kept(prog, Block)
    OBVIOUS
  <2>1. j <= i /\ j \in Nat
    BY <1>2, <1>3
  <2>2. /\ operand[<<Block, j>>] = <<Block, prog.code[Block][j].arg>>
        /\ prog.code[Block][j].arg \in 1 .. j - 1
        /\ \E m \in 1 .. j - 1 : /\ Seen(forward_list, Block, operand[<<Block, j>>]) = <<Block, m>>
                                 /\ Computes(prog, Block, m) /\ m \in Kept(prog, Block)
    BY <1>1, <2>1, ForwardedFacts
  <2>3. operand[<<Block, j>>] # NULL
    BY <1>2, <2>1, <2>2, ValueFacts
  <2>4. operand'[<<Block, j>>] = Seen(forward_list, Block, operand[<<Block, j>>])
    BY <1>2, <1>4, <2>3
  <2> HIDE DEF Inv
  <2>5. QED
    BY <2>2, <2>4
<1>6. UsesInv(prog, phis, operand', Block, 1)
  <2> SUFFICES ASSUME NEW j \in Positions(prog, Block), TakesOperand(prog, Block, j)
               PROVE  /\ Located(prog, phis, operand', Block, j, 1)
                      /\ operand'[<<Block, j>>] = Rep(prog, phis, operand', Block, prog.code[Block][j].arg, 1)
    BY DEF UsesInv
  <2> DEFINE k == prog.code[Block][j].arg
             L == LastStore(prog, Block, prog.code[Block][k].var, k)
  <2>1. /\ operand[<<Block, j>>] = <<Block, k>> /\ k \in 1 .. j - 1
        /\ operand'[<<Block, j>>] = Seen(forward_list, Block, operand[<<Block, j>>])
    BY <1>5
  <2>2. PICK m \in 1 .. j - 1 : /\ operand'[<<Block, j>>] = <<Block, m>>
                                /\ Computes(prog, Block, m) /\ m \in Kept(prog, Block)
    BY <1>5
  <2>3. j \in Nat /\ j < i /\ k \in 1 .. i - 1 /\ ~ (k < 1)
    BY <1>2, <1>3, <2>1
  <2>4. Located(prog, phis, operand', Block, j, 1)
    <3>1. CASE IsLocal(prog, Block, m, "load")
      BY <2>2, <3>1 DEF Located
    <3>2. CASE ~ IsLocal(prog, Block, m, "load")
      <4>1. InPlace(prog, phis, <<Block, m>>)
        BY <1>2, <2>2, <2>3, <3>2 DEF InPlace
      <4>2. T!Dominates(prog.cfg, Block, Block) /\ m < j
        BY <1>2, <2>3, ProgramFacts, T!DominatesItself
      <4>3. QED
        BY <2>2, <4>1, <4>2 DEF Located, Available
    <3>3. QED
      BY <3>1, <3>2
  <2>5. k \in DOMAIN forward_list <=> IsLocal(prog, Block, k, "load") /\ L # 0
    BY <1>1, <2>3 DEF ForwardInv
  <2>6. CASE k \in DOMAIN forward_list
    <3>1. forward_list[k] = Seen(forward_list, Block, operand[<<Block, L>>])
      BY <1>1, <2>6 DEF ForwardInv
    <3>2. L \in Stores(prog, Block, prog.code[Block][k].var)
      <4>1. L # 0
        BY <2>5, <2>6, Zenon
      <4> HIDE DEF k
      <4>2. k \in Nat
        BY <2>3, CountedFrom, Zenon
      <4>3. QED
        BY <1>2, <4>1, <4>2, LastStoreFacts
    <3>3. L \in Positions(prog, Block) /\ TakesOperand(prog, Block, L)
      BY <1>2, <3>2, StoresFacts DEF TakesOperand
    <3>5. operand'[<<Block, j>>] = forward_list[k]
      BY <2>1, <2>6 DEF Seen
    <3> HIDE DEF L, k, Inv
    <3>4. operand'[<<Block, L>>] = forward_list[k]
      BY <1>5, <3>1, <3>3
    <3>6. QED
      BY <2>4, <2>5, <2>6, <3>4, <3>5 DEF Rep, k, L
  <2>7. CASE k \notin DOMAIN forward_list
    <3>1. operand'[<<Block, j>>] = <<Block, k>>
      BY <2>1, <2>7 DEF Seen
    <3>2. ~ (IsLocal(prog, Block, k, "load") /\ L # 0)
      BY <2>5, <2>7
    <3> HIDE DEF Inv, k
    <3>3. Rep(prog, phis, operand', Block, k, 1) = <<Block, k>>
      BY <2>3, <3>2 DEF Rep, L
    <3>4. QED
      BY <2>4, <3>1, <3>3 DEF k
  <2>8. QED
    BY <2>6, <2>7
<1>7. ASSUME NEW n \in 1 .. Len(BlockList), n # at, NEW j \in Positions(prog, BlockList[n]),
             TakesOperand(prog, BlockList[n], j)
      PROVE  operand'[<<BlockList[n], j>>] = operand[<<BlockList[n], j>>]
  <2> DEFINE b == BlockList[n]
             x == operand[<<b, j>>]
  <2>1. b \in Blocks /\ b # Block /\ <<b, j>> \in Ids
    BY <1>2, <1>4, <1>7, BlockListFacts
  <2>2. x # NULL
    BY <1>7, <2>1 DEF TypeInv
  <2>3. operand'[<<b, j>>] = Seen(forward_list, Block, x)
    BY <1>4, <2>1, <2>2
  <2>4. x[1] = Block => x[2] \notin DOMAIN forward_list
    <3>1. CASE n < at
      <4>1. Located(prog, phis, operand, b, j, 1)
        BY <1>1, <1>7, <3>1 DEF ForwardInv, UsesInv
      <4>2. CASE Available(prog, phis, x, b, j)
        <5>1. ~ (x = <<Block, x[2]>> /\ x[2] \in Nat /\ IsLocal(prog, Block, x[2], "load")) /\ x = <<x[1], x[2]>>
          BY <1>2, <4>2, InPlaceFacts DEF Available
        <5>2. x[2] \in DOMAIN forward_list => x[2] \in Nat /\ IsLocal(prog, Block, x[2], "load")
          BY <1>1, <1>3, <1>2 DEF ForwardInv
        <5>3. QED
          BY <5>1, <5>2
      <4>3. CASE ~ Available(prog, phis, x, b, j)
        <5>1. x[1] = b
          BY <4>1, <4>3 DEF Located
        <5>2. QED
          BY <2>1, <5>1
      <4>4. QED
        BY <4>2, <4>3
    <3>2. CASE ~ (n < at)
      <4>1. x = <<b, prog.code[b][j].arg>>
        BY <1>1, <1>7, <3>2 DEF ForwardInv
      <4>2. QED
        BY <2>1, <4>1
    <3>3. QED
      BY <3>1, <3>2
  <2>5. QED
    BY <2>3, <2>4 DEF Seen
<1>8. live' = [live EXCEPT ![Block] = Kept(prog, Block)]
  <2>1. \A k \in Positions(prog, Block) : k \in 1 .. i - 1
    BY <1>2, <1>3
  <2>2. \A k \in Positions(prog, Block) :
          k \in DOMAIN forward_list <=> /\ IsLocal(prog, Block, k, "load")
                                        /\ LastStore(prog, Block, prog.code[Block][k].var, k) # 0
    BY <1>1, <2>1 DEF ForwardInv
  <2>3. \A k \in Positions(prog, Block) :
          k \in delete_list <=> /\ IsLocal(prog, Block, k, "store")
                                /\ \E j \in Stores(prog, Block, prog.code[Block][k].var) : k < j /\ j < i
    BY <1>1, <2>1 DEF ForwardInv
  <2>4. \A w : \A j \in Stores(prog, Block, w) : j < i /\ j \in Nat
    BY <1>2, <1>3, StoresFacts
  <2>5. Positions(prog, Block) \ (DOMAIN forward_list \cup delete_list) = Kept(prog, Block)
    <3>1. \A k \in Positions(prog, Block) : k \in Kept(prog, Block)
            <=> k \notin DOMAIN forward_list /\ k \notin delete_list
      <4> SUFFICES ASSUME NEW k \in Positions(prog, Block)
                   PROVE  k \in Kept(prog, Block) <=> k \notin DOMAIN forward_list /\ k \notin delete_list
        OBVIOUS
      <4> DEFINE S == Stores(prog, Block, prog.code[Block][k].var)
      <4>1. (\A j \in S : j <= k) <=> ~ \E j \in S : k < j /\ j < i
        BY <1>2, <2>4
      <4> HIDE DEF Inv
      <4>2. QED
        BY <2>2, <2>3, <4>1 DEF Kept
    <3>2. Kept(prog, Block) \subseteq Positions(prog, Block)
      BY DEF Kept
    <3> HIDE DEF Inv
    <3>3. QED
      BY <3>1, <3>2
  <2>6. QED
    BY <1>1, <1>2, <2>5 DEF TypeInv
<1>9. ASSUME NEW b \in Blocks, NEW k \in Positions(prog, b)
      PROVE  /\ operand'[<<b, k>>] = NULL <=> ~ TakesOperand(prog, b, k)
             /\ operand'[<<b, k>>] \in Ids \cup Phis \cup {NULL}
  <2>1. CASE TakesOperand(prog, b, k) /\ b = Block
    <3>1. PICK m \in 1 .. k - 1 : operand'[<<Block, k>>] = <<Block, m>> /\ Computes(prog, Block, m)
      BY <1>5, <1>9, <2>1
    <3>2. <<Block, m>> \in Ids
      BY <1>2, <1>4, <3>1 DEF Computes
    <3> HIDE DEF Inv
    <3>3. QED
      BY <2>1, <3>1, <3>2, ValueFacts
  <2>2. CASE TakesOperand(prog, b, k) /\ b # Block
    <3>1. operand[<<b, k>>] # NULL /\ operand[<<b, k>>] \in Ids \cup Phis \cup {NULL}
      BY <1>4, <1>9, <2>2 DEF TypeInv
    <3>2. PICK n \in 1 .. Len(BlockList) : BlockList[n] = b
      BY <1>9, BlockListFacts
    <3>3. operand'[<<b, k>>] = operand[<<b, k>>]
      BY <1>2, <1>7, <1>9, <2>2, <3>2
    <3> HIDE DEF Inv
    <3>4. QED
      BY <2>2, <3>1, <3>3
  <2>3. CASE ~ TakesOperand(prog, b, k)
    BY <1>4, <1>9, <2>3 DEF TypeInv
  <2>4. QED
    BY <2>1, <2>2, <2>3
<1>10. operand' \in [Ids -> Ids \cup Phis \cup {NULL}]
  <2>1. ASSUME NEW id \in Ids PROVE operand'[id] \in Ids \cup Phis \cup {NULL}
    BY <1>2, <1>9, <2>1, IdFacts
  <2>2. \E f : operand' = [id \in Ids |-> f[id]]
    BY <1>1
  <2> HIDE DEF Inv
  <2>3. QED
    BY <2>1, <2>2
<1>11. QED
  BY <1>6, <1>7, <1>8, <1>9, <1>10
(* The end of the scan of a block. *)
LEMMA EndForwardBlockKeeps ==
  ASSUME Inv, EndForwardBlock
  PROVE  Inv'
<1> USE DEF irVars, scanVars, phiVars, nameVars
<1>1. /\ pc = "forward" /\ i' = 1 /\ defined_list' = [v \in Locals |-> 0]
      /\ new_value' = [v \in Locals |-> NULL] /\ forward_list' = [k \in {} |-> NULL]
      /\ delete_list' = {}
      /\ at' = IF at < Len(BlockList) THEN at + 1 ELSE 1
      /\ pc' = IF at < Len(BlockList) THEN "forward" ELSE "collect"
      /\ UNCHANGED <<prog, dom_frontier, phis, phi_args, allocas, phiVars, nameVars, fault, run>>
  BY DEF EndForwardBlock
<1>2. /\ UsesInv(prog, phis, operand', Block, 1)
      /\ \A n \in 1 .. Len(BlockList) : n # at =>
           \A j \in Positions(prog, BlockList[n]) :
             TakesOperand(prog, BlockList[n], j)
               => operand'[<<BlockList[n], j>>] = operand[<<BlockList[n], j>>]
      /\ live' = [live EXCEPT ![Block] = Kept(prog, Block)]
      /\ operand' \in [Ids -> Ids \cup Phis \cup {NULL}]
      /\ \A b \in Blocks : \A k \in Positions(prog, b) :
           operand'[<<b, k>>] = NULL <=> ~ TakesOperand(prog, b, k)
  BY ForwardedBlock
<1>3. /\ prog \in Programs /\ Block \in Blocks /\ frames = <<>> /\ visited = {}
      /\ \A b \in Blocks : phis[b] = <<>>
  BY <1>1, ScanFacts
<1>4. /\ at \in 1 .. Len(BlockList) /\ Len(BlockList) \in Nat /\ BlockList[at] = Block
      /\ at' \in 1 .. Len(BlockList)
      /\ \A n \in 1 .. Len(BlockList) : BlockList[n] \in Blocks
      /\ live \in [Blocks -> SUBSET Nat]
  <2>1. at \in 1 .. Len(BlockList) /\ BlockList[at] = Block /\ live \in [Blocks -> SUBSET Nat]
    BY DEF Inv, TypeInv, Block
  <2>2. QED
    BY <1>1, <2>1, BlockListFacts
<1>5. Kept(prog, Block) \in SUBSET Nat
  BY <1>3, StoresFacts DEF Kept
<1>6. \A n \in 1 .. Len(BlockList) : n <= at => UsesInv(prog, phis, operand', BlockList[n], 1)
  <2> SUFFICES ASSUME NEW n \in 1 .. Len(BlockList), n <= at, n # at
               PROVE  UsesInv(prog, phis, operand', BlockList[n], 1)
    BY <1>2, <1>4
  <2>1. UsesInv(prog, phis, operand, BlockList[n], 1) /\ BlockList[n] \in Blocks
    BY <1>1, <1>4 DEF Inv, ForwardInv
  <2> DEFINE op2 == operand'
  <2>2. \A j \in Positions(prog, BlockList[n]) :
          TakesOperand(prog, BlockList[n], j) => op2[<<BlockList[n], j>>] = operand[<<BlockList[n], j>>]
    BY <1>2
  <2> HIDE DEF op2
  <2>3. UsesInv(prog, phis, op2, BlockList[n], 1)
    BY <1>3, <2>1, <2>2, UsesFirst
  <2>4. QED
    BY <2>3 DEF op2
<1>7. \A n \in 1 .. Len(BlockList) : live'[BlockList[n]] =
        IF n <= at THEN Kept(prog, BlockList[n]) ELSE Positions(prog, BlockList[n])
  <2> SUFFICES ASSUME NEW n \in 1 .. Len(BlockList)
               PROVE  live'[BlockList[n]] =
                        IF n <= at THEN Kept(prog, BlockList[n]) ELSE Positions(prog, BlockList[n])
    OBVIOUS
  <2>1. CASE n = at
    BY <1>2, <1>3, <1>4, <2>1
  <2>2. CASE n # at
    <3>1. BlockList[n] # Block /\ BlockList[n] \in Blocks
      BY <1>4, <2>2, BlockListFacts
    <3>2. live'[BlockList[n]] = live[BlockList[n]]
      BY <1>2, <1>4, <3>1
    <3>3. live[BlockList[n]] = IF n < at THEN Kept(prog, BlockList[n]) ELSE Positions(prog, BlockList[n])
      BY <1>1 DEF Inv, LiveInv
    <3>4. n <= at <=> n < at
      BY <1>4, <2>2
    <3>5. QED
      BY <3>2, <3>3, <3>4
  <2>3. QED
    BY <2>1, <2>2
<1>8. TypeInv'
  <2>1. Ids' = Ids /\ Values' = Values
    BY <1>1 DEF Ids, Values, Code
  <2>2. i' \in Nat \ {0} /\ live' \in [Blocks -> SUBSET Nat]
    BY <1>1, <1>2, <1>4, <1>5
  <2>3. defined_list' \in [Locals -> Nat] /\ new_value' \in [Locals -> Values \cup {NULL}]
    BY <1>1
  <2>4. pc' \in {"forward", "collect"}
    BY <1>1
  <2>5. QED
    BY <1>1, <1>2, <1>4, <2>1, <2>2, <2>3, <2>4 DEF TypeInv, Inv
<1>9. PhaseInv'
  <2>1. i' = 1 /\ DOMAIN forward_list' = {} /\ delete_list' = {} /\ pc' \in {"forward", "collect"}
    BY <1>1
  <2>2. QED
    BY <1>1, <2>1 DEF PhaseInv, Inv
<1>10. LiveInv'
  <2>1. CASE at < Len(BlockList)
    <3>1. pc' = "forward" /\ \A n \in 1 .. Len(BlockList) : n < at' <=> n <= at
      BY <1>1, <1>4, <2>1
    <3>2. QED
      BY <1>1, <1>7, <3>1 DEF LiveInv
  <2>2. CASE ~ (at < Len(BlockList))
    <3>1. pc' = "collect" /\ \A n \in 1 .. Len(BlockList) : n <= at
      BY <1>1, <1>4, <2>2
    <3>2. \A b \in Blocks : live'[b] = Kept(prog, b)
      BY <1>7, <3>1, BlockListFacts
    <3>3. visited' = {} /\ prog' = prog
      BY <1>1, <1>3
    <3>4. QED
      BY <3>1, <3>2, <3>3 DEF LiveInv
  <2>3. QED
    BY <2>1, <2>2
<1>11. OperandsInv'
  <2> SUFFICES ASSUME pc' # "forward", NEW b \in Blocks
               PROVE  UsesInv(prog', phis', operand', b, Ip(b)')
    BY DEF OperandsInv
  <2>1. Ip(b)' = 1
    BY <1>1, <1>3 DEF Ip
  <2>2. PICK n \in 1 .. Len(BlockList) : BlockList[n] = b
    BY BlockListFacts
  <2>3. n <= at
    BY <1>1, <1>4
  <2>4. QED
    BY <1>1, <1>6, <2>1, <2>2, <2>3
<1>12. FramesInv' /\ VisitedInv'
  <2>1. frames' = <<>> /\ visited' = {} /\ Len(frames') = 0 /\ pc' # "rename"
    BY <1>1, <1>3, ShortSequences
  <2>2. FramesInv'
    BY <2>1 DEF FramesInv
  <2>3. VisitedInv'
    BY <2>1 DEF VisitedInv, Reached
  <2>4. QED
    BY <2>2, <2>3
<1>13. PhiInv' /\ StackInv' /\ PhiArgsInv' /\ RunInv' /\ ~ fault'
  <2>1. pc' \in {"forward", "collect"}
    BY <1>1
  <2>2. PhiInv' /\ StackInv' /\ PhiArgsInv' /\ RunInv'
    BY <2>1 DEF PhiInv, StackInv, PhiArgsInv, RunInv
  <2>3. QED
    BY <1>1, <2>2 DEF Inv
<1>14. ForwardInv'
  <2> SUFFICES ASSUME pc' = "forward" PROVE ForwardInv'
    BY DEF ForwardInv
  <2>1. at < Len(BlockList) /\ at' = at + 1
    BY <1>1
  <2> DEFINE b == Block'
  <2>2. b \in Blocks /\ b = BlockList[at'] /\ \A n \in 1 .. Len(BlockList) : n < at' <=> n <= at
    BY <1>4, <2>1 DEF Block
  <2>3. i' \in 1 .. End(prog, b)
    BY <1>1, <1>3, <2>2, StoresFacts
  <2>4. \A v \in Locals : defined_list'[v] = 0 /\ new_value'[v] = NULL /\ LastStore(prog, b, v, i') = 0
    BY <1>1, <1>3, <2>2, LastStoreFirst
  <2>5. 1 .. i' - 1 = {} /\ DOMAIN forward_list' = {} /\ delete_list' = {}
    BY <1>1
  <2>6. \A n \in 1 .. Len(BlockList) :
          IF n < at'
            THEN UsesInv(prog, phis, operand', BlockList[n], 1)
            ELSE \A j \in Positions(prog, BlockList[n]) : TakesOperand(prog, BlockList[n], j) =>
                   operand'[<<BlockList[n], j>>] = <<BlockList[n], prog.code[BlockList[n]][j].arg>>
    <3> SUFFICES ASSUME NEW n \in 1 .. Len(BlockList), ~ (n < at'),
                        NEW j \in Positions(prog, BlockList[n]), TakesOperand(prog, BlockList[n], j)
                 PROVE  operand'[<<BlockList[n], j>>] = <<BlockList[n], prog.code[BlockList[n]][j].arg>>
      BY <1>6, <2>2
    <3>1. n # at /\ ~ (n < at)
      BY <1>4, <2>2
    <3>2. operand[<<BlockList[n], j>>] = <<BlockList[n], prog.code[BlockList[n]][j].arg>>
      BY <1>1, <3>1 DEF Inv, ForwardInv
    <3>3. QED
      BY <1>2, <3>1, <3>2
  <2>7. prog' = prog /\ phis' = phis
    BY <1>1
  <2> HIDE DEF b
  <2>8. /\ i' \in 1 .. End(prog, b)
        /\ \A v \in Locals :
             /\ defined_list'[v] = LastStore(prog, b, v, i')
             /\ new_value'[v] = IF defined_list'[v] = 0 THEN NULL
                                ELSE Seen(forward_list', b, operand'[<<b, defined_list'[v]>>])
        /\ DOMAIN forward_list' =
             {k \in 1 .. i' - 1 : /\ IsLocal(prog, b, k, "load")
                                  /\ LastStore(prog, b, prog.code[b][k].var, k) # 0}
        /\ delete_list' =
             {k \in 1 .. i' - 1 : /\ IsLocal(prog, b, k, "store")
                                  /\ \E j \in Stores(prog, b, prog.code[b][k].var) : k < j /\ j < i'}
    BY <2>3, <2>4, <2>5
  <2>9. \A k \in DOMAIN forward_list' : FALSE
    BY <2>5
  <2>10. QED
    BY <2>6, <2>7, <2>8, <2>9 DEF ForwardInv, b
<1>15. QED
  BY <1>8, <1>9, <1>10, <1>11, <1>12, <1>13, <1>14 DEF Inv

-----------------------------------------------------------------------------
(***************************************************************************)
(* genPhi                                                                  *)
(***************************************************************************)
(* After the scan every block is what is kept of it. *)
LEMMA CountFacts ==
  ASSUME Inv, pc \in {"collect", "genphi"}
  PROVE  /\ prog \in Programs /\ frames = <<>> /\ visited = {}
         /\ \A b \in Blocks : live[b] = Kept(prog, b) /\ UsesInv(prog, phis, operand, b, 1)
         /\ \A v \in Locals : DefinedInBlocks(v) = StoreBlocks(prog, v)
         /\ LoadedLocals = Loaded(prog)
<1>1. prog \in Programs /\ frames = <<>> /\ visited = {} /\ pc # "forward"
  BY DEF Inv, TypeInv, PhaseInv
<1>2. \A b \in Blocks : live[b] = Kept(prog, b)
  BY <1>1 DEF Inv, LiveInv
<1>3. \A b \in Blocks : UsesInv(prog, phis, operand, b, 1)
  BY <1>1 DEF Inv, OperandsInv, Ip
<1>4. ASSUME NEW b \in Blocks, NEW k
      PROVE  /\ k \in LocalOps(b, "store") <=> k \in Kept(prog, b) /\ IsLocal(prog, b, k, "store")
             /\ k \in LocalOps(b, "load") <=> k \in Kept(prog, b) /\ IsLocal(prog, b, k, "load")
             /\ Code(b)[k].var = prog.code[b][k].var
  BY <1>2 DEF LocalOps, isLocalVarOp, IsLocal, Code
<1>5. ASSUME NEW v \in Locals, NEW b \in Blocks, NEW k \in Kept(prog, b)
      PROVE  /\ IsLocal(prog, b, k, "store") /\ prog.code[b][k].var = v <=> k \in Stores(prog, b, v)
             /\ IsLocal(prog, b, k, "load") /\ prog.code[b][k].var = v <=> k \in Loads(prog, b, v)
  BY DEF Kept, Positions, Stores, Loads, IsLocal
<1>6. ASSUME NEW v \in Locals PROVE DefinedInBlocks(v) = StoreBlocks(prog, v)
  <2>1. ASSUME NEW b \in Blocks
        PROVE  (\E k \in LocalOps(b, "store") : Code(b)[k].var = v) <=> Stores(prog, b, v) # {}
    BY <1>1, <1>4, <1>5, LastStoreEnd
  <2>2. QED
    BY <2>1 DEF DefinedInBlocks, StoreBlocks
<1>7. LoadedLocals = Loaded(prog)
  <2>1. ASSUME NEW v \in Locals, NEW b \in Blocks
        PROVE  (\E k \in LocalOps(b, "load") : Code(b)[k].var = v)
                 <=> \E k \in Kept(prog, b) : k \in Loads(prog, b, v)
    BY <1>4, <1>5
  <2>2. QED
    BY <2>1 DEF LoadedLocals, Loaded
<1>8. QED
  BY <1>1, <1>2, <1>3, <1>6, <1>7

(* While phis are placed the later parts have nothing to say. *)
LEMMA StillPlacing ==
  ASSUME Inv, pc \in {"collect", "genphi"}, pc' = "genphi",
         UNCHANGED <<prog, dom_frontier, live, operand, phi_args, allocas, scanVars, nameVars, run>>
  PROVE  /\ ForwardInv' /\ LiveInv' /\ FramesInv' /\ VisitedInv' /\ StackInv' /\ PhiArgsInv' /\ RunInv'
<1> USE DEF scanVars, nameVars
<1>1. frames' = <<>> /\ visited' = {} /\ Len(frames') = 0
  BY CountFacts, ShortSequences
<1>2. FramesInv'
  BY <1>1 DEF FramesInv
<1>3. VisitedInv'
  BY <1>1 DEF VisitedInv, Reached
<1>4. LiveInv'
  BY <1>1, CountFacts DEF LiveInv
<1>5. QED
  BY <1>2, <1>3, <1>4 DEF ForwardInv, StackInv, PhiArgsInv, RunInv

(* The loaded locals are collected. *)
LEMMA CollectLoadedKeeps ==
  ASSUME Inv, CollectLoaded
  PROVE  Inv'
<1> USE DEF irVars, scanVars, nameVars
<1>1. /\ pc = "collect" /\ todo' = LoadedLocals /\ pc' = "genphi"
      /\ UNCHANGED <<prog, dom_frontier, irVars, scanVars, var, queue, nameVars, fault, run>>
  BY DEF CollectLoaded
<1>2. /\ todo' = Loaded(prog) /\ frames = <<>> /\ visited = {} /\ Len(frames) = 0
      /\ \A b \in Blocks : UsesInv(prog, phis, operand, b, 1)
  BY <1>1, CountFacts, ShortSequences
<1>3. \A b \in Blocks : phis[b] = <<>> /\ Len(phis[b]) = 0
  BY <1>1, ShortSequences DEF Inv, PhaseInv
<1>4. var = NULL /\ queue = <<>> /\ ToSet(queue) = {} /\ ~ fault
  <2>1. var = NULL /\ queue = <<>> /\ ~ fault
    BY <1>1 DEF Inv, PhaseInv
  <2>2. QED
    BY <2>1, ShortSequences, SequenceFacts1
<1>5. \A v : PhiBlocks(phis, v) = {}
  BY <1>3, ShortSequences, SequenceFacts1 DEF PhiBlocks
<1>6. TypeInv'
  <2>1. Ids' = Ids /\ Values' = Values
    BY <1>1 DEF Ids, Values, Code
  <2>2. todo' \in SUBSET Locals
    BY <1>2 DEF Loaded
  <2>3. QED
    BY <1>1, <2>1, <2>2 DEF TypeInv, Inv
<1>7. PhaseInv'
  BY <1>1 DEF PhaseInv, Inv
<1>8. PhiInv'
  BY <1>1, <1>2, <1>3, <1>4, <1>5 DEF PhiInv
<1>9. OperandsInv'
  BY <1>1, <1>2 DEF OperandsInv, Ip
<1>10. QED
  BY <1>1, <1>4, <1>6, <1>7, <1>8, <1>9, StillPlacing DEF Inv

(* An order of a finite set. *)
LEMMA SetToSeqsFacts ==
  ASSUME NEW S, IsFiniteSet(S), NEW f \in SetToSeqs(S)
  PROVE  /\ f \in Seq(S) /\ Sequence(f) /\ ToSet(f) = S
         /\ \A j, k \in 1 .. Len(f) : f[j] = f[k] => j = k
<1>1. Cardinality(S) \in Nat
  BY FS_CardinalityType
<1>2. f \in [1 .. Cardinality(S) -> S] /\ \A j, k \in 1 .. Cardinality(S) : j # k => f[j] # f[k]
  BY DEF SetToSeqs
<1>3. f \in Seq(S) /\ Len(f) = Cardinality(S) /\ Sequence(f)
  <2>1. f \in Seq(S)
    BY <1>1, <1>2
  <2>2. Len(f) = Cardinality(S)
    BY <1>1, <1>2
  <2>3. QED
    BY <2>1, <2>2, TypedSequence
<1>4. \A j, k \in 1 .. Len(f) : f[j] = f[k] => j = k
  BY <1>2, <1>3
<1>5. ToSet(f) \subseteq S
  BY <1>2, <1>3, SequenceFacts1
<1>6. Cardinality(ToSet(f)) = Cardinality(S)
  BY <1>3, <1>4, DistinctLength
<1>7. ToSet(f) = S
  BY <1>5, <1>6, FS_Subset
<1>8. QED
  BY <1>3, <1>4, <1>7

(* There are finitely many blocks. *)
LEMMA BlocksFinite ==
  ASSUME NEW S \in SUBSET Blocks
  PROVE  IsFiniteSet(S)
<1>1. Sequence(BlockList)
  BY ProgramAssumption, TypedSequence
<1>2. IsFiniteSet(ToSet(BlockList))
  BY <1>1, BlockListFacts, DistinctLength
<1>3. QED
  BY <1>2, ProgramAssumption, FS_Subset

(* The next local is taken up: some block stores it, since it is loaded. *)
LEMMA StartVarKeeps ==
  ASSUME Inv, NEW v \in Locals, StartVar(v)
  PROVE  Inv'
<1> USE DEF irVars, scanVars, nameVars
<1>1. /\ pc = "genphi" /\ var = NULL /\ v \in todo /\ todo' = todo \ {v} /\ var' = v
      /\ fault' = (fault \/ DefinedInBlocks(v) = {})
      /\ queue' \in SetToSeqs(DefinedInBlocks(v))
      /\ UNCHANGED <<prog, dom_frontier, pc, irVars, scanVars, nameVars, run>>
  BY DEF StartVar
<1>2. /\ prog \in Programs /\ DefinedInBlocks(v) = StoreBlocks(prog, v) /\ visited = {} /\ frames = <<>>
      /\ \A b \in Blocks : UsesInv(prog, phis, operand, b, 1)
  BY <1>1, CountFacts
<1>3. /\ todo \subseteq Loaded(prog)
      /\ \A b \in Blocks : \A j, k \in 1 .. Len(phis[b]) : phis[b][j] = phis[b][k] => j = k
      /\ \A w \in Locals :
           /\ w \notin Loaded(prog) \/ w \in todo => PhiBlocks(phis, w) = {}
           /\ \A b \in PhiBlocks(phis, w) :
                \E d \in Defs(prog, phis, w) : b \in T!DominanceFrontier(prog.cfg, d)
           /\ w \in Loaded(prog) \ todo => \A d \in Defs(prog, phis, w) :
                T!DominanceFrontier(prog.cfg, d) \subseteq PhiBlocks(phis, w)
  BY <1>1, ValueFacts DEF Inv, PhiInv
<1>4. v \in Loaded(prog) /\ Loaded(prog) \subseteq Locals
  BY <1>1, <1>3 DEF Loaded
<1>5. queue' \in Seq(Blocks) /\ ToSet(queue') = StoreBlocks(prog, v)
  <2> DEFINE S == StoreBlocks(prog, v)
  <2>1. S \in SUBSET Blocks
    BY DEF StoreBlocks
  <2>2. queue' \in SetToSeqs(S)
    BY <1>1, <1>2
  <2> HIDE DEF S
  <2>3. queue' \in Seq(S) /\ Sequence(queue') /\ ToSet(queue') = S
    BY <2>1, <2>2, BlocksFinite, SetToSeqsFacts
  <2>4. queue' \in Seq(Blocks)
    BY <2>1, <2>3, TypedSequence, SequenceTyped
  <2>5. QED
    BY <2>3, <2>4 DEF S
<1>6. ~ fault'
  BY <1>1, <1>2, <1>4, LoadedStored DEF Inv
<1>7. TypeInv'
  <2>1. Ids' = Ids /\ Values' = Values
    BY <1>1 DEF Ids, Values, Code
  <2>2. todo \in SUBSET Locals
    BY DEF Inv, TypeInv
  <2>3. todo' \in SUBSET Locals /\ var' \in Locals /\ fault' \in BOOLEAN
    BY <1>1, <1>6, <2>2
  <2>4. QED
    BY <1>1, <1>5, <2>1, <2>3 DEF TypeInv, Inv
<1>8. PhaseInv'
  BY <1>1, <1>2, ValueFacts DEF PhaseInv, Inv
<1>9. PhiInv'
  <2>1. PhiBlocks(phis, v) = {} /\ Defs(prog, phis, v) = StoreBlocks(prog, v)
    BY <1>1, <1>3 DEF Defs
  <2>2. ASSUME NEW w \in Locals, w \in Loaded(prog) \ todo', NEW d \in Defs(prog, phis, w)
        PROVE  T!DominanceFrontier(prog.cfg, d) \subseteq PhiBlocks(phis, w) \/ (w = var' /\ d \in ToSet(queue'))
    <3>1. CASE w = v
      BY <1>1, <1>5, <2>1, <2>2, <3>1
    <3>2. CASE w # v
      BY <1>1, <1>3, <2>2, <3>2
    <3>3. QED
      BY <3>1, <3>2
  <2>3. ToSet(queue') \subseteq Defs(prog, phis, v)
    BY <1>5, <2>1
  <2>4. todo' \subseteq Loaded(prog) /\ v \in Loaded(prog) \ todo'
    BY <1>1, <1>3, <1>4
  <2>5. QED
    BY <1>1, <1>3, <2>2, <2>3, <2>4 DEF PhiInv
<1>10. OperandsInv'
  BY <1>1, <1>2 DEF OperandsInv, Ip
<1>11. ForwardInv' /\ LiveInv' /\ FramesInv' /\ VisitedInv' /\ StackInv' /\ PhiArgsInv' /\ RunInv'
  BY <1>1, StillPlacing
<1>12. QED
  BY <1>6, <1>7, <1>8, <1>9, <1>10, <1>11 DEF Inv

(* A block leaves the queue: the frontier blocks without a phi get one, *)
(* and are queued in turn.                                              *)
LEMMA PlacePhisKeeps ==
  ASSUME Inv, PlacePhis
  PROVE  Inv'
<1> USE DEF irVars, scanVars, nameVars
<1> DEFINE h == Head(queue)
           N == {b \in dom_frontier[Head(queue)] : ~ HasPhi(b, var)}
<1>1. /\ pc = "genphi" /\ queue # <<>>
      /\ UNCHANGED <<prog, dom_frontier, pc, live, operand, phi_args, allocas, scanVars, todo, var,
                     nameVars, fault, run>>
  BY DEF PlacePhis
<1>2. PICK new \in SetToSeqs(N) :
        /\ queue' = Tail(queue) \o new
        /\ phis' = [b \in Blocks |-> IF b \in ToSet(new) THEN <<var>> \o phis[b] ELSE phis[b]]
  BY DEF PlacePhis
<1>3. /\ prog \in Programs /\ visited = {} /\ frames = <<>>
      /\ \A b \in Blocks : UsesInv(prog, phis, operand, b, 1)
  BY <1>1, CountFacts
<1>4. /\ queue \in Seq(Blocks) /\ phis \in [Blocks -> Seq(Locals)] /\ ~ fault
      /\ var # NULL /\ var \in Locals
      /\ dom_frontier = [b \in Blocks |-> Dom!DominanceFrontier(prog.cfg, b)]
  BY <1>1 DEF Inv, TypeInv, PhaseInv
<1>5. /\ var \in Loaded(prog) \ todo /\ ToSet(queue) \subseteq Defs(prog, phis, var)
      /\ todo \subseteq Loaded(prog)
      /\ \A b \in Blocks : \A j, k \in 1 .. Len(phis[b]) : phis[b][j] = phis[b][k] => j = k
      /\ \A w \in Locals :
           /\ w \notin Loaded(prog) \/ w \in todo => PhiBlocks(phis, w) = {}
           /\ \A b \in PhiBlocks(phis, w) :
                \E d \in Defs(prog, phis, w) : b \in T!DominanceFrontier(prog.cfg, d)
           /\ w \in Loaded(prog) \ todo => \A d \in Defs(prog, phis, w) :
                \/ T!DominanceFrontier(prog.cfg, d) \subseteq PhiBlocks(phis, w)
                \/ w = var /\ d \in ToSet(queue)
  BY <1>1, <1>4 DEF Inv, PhiInv
<1>6. /\ h \in Blocks /\ Tail(queue) \in Seq(Blocks)
      /\ \A d : d \in ToSet(queue) <=> d = h \/ d \in ToSet(Tail(queue))
  <2>1. Sequence(queue) /\ Len(queue) \in Nat /\ Len(queue) # 0
    BY <1>1, <1>4, TypedSequence, SequenceFacts1
  <2>2. /\ Tail(queue) \in Seq(Blocks) /\ Len(Tail(queue)) = Len(queue) - 1
        /\ \A k \in 1 .. Len(Tail(queue)) : Tail(queue)[k] = queue[k + 1]
        /\ h = queue[1]
    BY <1>1, <1>4, HeadTailProperties
  <2>3. Sequence(Tail(queue))
    BY <2>2, TypedSequence
  <2>4. h \in Blocks /\ h \in ToSet(queue)
    BY <1>4, <2>1, <2>2, TypedSequence, SequenceFacts1
  <2>5. ASSUME NEW d \in ToSet(queue), d # h PROVE d \in ToSet(Tail(queue))
    <3>1. PICK k \in 1 .. Len(queue) : queue[k] = d
      BY <2>1, <2>5, SequenceFacts1
    <3>2. k # 1
      BY <2>2, <2>5, <3>1
    <3>3. k - 1 \in 1 .. Len(Tail(queue)) /\ Tail(queue)[k - 1] = queue[k - 1 + 1] /\ k - 1 + 1 = k
      BY <2>1, <2>2, <3>1, <3>2
    <3>4. QED
      BY <2>3, <3>1, <3>3, SequenceFacts1
  <2>6. ASSUME NEW d \in ToSet(Tail(queue)) PROVE d \in ToSet(queue)
    <3>1. PICK k \in 1 .. Len(Tail(queue)) : Tail(queue)[k] = d
      BY <2>3, <2>6, SequenceFacts1
    <3>2. k + 1 \in 1 .. Len(queue) /\ queue[k + 1] = d
      BY <2>1, <2>2, <3>1
    <3>3. QED
      BY <2>1, <3>2, SequenceFacts1
  <2>7. QED
    BY <2>2, <2>4, <2>5, <2>6
<1>7. /\ \A b : b \in N <=> b \in T!DominanceFrontier(prog.cfg, h) /\ b \notin PhiBlocks(phis, var)
      /\ N \in SUBSET Blocks
  <2>1. dom_frontier[h] = T!DominanceFrontier(prog.cfg, h)
    BY <1>4, <1>6, FrontierWords
  <2>2. T!DominanceFrontier(prog.cfg, h) \subseteq Blocks
    BY DEF T!DominanceFrontier
  <2>3. QED
    BY <2>1, <2>2 DEF HasPhi, PhiBlocks
<1> HIDE DEF N, h
<1>8. new \in Seq(Blocks) /\ ToSet(new) = N /\ Sequence(new)
  <2>1. new \in Seq(N) /\ Sequence(new) /\ ToSet(new) = N
    BY <1>2, <1>7, BlocksFinite, SetToSeqsFacts
  <2>2. new \in Seq(Blocks)
    BY <1>7, <2>1, TypedSequence, SequenceTyped
  <2>3. QED
    BY <2>1, <2>2
<1>9. queue' \in Seq(Blocks) /\ \A d : d \in ToSet(queue') <=> d \in ToSet(Tail(queue)) \/ d \in N
  <2> DEFINE t == Tail(queue)
  <2>1. Sequence(t) /\ t \in Seq(Blocks) /\ Len(t) \in Nat /\ Len(new) \in Nat
    BY <1>6, <1>8, TypedSequence, SequenceFacts1
  <2> HIDE DEF t
  <2>2. /\ Sequence(t \o new) /\ Len(t \o new) = Len(t) + Len(new)
        /\ \A k \in 1 .. Len(t) : (t \o new)[k] = t[k]
        /\ \A k \in 1 .. Len(new) : (t \o new)[Len(t) + k] = new[k]
    BY <1>8, <2>1, ConcatSequence
  <2>3. t \o new \in Seq(Blocks)
    BY <1>8, <2>1
  <2>4. ASSUME NEW d, d \in ToSet(t) \/ d \in ToSet(new) PROVE d \in ToSet(t \o new)
    <3>1. CASE d \in ToSet(t)
      <4>1. PICK k \in 1 .. Len(t) : t[k] = d
        BY <2>1, <3>1, SequenceFacts1
      <4>2. k \in 1 .. Len(t \o new) /\ (t \o new)[k] = d
        BY <2>1, <2>2, <4>1
      <4>3. QED
        BY <2>2, <4>2, SequenceFacts1
    <3>2. CASE d \in ToSet(new)
      <4>1. PICK k \in 1 .. Len(new) : new[k] = d
        BY <1>8, <3>2, SequenceFacts1
      <4>2. Len(t) + k \in 1 .. Len(t \o new) /\ (t \o new)[Len(t) + k] = d
        BY <2>1, <2>2, <4>1
      <4>3. QED
        BY <2>2, <4>2, SequenceFacts1
    <3>3. QED
      BY <2>4, <3>1, <3>2
  <2>5. ASSUME NEW d \in ToSet(t \o new) PROVE d \in ToSet(t) \/ d \in ToSet(new)
    <3> DEFINE r == t \o new
    <3>0. Sequence(r) /\ d \in ToSet(r)
      BY <2>2, <2>5
    <3> HIDE DEF r
    <3>5. \E k \in 1 .. Len(r) : r[k] = d
      BY <3>0, SequenceFacts1
    <3>1. PICK k \in 1 .. Len(t \o new) : (t \o new)[k] = d
      BY <3>5 DEF r
    <3>2. CASE k <= Len(t)
      BY <2>1, <2>2, <3>1, <3>2, SequenceFacts1
    <3>3. CASE ~ (k <= Len(t))
      <4>1. k - Len(t) \in 1 .. Len(new) /\ Len(t) + (k - Len(t)) = k
        BY <2>1, <2>2, <3>1, <3>3
      <4>2. new[k - Len(t)] = d
        BY <2>2, <3>1, <4>1
      <4>3. QED
        BY <1>8, <4>1, <4>2, SequenceFacts1
    <3>4. QED
      BY <3>2, <3>3
  <2>6. QED
    BY <1>2, <1>8, <2>3, <2>4, <2>5 DEF t
<1>10. ASSUME NEW b \in Blocks
       PROVE  /\ phis'[b] \in Seq(Locals)
              /\ \A v : v \in ToSet(phis'[b]) <=> v \in ToSet(phis[b]) \/ (v = var /\ b \in N)
              /\ \A j, k \in 1 .. Len(phis'[b]) : phis'[b][j] = phis'[b][k] => j = k
  <2> DEFINE s == phis[b]
  <2>1. s \in Seq(Locals) /\ \A j, k \in 1 .. Len(s) : s[j] = s[k] => j = k
    BY <1>4, <1>5
  <2>2. Sequence(s) /\ Len(s) \in Nat
    BY <2>1, TypedSequence, SequenceFacts1
  <2>3. CASE b \notin N
    <3>1. phis'[b] = s
      BY <1>2, <1>8, <2>3
    <3>2. QED
      BY <2>1, <2>3, <3>1
  <2>4. CASE b \in N
    <3> DEFINE r == <<var>> \o s
    <3>1. phis'[b] = r /\ var \notin ToSet(s)
      BY <1>2, <1>7, <1>8, <2>4 DEF PhiBlocks
    <3> HIDE DEF s
    <3>2. /\ Sequence(r) /\ Len(r) = 1 + Len(s) /\ r[1] = var
          /\ \A k \in 1 .. Len(s) : r[1 + k] = s[k]
      <4>1. /\ Sequence(<<var>> \o s) /\ Len(<<var>> \o s) = Len(<<var>>) + Len(s)
            /\ \A k \in 1 .. Len(<<var>>) : (<<var>> \o s)[k] = <<var>>[k]
            /\ \A k \in 1 .. Len(s) : (<<var>> \o s)[Len(<<var>>) + k] = s[k]
        BY <2>2, ShortSequences, ConcatSequence
      <4>2. Len(<<var>>) = 1 /\ <<var>>[1] = var
        OBVIOUS
      <4>3. QED
        BY <4>1, <4>2
    <3> HIDE DEF r
    <3>3. \A k \in 2 .. Len(r) : k - 1 \in 1 .. Len(s) /\ r[k] = s[k - 1]
      <4> SUFFICES ASSUME NEW k \in 2 .. Len(r) PROVE k - 1 \in 1 .. Len(s) /\ r[k] = s[k - 1]
        OBVIOUS
      <4>1. k - 1 \in 1 .. Len(s) /\ 1 + (k - 1) = k
        BY <2>2, <3>2
      <4>2. QED
        BY <3>2, <4>1
    <3>4. r \in Seq(Locals)
      <4>1. \A k \in 1 .. Len(r) : r[k] \in Locals
        <5> SUFFICES ASSUME NEW k \in 1 .. Len(r) PROVE r[k] \in Locals
          OBVIOUS
        <5>1. k = 1 \/ k \in 2 .. Len(r)
          BY <2>2, <3>2
        <5>2. \A m \in 1 .. Len(s) : s[m] \in Locals
          BY <2>1, TypedSequence
        <5>3. QED
          BY <1>4, <3>2, <3>3, <5>1, <5>2
      <4>2. QED
        BY <3>2, <4>1, SequenceTyped
    <3>5. \A v : v \in ToSet(r) <=> v \in ToSet(s) \/ v = var
      <4>1. \A v : v \in ToSet(r) <=> \E k \in 1 .. Len(r) : r[k] = v
        BY <3>2, SequenceFacts1
      <4>2. \A v : v \in ToSet(s) <=> \E k \in 1 .. Len(s) : s[k] = v
        BY <2>2, SequenceFacts1
      <4>3. 1 \in 1 .. Len(r) /\ \A k \in 1 .. Len(s) : 1 + k \in 1 .. Len(r)
        BY <2>2, <3>2
      <4>4. \A k \in 1 .. Len(r) : k = 1 \/ k \in 2 .. Len(r)
        BY <2>2, <3>2
      <4>5. QED
        BY <3>2, <3>3, <4>1, <4>2, <4>3, <4>4
    <3>6. ASSUME NEW j \in 1 .. Len(r), NEW k \in 1 .. Len(r), r[j] = r[k] PROVE j = k
      <4>1. \A m \in 2 .. Len(r) : r[m] # var
        <5>1. \A m \in 1 .. Len(s) : s[m] # var
          BY <2>2, <3>1, SequenceFacts1
        <5>2. QED
          BY <3>3, <5>1
      <4>2. CASE j = 1 \/ k = 1
        BY <2>2, <3>2, <3>6, <4>1, <4>2
      <4>3. CASE j # 1 /\ k # 1
        <5>1. j \in 2 .. Len(r) /\ k \in 2 .. Len(r)
          BY <2>2, <3>2, <4>3
        <5>2. j - 1 = k - 1
          BY <2>1, <3>3, <3>6, <5>1
        <5>3. QED
          BY <5>1, <5>2
      <4>4. QED
        BY <4>2, <4>3
    <3>7. QED
      BY <2>4, <3>1, <3>4, <3>5, <3>6 DEF s
  <2>5. QED
    BY <2>3, <2>4
<1>11. /\ PhiBlocks(phis', var) = PhiBlocks(phis, var) \cup N
       /\ \A v : v # var => PhiBlocks(phis', v) = PhiBlocks(phis, v)
       /\ Defs(prog, phis', var) = Defs(prog, phis, var) \cup N
       /\ \A v : v # var => Defs(prog, phis', v) = Defs(prog, phis, v)
  <2> DEFINE ph2 == phis'
  <2>1. \A b \in Blocks : \A v : v \in ToSet(ph2[b]) <=> v \in ToSet(phis[b]) \/ (v = var /\ b \in N)
    BY <1>10
  <2> HIDE DEF ph2
  <2>2. PhiBlocks(ph2, var) = PhiBlocks(phis, var) \cup N
    BY <1>7, <2>1 DEF PhiBlocks
  <2>3. \A v : v # var => PhiBlocks(ph2, v) = PhiBlocks(phis, v)
    BY <2>1 DEF PhiBlocks
  <2>4. QED
    BY <2>2, <2>3 DEF Defs, ph2
<1>12. TypeInv'
  <2>1. Ids' = Ids /\ Values' = Values
    BY <1>1 DEF Ids, Values, Code
  <2>2. phis' \in [Blocks -> Seq(Locals)]
    BY <1>2, <1>10
  <2>3. QED
    BY <1>1, <1>9, <2>1, <2>2 DEF TypeInv, Inv
<1>13. PhaseInv'
  BY <1>1, <1>3, <1>4 DEF PhaseInv, Inv
<1>14. PhiInv'
  <2> DEFINE ph2 == phis'  q2 == queue'
  <2>1. ASSUME NEW w \in Locals
        PROVE  /\ w \notin Loaded(prog) \/ w \in todo => PhiBlocks(ph2, w) = {}
               /\ \A b \in PhiBlocks(ph2, w) :
                    \E d \in Defs(prog, ph2, w) : b \in T!DominanceFrontier(prog.cfg, d)
               /\ w \in Loaded(prog) \ todo => \A d \in Defs(prog, ph2, w) :
                    \/ T!DominanceFrontier(prog.cfg, d) \subseteq PhiBlocks(ph2, w)
                    \/ w = var /\ d \in ToSet(q2)
    <3>1. CASE w # var
      <4>1. PhiBlocks(ph2, w) = PhiBlocks(phis, w) /\ Defs(prog, ph2, w) = Defs(prog, phis, w)
        BY <1>11, <3>1
      <4>2. QED
        BY <1>5, <3>1, <4>1
    <3>2. CASE w = var
      <4> DEFINE P == PhiBlocks(phis, var)  D == Defs(prog, phis, var)
      <4>1. PhiBlocks(ph2, w) = P \cup N /\ Defs(prog, ph2, w) = D \cup N
        BY <1>11, <3>2
      <4>2. h \in D
        BY <1>5, <1>6
      <4>3. \A b \in P : \E d \in D : b \in T!DominanceFrontier(prog.cfg, d)
        BY <1>4, <1>5
      <4>4. \A d \in D : T!DominanceFrontier(prog.cfg, d) \subseteq P \/ d \in ToSet(queue)
        BY <1>4, <1>5
      <4>5. T!DominanceFrontier(prog.cfg, h) \subseteq P \cup N
        BY <1>7
      <4>6. \A d : d \in ToSet(queue) => d = h \/ d \in ToSet(q2)
        BY <1>6, <1>9
      <4>7. \A d \in N : d \in ToSet(q2)
        BY <1>9
      <4> HIDE DEF P, D, q2, ph2
      <4>8. \A b \in P \cup N : \E d \in D \cup N : b \in T!DominanceFrontier(prog.cfg, d)
        BY <1>7, <4>2, <4>3
      <4>9. \A d \in D \cup N : T!DominanceFrontier(prog.cfg, d) \subseteq P \cup N \/ d \in ToSet(q2)
        BY <4>4, <4>5, <4>6, <4>7
      <4>10. w \in Loaded(prog) /\ w \notin todo
        BY <1>5, <3>2
      <4>11. QED
        BY <3>2, <4>1, <4>8, <4>9, <4>10
    <3>3. QED
      BY <3>1, <3>2
  <2>2. ToSet(queue') \subseteq Defs(prog, phis', var)
    BY <1>5, <1>6, <1>9, <1>11
  <2>3. QED
    BY <1>1, <1>5, <1>10, <2>1, <2>2 DEF PhiInv
<1>15. OperandsInv'
  <2> SUFFICES ASSUME NEW b \in Blocks PROVE UsesInv(prog, phis', operand, b, 1)
    BY <1>1, <1>3 DEF OperandsInv, Ip
  <2> DEFINE ph2 == phis'
  <2>1. ASSUME NEW x, InPlace(prog, phis, x) PROVE InPlace(prog, ph2, x)
    <3>1. \A a \in Blocks : \A v : v \in ToSet(phis[a]) => v \in ToSet(ph2[a])
      BY <1>10
    <3>2. x \in Phis => x[1] \in Blocks
      BY DEF Phis
    <3> HIDE DEF ph2
    <3>3. QED
      BY <2>1, <3>1, <3>2 DEF InPlace
  <2> HIDE DEF ph2
  <2>2. UsesInv(prog, ph2, operand, b, 1)
    BY <1>3, <2>1, UsesFirst
  <2>3. QED
    BY <2>2 DEF ph2
<1>16. ForwardInv' /\ LiveInv' /\ FramesInv' /\ VisitedInv' /\ StackInv' /\ PhiArgsInv' /\ RunInv'
  BY <1>1, StillPlacing
<1>17. ~ fault'
  BY <1>1, <1>4
<1>18. QED
  BY <1>12, <1>13, <1>14, <1>15, <1>16, <1>17 DEF Inv

(* The queue is empty: every definition of the local has its frontier. *)
LEMMA EndVarKeeps ==
  ASSUME Inv, EndVar
  PROVE  Inv'
<1> USE DEF irVars, scanVars, nameVars
<1>1. /\ pc = "genphi" /\ var # NULL /\ queue = <<>> /\ var' = NULL
      /\ UNCHANGED <<prog, dom_frontier, pc, irVars, scanVars, todo, queue, nameVars, fault, run>>
  BY DEF EndVar
<1>2. prog \in Programs /\ \A b \in Blocks : UsesInv(prog, phis, operand, b, 1) /\ visited = {}
  BY <1>1, CountFacts
<1>3. ToSet(queue) = {}
  BY <1>1, ShortSequences, SequenceFacts1
<1>4. TypeInv'
  <2>1. Ids' = Ids /\ Values' = Values
    BY <1>1 DEF Ids, Values, Code
  <2>2. QED
    BY <1>1, <2>1 DEF TypeInv, Inv
<1>5. PhaseInv'
  BY <1>1, <1>2 DEF PhaseInv, Inv
<1>6. PhiInv'
  BY <1>1, <1>3 DEF PhiInv, Inv
<1>7. OperandsInv'
  BY <1>1, <1>2 DEF OperandsInv, Ip
<1>8. ForwardInv' /\ LiveInv' /\ FramesInv' /\ VisitedInv' /\ StackInv' /\ PhiArgsInv' /\ RunInv'
  BY <1>1, StillPlacing
<1>9. ~ fault'
  BY <1>1 DEF Inv
<1>10. QED
  BY <1>4, <1>5, <1>6, <1>7, <1>8, <1>9 DEF Inv

(* The positions of a block, and those that are kept. *)
LEMMA PositionsFacts ==
  ASSUME NEW p \in Programs, NEW b \in Blocks
  PROVE  /\ Positions(p, b) \subseteq Nat \ {0} /\ End(p, b) \in Nat \ {0}
         /\ \A k : k \in Positions(p, b) <=> k \in Nat /\ 0 < k /\ k < End(p, b)
         /\ Kept(p, b) \subseteq Positions(p, b)
         /\ \A k \in Kept(p, b) : k \in Nat /\ 0 < k /\ k < End(p, b)
<1>1. Len(p.code[b]) \in Nat
  BY ProgramFacts
<1>2. Kept(p, b) \subseteq Positions(p, b)
  BY DEF Kept
<1>3. /\ Positions(p, b) \subseteq Nat \ {0} /\ End(p, b) \in Nat \ {0}
      /\ \A k : k \in Positions(p, b) <=> k \in Nat /\ 0 < k /\ k < End(p, b)
  BY <1>1 DEF Positions, End
<1>4. QED
  BY <1>2, <1>3

(* What is counted for a block and a local is what the walk will push. *)
LEMMA PushedCounts ==
  ASSUME Inv, pc = "genphi", NEW b \in Blocks, NEW v \in Locals
  PROVE  Pushed(b, v) = Pushes(prog, phis, v, b)
<1> DEFINE A == {k \in DOMAIN phis[b] : phis[b][k] = v}
           S == {k \in LocalOps(b, "store") : Code(b)[k].var = v}
<1>1. /\ prog \in Programs /\ live[b] = Kept(prog, b) /\ Sequence(phis[b])
      /\ \A j, k \in 1 .. Len(phis[b]) : phis[b][j] = phis[b][k] => j = k
  <2>1. phis[b] \in Seq(Locals) /\ \A j, k \in 1 .. Len(phis[b]) : phis[b][j] = phis[b][k] => j = k
    BY DEF Inv, TypeInv, PhiInv
  <2>2. QED
    BY <2>1, CountFacts, TypedSequence
<1>2. Cardinality(A) = IF b \in PhiBlocks(phis, v) THEN 1 ELSE 0
  <2>1. DOMAIN phis[b] = 1 .. Len(phis[b]) /\ (v \in ToSet(phis[b]) <=> \E k \in 1 .. Len(phis[b]) : phis[b][k] = v)
    BY <1>1, SequenceFacts1
  <2>2. CASE b \in PhiBlocks(phis, v)
    <3>1. PICK k \in 1 .. Len(phis[b]) : phis[b][k] = v
      BY <2>1, <2>2 DEF PhiBlocks
    <3>2. A = {k}
      BY <1>1, <2>1, <3>1
    <3>3. QED
      BY <2>2, <3>2, FS_Singleton
  <2>3. CASE b \notin PhiBlocks(phis, v)
    <3>1. A = {}
      BY <2>1, <2>3 DEF PhiBlocks
    <3>2. QED
      BY <2>3, <3>1, FS_EmptySet
  <2>4. QED
    BY <2>2, <2>3
<1>3. Cardinality(S) = IF Stores(prog, b, v) # {} THEN 1 ELSE 0
  <2>1. \A k : k \in S <=> k \in Kept(prog, b) /\ k \in Stores(prog, b, v)
    <3>1. \A k : k \in LocalOps(b, "store") <=> k \in Kept(prog, b) /\ IsLocal(prog, b, k, "store")
      BY <1>1 DEF LocalOps, isLocalVarOp, IsLocal, Code
    <3>2. \A k \in Kept(prog, b) :
            IsLocal(prog, b, k, "store") /\ prog.code[b][k].var = v <=> k \in Stores(prog, b, v)
      BY DEF Kept, Positions, Stores, IsLocal
    <3>3. QED
      BY <3>1, <3>2 DEF Code
  <2> DEFINE j == LastStore(prog, b, v, End(prog, b))
  <2>2. /\ j # 0 <=> Stores(prog, b, v) # {}
        /\ \A k : k \in S <=> k # 0 /\ k = j
    BY <1>1, <2>1, LastStoreEnd
  <2> HIDE DEF j, S
  <2>3. CASE j # 0
    <3>1. S = {j}
      BY <2>2, <2>3
    <3>2. QED
      BY <2>2, <2>3, <3>1, FS_Singleton
  <2>4. CASE j = 0
    <3>1. S = {}
      BY <2>2, <2>4
    <3>2. QED
      BY <2>2, <2>4, <3>1, FS_EmptySet
  <2>5. QED
    BY <2>3, <2>4
<1>4. Pushed(b, v) = Cardinality(A) + Cardinality(S)
  BY DEF Pushed
<1> HIDE DEF A, S
<1>5. QED
  BY <1>2, <1>3, <1>4 DEF Pushes

(* The values are counted, and the walk starts. *)
LEMMA ValueDefineCountingKeeps ==
  ASSUME Inv, ValueDefineCounting
  PROVE  Inv'
<1> USE DEF irVars, scanVars, phiVars
<1>1. /\ pc = "genphi" /\ var = NULL /\ todo = {}
      /\ define_var' = [b \in Blocks |-> [v \in Locals |-> Pushed(b, v)]]
      /\ frames' = <<Call(Entry)>> /\ pc' = "rename"
      /\ UNCHANGED <<prog, dom_frontier, irVars, scanVars, phiVars, value_status, visited, fault, run>>
  BY DEF ValueDefineCounting
<1>2. /\ prog \in Programs /\ visited = {} /\ frames = <<>>
      /\ \A b \in Blocks : live[b] = Kept(prog, b) /\ UsesInv(prog, phis, operand, b, 1)
  BY <1>1, CountFacts
<1>3. /\ Len(frames') = 1 /\ frames'[1] = Call(Entry) /\ frames' # <<>> /\ Frame' = Call(Entry)
      /\ Call(Entry) \in FrameT
      /\ Call(Entry).bb = Entry /\ Call(Entry).stage = "phis" /\ Call(Entry).ip = 1
      /\ Call(Entry).succs = prog.cfg[Entry] /\ Call(Entry).deletes = {}
  <2>1. Entry \in Blocks /\ prog.cfg[Entry] \in SUBSET Blocks
    BY <1>2, ProgramFacts
  <2>2. QED
    BY <1>1, <2>1 DEF Frame, Call, FrameT
<1>4. /\ \A b \in Blocks : \A v \in Locals : define_var'[b][v] = Pushes(prog, phis, v, b)
      /\ define_var' \in [Blocks -> [Locals -> Nat]]
  <2>1. \A b \in Blocks : \A v \in Locals : Pushed(b, v) = Pushes(prog, phis, v, b)
    BY <1>1, PushedCounts
  <2>2. \A b \in Blocks : \A v \in Locals : Pushes(prog, phis, v, b) \in Nat
    BY DEF Pushes
  <2>3. QED
    BY <1>1, <2>1, <2>2
<1>5. TypeInv'
  <2>1. Ids' = Ids /\ Values' = Values
    BY <1>1 DEF Ids, Values, Code
  <2>2. frames' \in Seq(FrameT)
    BY <1>1, <1>3
  <2>3. QED
    BY <1>1, <1>4, <2>1, <2>2 DEF TypeInv, Inv
<1>6. PhaseInv'
  BY <1>1, <1>3 DEF PhaseInv, Inv
<1>7. LiveInv' /\ ForwardInv' /\ RunInv' /\ ~ fault'
  BY <1>1, <1>2 DEF LiveInv, ForwardInv, RunInv, Inv
<1>8. PhiInv'
  BY <1>1 DEF PhiInv, Inv
<1>9. OperandsInv'
  BY <1>1, <1>2 DEF OperandsInv, Ip
<1>10. FramesInv'
  <2>1. Call(Entry).ip \in 1 .. End(prog, Entry) /\ 1 \in Nat
    BY <1>2, <1>3, PositionsFacts, ProgramFacts
  <2>2. {k \in Kept(prog, Entry) : IsLocalOp(prog, Entry, k) /\ k < 1} = {}
    BY <1>2, PositionsFacts, ProgramFacts
  <2>3. \A n \in 1 .. Len(frames') : n = 1
    BY <1>3
  <2>4. Entry \notin visited'
    BY <1>1, <1>2
  <2>5. QED
    BY <1>1, <1>3, <2>1, <2>2, <2>3, <2>4 DEF FramesInv, FrameOk
<1>11. VisitedInv'
  <2>1. \A b : Reached(b)' <=> b = Entry
    BY <1>1, <1>2, <1>3 DEF Reached
  <2>2. \A d \in Blocks : ~ T!StrictlyDominates(prog.cfg, d, Entry)
    BY <1>2, ProgramFacts, T!RootDominated DEF T!StrictlyDominates
  <2>3. visited' = {} /\ prog' = prog
    BY <1>1, <1>2
  <2>4. QED
    BY <2>1, <2>2, <2>3 DEF VisitedInv
<1>12. StackInv'
  <2>1. ASSUME NEW v \in Locals
        PROVE  \E h \in [1 .. Len(frames') -> Nat] : Stacked(v, h)'
    <3> DEFINE h == [n \in 1 .. 1 |-> 0]
    <3>1. h \in [1 .. Len(frames') -> Nat] /\ h[1] = 0
      BY <1>3
    <3>2. value_status'[v] = <<>> /\ Len(value_status'[v]) = 0
      BY <1>1 DEF Inv, PhaseInv
    <3>3. (\A n \in 1 .. Len(frames') : n = 1) /\ 1 .. Len(frames') - 1 = {}
      BY <1>3
    <3> HIDE DEF h
    <3>4. Stacked(v, h)'
      BY <1>3, <3>1, <3>2, <3>3 DEF Stacked
    <3>5. QED
      BY <3>1, <3>4
  <2>2. Loaded(prog') \subseteq Locals
    BY DEF Loaded
  <2>3. QED
    BY <1>1, <1>4, <2>1, <2>2 DEF StackInv
<1>13. PhiArgsInv'
  <2>1. \A x \in Phis : phi_args[x] = <<>> /\ Len(phi_args[x]) = 0
    BY <1>1, ShortSequences DEF Inv, PhaseInv
  <2>2. \A b : ~ Passed(b)'
    BY <1>1, <1>2 DEF Passed
  <2>3. \A s \in Blocks : \A v \in Locals : phi_args'[<<s, v>>] = <<>> /\ 1 .. Len(phi_args'[<<s, v>>]) = {}
    BY <1>1, <2>1 DEF Phis
  <2>4. ASSUME NEW s \in Blocks, NEW v \in Locals PROVE PhiArgsOf(s, v)'
    BY <2>2, <2>3 DEF PhiArgsOf
  <2>5. QED
    BY <2>4 DEF PhiArgsInv
<1>14. QED
  BY <1>5, <1>6, <1>7, <1>8, <1>9, <1>10, <1>11, <1>12, <1>13 DEF Inv

-----------------------------------------------------------------------------
(***************************************************************************)
(* valueForwarding                                                         *)
(***************************************************************************)
(* Once the phis are placed, they are where the definitions meet. *)
LEMMA PlacedFacts ==
  ASSUME Inv, pc \in {"rename", "remove", "run"}
  PROVE  /\ prog \in Programs
         /\ \A v \in Loaded(prog) : v \in Locals /\ Complete(prog, phis, v)
         /\ \A v \in Locals : Entry \notin PhiBlocks(phis, v)
         /\ \A v \in Locals : \A b \in PhiBlocks(phis, v) :
              /\ v \in Loaded(prog) /\ b \in Blocks
              /\ \E d \in Defs(prog, phis, v) : b \in T!DominanceFrontier(prog.cfg, d)
         /\ \A b \in Blocks : \A v \in Locals : \A j \in Stores(prog, b, v) :
              /\ TakesOperand(prog, b, j) /\ <<b, j>> \in Ids
              /\ operand[<<b, j>>] \in Values /\ operand[<<b, j>>] # NULL
<1>1. prog \in Programs /\ todo = {} /\ var = NULL
  BY DEF Inv, TypeInv, PhaseInv
<1>2. \A v \in Locals :
        /\ v \notin Loaded(prog) => PhiBlocks(phis, v) = {}
        /\ \A b \in PhiBlocks(phis, v) :
             \E d \in Defs(prog, phis, v) : b \in T!DominanceFrontier(prog.cfg, d)
        /\ v \in Loaded(prog) => \A d \in Defs(prog, phis, v) :
             T!DominanceFrontier(prog.cfg, d) \subseteq PhiBlocks(phis, v)
  BY <1>1, ValueFacts DEF Inv, PhiInv
<1>3. \A v \in Loaded(prog) : v \in Locals /\ Complete(prog, phis, v)
  <2> SUFFICES ASSUME NEW v \in Loaded(prog) PROVE v \in Locals /\ Complete(prog, phis, v)
    OBVIOUS
  <2>1. v \in Locals
    BY DEF Loaded
  <2>2. PhiBlocks(phis, v) \subseteq Defs(prog, phis, v) /\ Defs(prog, phis, v) \in SUBSET Blocks
    BY DEF Defs, StoreBlocks, PhiBlocks
  <2>3. QED
    BY <1>1, <1>2, <2>1, <2>2, ProgramFacts DEF Complete, T!Joined
<1>4. \A v \in Locals : Entry \notin PhiBlocks(phis, v)
  <2> SUFFICES ASSUME NEW v \in Locals, Entry \in PhiBlocks(phis, v) PROVE FALSE
    OBVIOUS
  <2>1. PICK d \in Defs(prog, phis, v) : Entry \in T!DominanceFrontier(prog.cfg, d)
    BY <1>2
  <2>2. QED
    BY <1>1, <2>1, ProgramFacts DEF T!DominanceFrontier, T!Preds
<1>5. \A v \in Locals : \A b \in PhiBlocks(phis, v) : v \in Loaded(prog) /\ b \in Blocks
  BY <1>2 DEF PhiBlocks
<1>6. ASSUME NEW b \in Blocks, NEW v \in Locals, NEW j \in Stores(prog, b, v)
      PROVE  /\ TakesOperand(prog, b, j) /\ <<b, j>> \in Ids
             /\ operand[<<b, j>>] \in Values /\ operand[<<b, j>>] # NULL
  <2>1. TakesOperand(prog, b, j) /\ j \in Positions(prog, b)
    BY DEF Stores, TakesOperand, Positions
  <2>2. <<b, j>> \in Ids
    BY <1>1, <2>1, IdFacts
  <2>3. operand[<<b, j>>] # NULL /\ operand[<<b, j>>] \in Values \cup {NULL}
    BY <2>1, <2>2 DEF Inv, TypeInv, Values
  <2>4. QED
    BY <2>1, <2>2, <2>3
<1>7. QED
  BY <1>1, <1>2, <1>3, <1>4, <1>5, <1>6

(* A block that the walk is through with, or has come to the successors of, *)
(* stores what is available.                                                *)
LEMMA PassedAvailable ==
  ASSUME Inv, pc \in {"rename", "remove", "run"}, NEW b \in Blocks, Passed(b), NEW v \in Locals
  PROVE  StoresAvailable(prog, phis, operand, v, b)
<1>1. prog \in Programs /\ End(prog, b) \in Nat
  BY PlacedFacts, PositionsFacts
<1>2. Ip(b) = End(prog, b)
  <2>1. CASE frames # <<>> /\ b = Frame.bb
    <3>1. frames \in Seq(FrameT)
      BY DEF Inv, TypeInv
    <3>2. Len(frames) \in 1 .. Len(frames)
      BY <2>1, <3>1, TypedSequence, SequenceFacts1
    <3>3. FrameOk(prog, Frame)
      BY <3>2 DEF Inv, FramesInv, Frame
    <3>4. Frame.stage = "succs" /\ b \in visited
      BY <2>1 DEF Passed
    <3>5. QED
      BY <2>1, <3>3, <3>4 DEF FrameOk, Ip
  <2>2. CASE ~ (frames # <<>> /\ b = Frame.bb)
    BY <2>2 DEF Passed, Ip
  <2>3. QED
    BY <2>1, <2>2
<1>3. UsesInv(prog, phis, operand, b, End(prog, b))
  BY <1>2 DEF Inv, OperandsInv
<1>4. ASSUME NEW j \in Stores(prog, b, v) PROVE Available(prog, phis, operand[<<b, j>>], b, j)
  <2>1. j \in Positions(prog, b) /\ TakesOperand(prog, b, j)
    BY DEF Stores, TakesOperand, Positions
  <2>2. Located(prog, phis, operand, b, j, End(prog, b))
    BY <1>3, <2>1 DEF UsesInv
  <2>3. j \in Nat /\ j < End(prog, b)
    BY <1>1, <2>1, PositionsFacts
  <2>4. End(prog, b) .. j - 1 = {}
    BY <1>1, <2>3
  <2>5. QED
    BY <2>2, <2>4 DEF Located
<1>5. QED
  BY <1>4 DEF StoresAvailable

(* What dominates a block the walk has reached stores what is available; *)
(* so the value that block is entered with is.                           *)
LEMMA ReachedAvailable ==
  ASSUME Inv, pc \in {"rename", "remove", "run"}, NEW b \in Blocks, Reached(b), NEW v \in Loaded(prog),
         EntryVal(prog, phis, operand, v, b) # NULL
  PROVE  /\ \A n : Available(prog, phis, EntryVal(prog, phis, operand, v, b), b, n)
         /\ b \notin PhiBlocks(phis, v) => EntryVal(prog, phis, operand, v, b)[1] # b
<1>1. prog \in Programs /\ v \in Locals /\ Complete(prog, phis, v)
  BY PlacedFacts
<1>2. \A d \in Blocks : T!StrictlyDominates(prog.cfg, d, b) => Passed(d)
  BY DEF Inv, VisitedInv
<1>3. \A d \in Blocks : T!StrictlyDominates(prog.cfg, d, b) => StoresAvailable(prog, phis, operand, v, d)
  BY <1>1, <1>2, PassedAvailable
<1>4. QED
  BY <1>1, <1>3, EntryValAvailable

(* The frame on top. *)
LEMMA FrameFacts ==
  ASSUME Inv, pc = "rename"
  PROVE  /\ prog \in Programs /\ frames \in Seq(FrameT) /\ frames # <<>>
         /\ Len(frames) \in Nat \ {0} /\ Frame = frames[Len(frames)]
         /\ Frame \in FrameT /\ FrameOk(prog, Frame) /\ bb = Frame.bb /\ bb \in Blocks
         /\ InFrames(bb) /\ Reached(bb)
         /\ live[bb] = Kept(prog, bb)
         /\ bb \in visited <=> Frame.stage # "phis"
         /\ \A n \in 1 .. Len(frames) : frames[n] \in FrameT /\ frames[n].bb \in Blocks
         /\ \A n \in 1 .. Len(frames) : n # Len(frames) =>
              frames[n].bb # bb /\ frames[n].bb \in visited /\ frames[n].stage = "succs"
         /\ Ip(bb) = Frame.ip /\ Frame.ip \in Nat \ {0} /\ Frame.ip <= End(prog, bb)
         /\ End(prog, bb) \in Nat
         /\ UsesInv(prog, phis, operand, bb, Frame.ip)
<1>1. prog \in Programs /\ frames \in Seq(FrameT) /\ frames # <<>>
  BY DEF Inv, TypeInv, PhaseInv
<1>2. /\ Len(frames) \in Nat \ {0} /\ Len(frames) \in 1 .. Len(frames)
      /\ \A n \in 1 .. Len(frames) : frames[n] \in FrameT
  BY <1>1, TypedSequence, SequenceFacts1
<1>3. /\ Frame = frames[Len(frames)] /\ bb = Frame.bb /\ Frame \in FrameT
      /\ \A n \in 1 .. Len(frames) : frames[n].bb \in Blocks
  BY <1>2 DEF Frame, bb, FrameT
<1>4. /\ FrameOk(prog, Frame) /\ (bb \in visited <=> Frame.stage # "phis")
      /\ \A n \in 1 .. Len(frames) : n # Len(frames) =>
           frames[n].bb # bb /\ frames[n].bb \in visited /\ frames[n].stage = "succs"
  BY <1>2, <1>3 DEF Inv, FramesInv
<1>5. bb \in Blocks /\ InFrames(bb) /\ Reached(bb)
  BY <1>1, <1>2, <1>3 DEF InFrames, Reached
<1>6. live[bb] = Kept(prog, bb)
  BY <1>5 DEF Inv, LiveInv
<1>7. Ip(bb) = Frame.ip
  BY <1>1, <1>3, <1>4 DEF Ip, FrameOk
<1>8. Frame.ip \in Nat \ {0} /\ Frame.ip <= End(prog, bb) /\ End(prog, bb) \in Nat
  BY <1>1, <1>3, <1>4, <1>5, PositionsFacts DEF FrameOk
<1>9. UsesInv(prog, phis, operand, bb, Frame.ip)
  BY <1>5, <1>7 DEF Inv, OperandsInv
<1>10. QED
  BY <1>1, <1>2, <1>3, <1>4, <1>5, <1>6, <1>7, <1>8, <1>9

(* A step that stays in the call on top and takes none of its successors. *)
LEMMA UpdateTop ==
  ASSUME Inv, pc = "rename", Frame.stage # "succs",
         NEW f \in FrameT, f.bb = bb, f.stage \in {"instrs", "succs"}, f.succs = Frame.succs,
         FrameOk(prog, f), frames' = [frames EXCEPT ![Len(frames)] = f],
         visited' = visited \cup {bb}, UNCHANGED <<prog, pc, live>>
  PROVE  /\ frames' \in Seq(FrameT) /\ frames' # <<>> /\ Len(frames') = Len(frames)
         /\ Frame' = f /\ bb' = bb
         /\ \A n \in 1 .. Len(frames) : n # Len(frames) => frames'[n] = frames[n]
         /\ FramesInv' /\ VisitedInv' /\ LiveInv'
         /\ \A b \in Blocks : Passed(b)' <=> Passed(b) \/ (b = bb /\ f.stage = "succs")
         /\ \A b \in Blocks : b # bb => Ip(b)' = Ip(b)
         /\ \A b \in Blocks : b = bb => Ip(b)' = f.ip
<1> DEFINE L == Len(frames)
<1> HIDE DEF L
<1>1. /\ prog \in Programs /\ frames \in Seq(FrameT) /\ frames # <<>> /\ L \in Nat \ {0}
      /\ Frame = frames[L] /\ FrameOk(prog, Frame) /\ bb = Frame.bb /\ bb \in Blocks
      /\ bb \in visited <=> Frame.stage # "phis"
      /\ \A n \in 1 .. L : frames[n].bb \in Blocks
      /\ \A n \in 1 .. L : n # L => frames[n].bb # bb /\ frames[n].bb \in visited
      /\ UNCHANGED <<prog, pc, live>>
  BY FrameFacts DEF L
<1>2. /\ frames' \in Seq(FrameT) /\ Len(frames') = L /\ frames'[L] = f
      /\ \A n \in 1 .. L : n # L => frames'[n] = frames[n]
  BY <1>1 DEF L
<1>3. frames' # <<>> /\ Frame' = f /\ bb' = bb
  <2>0. Len(frames') = L
    BY <1>2
  <2>1. Frame' = frames'[L]
    BY <2>0 DEF Frame
  <2>2. bb' = f.bb
    BY <1>2, <2>1 DEF bb
  <2>3. frames' # <<>>
    BY <1>1, <2>0, ShortSequences
  <2>4. QED
    BY <1>2, <2>1, <2>2, <2>3
<1>4. \A n \in 1 .. L : frames'[n].bb = frames[n].bb /\ frames'[n].succs = frames[n].succs
  BY <1>1, <1>2
<1>5. ASSUME NEW b
      PROVE  /\ Reached(b)' <=> Reached(b)
             /\ InFrames(b)' <=> InFrames(b)
             /\ b \in visited' <=> b \in visited \/ b = bb
             /\ b = bb => InFrames(b)
  <2>1. Reached(b)' <=> Reached(b)
    BY <1>1, <1>3, Zenon DEF Reached, bb
  <2>2. InFrames(b)' <=> InFrames(b)
    BY <1>2, <1>4, Zenon DEF InFrames, L
  <2>3. b = bb => InFrames(b)
    BY FrameFacts
  <2>4. QED
    BY <2>1, <2>2, <2>3
<1>6. ASSUME NEW b \in Blocks PROVE Passed(b)' <=> Passed(b) \/ (b = bb /\ f.stage = "succs")
  <2>1. CASE b = bb
    BY <1>1, <1>3, <1>5, <2>1 DEF Passed
  <2>2. CASE b # bb
    BY <1>1, <1>3, <1>5, <2>2 DEF Passed
  <2>3. QED
    BY <2>1, <2>2
<1>7. FramesInv'
  <2>1. ASSUME NEW n \in 1 .. L
        PROVE  /\ FrameOk(prog, frames'[n])
               /\ n < L => /\ frames'[n].stage = "succs"
                           /\ frames'[n + 1].bb \in prog.cfg[frames'[n].bb]
               /\ frames'[n].bb \in visited' <=> (n < L \/ frames'[n].stage # "phis")
               /\ \A m \in 1 .. L : frames'[m].bb = frames'[n].bb => m = n
    <3>1. /\ FrameOk(prog, frames[n])
          /\ n < L => /\ frames[n].stage = "succs"
                      /\ frames[n + 1].bb \in prog.cfg[frames[n].bb]
          /\ frames[n].bb \in visited <=> (n < L \/ frames[n].stage # "phis")
          /\ \A m \in 1 .. L : frames[m].bb = frames[n].bb => m = n
      BY DEF Inv, FramesInv, L
    <3>2. \A m \in 1 .. L : frames'[m].bb = frames'[n].bb => m = n
      BY <1>4, <3>1
    <3>3. n < L => frames'[n + 1].bb = frames[n + 1].bb
      BY <1>1, <1>4
    <3>4. CASE n = L
      BY <1>1, <1>2, <1>5, <3>2, <3>4
    <3>5. CASE n # L
      <4>1. frames'[n] = frames[n] /\ n < L
        BY <1>1, <1>2, <3>5
      <4>2. QED
        BY <1>1, <1>5, <3>1, <3>2, <3>3, <4>1
    <3>6. QED
      BY <3>4, <3>5
  <2>2. frames'[1].bb = Entry
    <3>1. frames[1].bb = Entry
      BY <1>1 DEF Inv, FramesInv
    <3>2. 1 \in 1 .. L
      BY <1>1
    <3>3. QED
      BY <1>4, <3>1, <3>2
  <2>3. QED
    BY <1>1, <1>2, <2>1, <2>2 DEF FramesInv
<1>8. VisitedInv'
  <2>1. ASSUME NEW b \in visited', NEW s \in prog.cfg[b]
        PROVE  Reached(s)' \/ \E n \in 1 .. L : frames'[n].bb = b /\ s \in frames'[n].succs
    <3>1. CASE b \in visited
      BY <1>4, <1>5, <3>1 DEF Inv, VisitedInv, L
    <3>2. CASE b \notin visited
      <4>1. b = bb /\ Frame.succs = prog.cfg[bb]
        BY <1>1, <1>5, <3>2 DEF FrameOk
      <4>2. L \in 1 .. L /\ frames'[L].bb = bb /\ s \in frames'[L].succs
        BY <1>1, <1>2, <4>1
      <4>3. QED
        BY <4>1, <4>2
    <3>3. QED
      BY <3>1, <3>2
  <2>2. Reached(Entry)'
    BY <1>1, <1>5 DEF Inv, VisitedInv
  <2>3. \A b \in Blocks : Reached(b)' =>
          \A d \in Blocks : T!StrictlyDominates(prog.cfg, d, b) => Passed(d)'
    BY <1>5, <1>6 DEF Inv, VisitedInv
  <2>4. QED
    BY <1>1, <1>2, <2>1, <2>2, <2>3 DEF VisitedInv
<1>9. LiveInv'
  <2>1. \A b \in Blocks : b \in visited' /\ ~ InFrames(b)' <=> b \in visited /\ ~ InFrames(b)
    BY <1>5
  <2>2. QED
    BY <1>1, <2>1 DEF Inv, LiveInv
<1>10. \A b \in Blocks : b # bb => Ip(b)' = Ip(b)
  <2>1. \A b \in Blocks : End(prog', b) = End(prog, b)
    BY <1>1
  <2>2. QED
    BY <1>1, <1>3, <1>5, <2>1 DEF Ip
<1>11. \A b \in Blocks : b = bb => Ip(b)' = f.ip
  BY <1>3, <1>5 DEF Ip, bb
<1>12. /\ frames' \in Seq(FrameT) /\ Len(frames') = Len(frames)
       /\ \A n \in 1 .. Len(frames) : n # Len(frames) => frames'[n] = frames[n]
  <2>1. L = Len(frames)
    BY DEF L
  <2>2. QED
    BY <1>2, <2>1, Zenon
<1>13. QED
  BY <1>3, <1>6, <1>7, <1>8, <1>9, <1>10, <1>11, <1>12, Zenon

(* An instruction that is not a load to be renamed is passed over. *)
LEMMA UsesSkip ==
  ASSUME NEW p \in Programs, NEW b \in Blocks, NEW ph, NEW op, NEW n \in Nat,
         UsesInv(p, ph, op, b, n), ~ (n \in Kept(p, b) /\ IsLocal(p, b, n, "load"))
  PROVE  UsesInv(p, ph, op, b, n + 1)
<1> SUFFICES ASSUME NEW j \in Positions(p, b), TakesOperand(p, b, j)
             PROVE  /\ Located(p, ph, op, b, j, n + 1)
                    /\ op[<<b, j>>] = Rep(p, ph, op, b, p.code[b][j].arg, n + 1)
  BY DEF UsesInv
<1> DEFINE k == p.code[b][j].arg
<1>1. Located(p, ph, op, b, j, n) /\ op[<<b, j>>] = Rep(p, ph, op, b, k, n)
  BY DEF UsesInv
<1>2. k \in 1 .. j - 1 /\ j \in Nat /\ Computes(p, b, k)
  BY ProgramFacts, PositionsFacts
<1> HIDE DEF k
<1>3. Located(p, ph, op, b, j, n + 1)
  <2>1. ASSUME NEW m \in n .. j - 1, m \in Kept(p, b), IsLocal(p, b, m, "load")
        PROVE  m \in n + 1 .. j - 1
    BY <1>2, <2>1
  <2>2. QED
    BY <1>1, <2>1 DEF Located
<1>4. CASE IsLocal(p, b, k, "load") /\ LastStore(p, b, p.code[b][k].var, k) = 0
  <2>1. k \in Kept(p, b)
    <3>1. k \in Positions(p, b) /\ ~ IsLocal(p, b, k, "store")
      BY <1>2, <1>4 DEF Computes, IsLocal
    <3>2. QED
      BY <1>4, <3>1 DEF Kept
  <2>2. k # n
    BY <1>4, <2>1
  <2>3. k < n + 1 <=> k < n
    BY <1>2, <2>2
  <2>4. QED
    BY <1>1, <1>3, <2>3 DEF Rep, k
<1>5. CASE ~ (IsLocal(p, b, k, "load") /\ LastStore(p, b, p.code[b][k].var, k) = 0)
  <2>1. Rep(p, ph, op, b, k, n + 1) = Rep(p, ph, op, b, k, n)
    BY <1>5 DEF Rep
  <2>2. QED
    BY <1>1, <1>3, <2>1 DEF k
<1>6. QED
  BY <1>4, <1>5

(* Stores and uses have operands, and nothing else has. *)
OperandsGiven ==
  \A b \in Blocks : \A k \in Positions(prog, b) :
    operand[<<b, k>>] = NULL <=> ~ TakesOperand(prog, b, k)

(* They are kept as long as code and operands are. *)
LEMMA OperandsGivenKept ==
  ASSUME Inv, UNCHANGED <<prog, operand>>
  PROVE  OperandsGiven'
<1>1. TypeInv
  BY DEF Inv
<1>2. OperandsGiven
  BY <1>1, Zenon DEF TypeInv, OperandsGiven
<1>3. ASSUME NEW b \in Blocks, NEW k \in Positions(prog, b)
      PROVE  operand'[<<b, k>>] = NULL <=> ~ TakesOperand(prog', b, k)
  <2>1. operand[<<b, k>>] = NULL <=> ~ TakesOperand(prog, b, k)
    BY <1>2, Zenon DEF OperandsGiven
  <2>2. operand' = operand /\ prog' = prog
    OBVIOUS
  <2>3. QED
    BY <2>1, <2>2
<1>4. prog' = prog
  OBVIOUS
<1>5. QED
  BY <1>3, <1>4, Zenon DEF OperandsGiven

(* The parts of the invariant that a step of the walk does not touch. *)
LEMMA StillRenaming ==
  ASSUME Inv, pc = "rename", pc' \in {"rename", "remove"},
         UNCHANGED <<prog, dom_frontier, phis, allocas, scanVars, phiVars, define_var, run>>, ~ fault', fault' \in BOOLEAN,
         live' \in [Blocks -> SUBSET Nat], operand' \in [Ids -> Ids \cup Phis \cup {NULL}],
         OperandsGiven', phi_args' \in [Phis -> Seq(Values \X Blocks)],
         value_status' \in [Locals -> Seq(Values)],
         visited' \in SUBSET Blocks, frames' \in Seq(FrameT),
         pc' = "rename" <=> frames' # <<>>, pc' = "remove" => visited' = Blocks
  PROVE  TypeInv' /\ PhaseInv' /\ ForwardInv' /\ PhiInv' /\ RunInv'
<1> USE DEF scanVars, phiVars
<1>1. Ids' = Ids /\ Values' = Values /\ Phis' = Phis
  BY DEF Ids, Values, Code, Phis
<1>2. pc' \in {"forward", "collect", "genphi", "rename", "remove", "run"}
  OBVIOUS
<1>3. TypeInv'
  BY <1>1, <1>2 DEF TypeInv, OperandsGiven, Inv
<1>4. PhaseInv'
  BY DEF PhaseInv, Inv
<1>5. PhiInv'
  BY DEF PhiInv, Inv
<1>6. ForwardInv' /\ RunInv'
  BY DEF ForwardInv, RunInv
<1>7. QED
  BY <1>3, <1>4, <1>5, <1>6

(* What the call f on top has pushed of v. *)
PushedBy(p, ph, v, f) == IF f.stage = "phis" THEN 0 ELSE PushedBefore(p, ph, v, f.bb, f.ip)

(* A step leaves what is on the stack of v, adds what the call on top, f   *)
(* after the step, has pushed, and has the right value on top.             *)
StackStep(f, v) ==
  /\ Sequence(value_status'[v])
  /\ Len(value_status'[v]) + PushedBy(prog, phis, v, Frame)
       = Len(value_status[v]) + PushedBy(prog, phis, v, f)
  /\ Len(value_status[v]) <= Len(value_status'[v])
  /\ \A k \in 1 .. Len(value_status[v]) : value_status'[v][k] = value_status[v][k]
  /\ Current(v)' = TopAt(prog, phis, operand', v, bb, f.ip)

(* The stacks after a step that stays in the call on top: what it found on *)
(* them is still there, and on top of it what the block has pushed.        *)
LEMMA StackTop ==
  ASSUME Inv, pc = "rename", UNCHANGED <<prog, phis, define_var>>,
         NEW f \in FrameT, f.bb = bb, f.stage # "phis", Len(frames') = Len(frames), Frame' = f,
         \A n \in 1 .. Len(frames) : n # Len(frames) => frames'[n] = frames[n],
         \A v \in Loaded(prog) : \A n \in 1 .. Len(frames) : n # Len(frames) =>
           ValueAt(prog, phis, operand', v, frames[n].bb, End(prog, frames[n].bb))
             = ValueAt(prog, phis, operand, v, frames[n].bb, End(prog, frames[n].bb)),
         \A v \in Loaded(prog) : StackStep(f, v)
  PROVE  StackInv'
<1> DEFINE L == Len(frames)
<1> HIDE DEF L
<1>1. L \in Nat \ {0} /\ prog \in Programs /\ Frame.bb = bb /\ Len(frames') = L
  BY FrameFacts DEF L
<1>2. ASSUME NEW b, NEW k, NEW v PROVE PushedBefore(prog, phis, v, b, k) \in Nat
  BY DEF PushedBefore
<1>3. ASSUME NEW v \in Loaded(prog) PROVE \E h \in [1 .. Len(frames') -> Nat] : Stacked(v, h)'
  <2>1. PICK h \in [1 .. Len(frames) -> Nat] : Stacked(v, h)
    BY DEF Inv, StackInv
  <2> DEFINE s == value_status[v]
             t == value_status'[v]
  <2>2. v \in Locals /\ s \in Seq(Values) /\ Sequence(s) /\ Len(s) \in Nat /\ Sequence(t) /\ Len(t) \in Nat
    <3>1. v \in Locals /\ s \in Seq(Values)
      BY DEF Loaded, Inv, TypeInv
    <3>2. Sequence(s)
      BY <3>1, TypedSequence
    <3>3. Sequence(t)
      BY DEF StackStep
    <3> HIDE DEF s, t
    <3>4. QED
      BY <3>1, <3>2, <3>3, SequenceFacts1
  <2>3. /\ Len(t) + PushedBy(prog, phis, v, Frame) = Len(s) + PushedBy(prog, phis, v, f)
        /\ Len(s) <= Len(t) /\ \A k \in 1 .. Len(s) : t[k] = s[k]
        /\ Current(v)' = TopAt(prog, phis, operand', v, bb, f.ip)
    BY DEF StackStep
  <2>4. /\ h \in [1 .. L -> Nat] /\ h[1] = 0 /\ \A n \in 1 .. L : \A m \in 1 .. n : h[m] <= h[n]
        /\ \A n \in 1 .. L - 1 :
             /\ h[n + 1] = h[n] + Pushes(prog, phis, v, frames[n].bb)
             /\ Element(s, h[n + 1]) = ValueAt(prog, phis, operand, v, frames[n].bb, End(prog, frames[n].bb))
    BY <2>1 DEF Stacked, L
  <2>5. Len(s) = h[L] + PushedBy(prog, phis, v, Frame)
    BY <1>1, <2>1 DEF Stacked, PushedBy, L
  <2>6. PushedBy(prog, phis, v, Frame) \in Nat /\ PushedBy(prog, phis, v, f) = PushedBefore(prog, phis, v, bb, f.ip)
    BY <1>2 DEF PushedBy
  <2> HIDE DEF s, t
  <2>7. Len(t) = h[L] + PushedBefore(prog, phis, v, bb, f.ip)
    BY <1>1, <1>2, <2>2, <2>3, <2>4, <2>5, <2>6
  <2>8. ASSUME NEW n \in 1 .. L - 1
        PROVE  /\ h[n + 1] = h[n] + Pushes(prog, phis, v, frames'[n].bb)
               /\ Element(t, h[n + 1]) = ValueAt(prog, phis, operand', v, frames'[n].bb, End(prog, frames'[n].bb))
    <3>1. n \in 1 .. L /\ n # L /\ n + 1 \in 1 .. L
      BY <1>1
    <3>2. frames'[n] = frames[n]
      BY <3>1 DEF L
    <3>3. h[n + 1] \in Nat /\ h[n + 1] <= Len(s)
      BY <1>1, <2>2, <2>4, <2>5, <2>6, <3>1
    <3>4. Element(t, h[n + 1]) = Element(s, h[n + 1])
      BY <2>2, <2>3, <3>3 DEF Element
    <3>5. ValueAt(prog, phis, operand', v, frames[n].bb, End(prog, frames[n].bb))
            = ValueAt(prog, phis, operand, v, frames[n].bb, End(prog, frames[n].bb))
      BY <3>1 DEF L
    <3>6. QED
      BY <2>4, <3>2, <3>4, <3>5
  <2>9. Frame'.stage # "phis" /\ Frame'.bb = bb /\ Frame'.ip = f.ip
    OBVIOUS
  <2>10. Stacked(v, h)'
    BY <1>1, <2>3, <2>4, <2>7, <2>8, <2>9 DEF Stacked, t
  <2>11. QED
    BY <1>1, <2>4, <2>10
<1>4. \A b \in Blocks : \A v \in Locals : define_var'[b][v] = Pushes(prog, phis, v, b)
  BY DEF Inv, StackInv
<1>5. QED
  BY <1>3, <1>4 DEF StackInv

(* The phi operands are as they were, unless the walk gets past a block. *)
LEMMA PhiArgsKept ==
  ASSUME Inv, pc \in {"rename", "remove", "run"}, UNCHANGED <<prog, phis, operand, phi_args>>,
         \A b \in Blocks : Passed(b)' <=> Passed(b)
  PROVE  PhiArgsInv'
<1>1. ASSUME NEW s \in Blocks, NEW v \in Locals PROVE PhiArgsOf(s, v)'
  <2>1. PhiArgsOf(s, v)
    BY DEF Inv, PhiArgsInv
  <2>2. QED
    BY <2>1 DEF PhiArgsOf
<1>2. QED
  BY <1>1 DEF PhiArgsInv

(* The stack of a local. *)
LEMMA StatusFacts ==
  ASSUME Inv, NEW v \in Locals
  PROVE  /\ value_status[v] \in Seq(Values) /\ Sequence(value_status[v]) /\ Len(value_status[v]) \in Nat
         /\ Current(v) = Element(value_status[v], Len(value_status[v]))
         /\ Current(v) = NULL <=> value_status[v] = <<>>
         /\ Current(v) # NULL => Current(v) \in Values
<1> DEFINE s == value_status[v]
<1>1. s \in Seq(Values)
  BY DEF Inv, TypeInv
<1>2. Current(v) = IF s = <<>> THEN NULL ELSE Last(s)
  BY DEF Current
<1> HIDE DEF s
<1>3. /\ Sequence(s) /\ Len(s) \in Nat /\ (s = <<>> <=> Len(s) = 0)
      /\ \A k \in 1 .. Len(s) : s[k] \in Values
  BY <1>1, TypedSequence, SequenceFacts1
<1>4. s # <<>> => Last(s) = s[Len(s)] /\ Last(s) \in Values
  BY <1>3, FrontSequence, SequenceFacts1
<1>5. NULL \notin Values
  BY ValueFacts DEF Values
<1>6. QED
  BY <1>1, <1>2, <1>3, <1>4, <1>5 DEF Element, s

(* A block is entered: its phis are the values of their locals; the others *)
(* have the value the caller ended with.                                   *)
LEMMA PushPhisKeeps ==
  ASSUME Inv, PushPhis
  PROVE  Inv'
<1> USE DEF irVars, scanVars, phiVars
<1> DEFINE f == [Frame EXCEPT !.stage = "instrs"]
<1>1. /\ pc = "rename" /\ Frame.stage = "phis"
      /\ visited' = visited \cup {bb}
      /\ value_status' = [v \in Locals |->
           IF v \in ToSet(phis[bb]) THEN Append(value_status[v], <<bb, v>>) ELSE value_status[v]]
      /\ frames' = [frames EXCEPT ![Len(frames)] = f]
      /\ UNCHANGED <<prog, dom_frontier, pc, irVars, scanVars, phiVars, define_var, fault, run>>
  BY DEF PushPhis, InStage, Update, HasPhi
<1>2. /\ prog \in Programs /\ frames \in Seq(FrameT) /\ frames # <<>> /\ Len(frames) \in Nat \ {0}
      /\ Frame \in FrameT /\ FrameOk(prog, Frame) /\ bb = Frame.bb /\ bb \in Blocks
      /\ Frame = frames[Len(frames)]
  BY <1>1, FrameFacts
<1>3. /\ f \in FrameT /\ f.bb = bb /\ f.stage = "instrs" /\ f.succs = Frame.succs /\ f.ip = 1
      /\ FrameOk(prog, f)
  <2>1. Frame.ip = 1
    BY <1>1, <1>2 DEF FrameOk
  <2>2. f \in FrameT /\ f.bb = bb /\ f.stage = "instrs" /\ f.succs = Frame.succs /\ f.ip = 1 /\ f.deletes = Frame.deletes
    BY <1>2, <2>1 DEF FrameT
  <2> HIDE DEF f
  <2>3. QED
    BY <1>1, <1>2, <2>1, <2>2 DEF FrameOk
<1> HIDE DEF f
<1>4. /\ frames' \in Seq(FrameT) /\ frames' # <<>> /\ Len(frames') = Len(frames) /\ Frame' = f
      /\ \A n \in 1 .. Len(frames) : n # Len(frames) => frames'[n] = frames[n]
      /\ FramesInv' /\ VisitedInv' /\ LiveInv'
      /\ \A b \in Blocks : Passed(b)' <=> Passed(b)
      /\ \A b \in Blocks : b # bb => Ip(b)' = Ip(b)
      /\ \A b \in Blocks : b = bb => Ip(b)' = f.ip
  BY <1>1, <1>3, UpdateTop
<1>5. value_status' \in [Locals -> Seq(Values)]
  <2>1. ASSUME NEW v \in Locals
        PROVE  value_status[v] \in Seq(Values) /\ Append(value_status[v], <<bb, v>>) \in Seq(Values)
    <3>1. value_status[v] \in Seq(Values) /\ <<bb, v>> \in Values
      BY <1>2 DEF Inv, TypeInv, Values, Phis
    <3>2. QED
      BY <3>1
  <2>2. QED
    BY <1>1, <2>1
<1>6. TypeInv' /\ PhaseInv' /\ ForwardInv' /\ PhiInv' /\ RunInv' /\ ~ fault'
  <2>1. visited' \in SUBSET Blocks
    BY <1>1, <1>2 DEF Inv, TypeInv
  <2>2. live' \in [Blocks -> SUBSET Nat] /\ operand' \in [Ids -> Ids \cup Phis \cup {NULL}]
        /\ phi_args' \in [Phis -> Seq(Values \X Blocks)] /\ fault' \in BOOLEAN
        /\ OperandsGiven'
    BY <1>1, OperandsGivenKept DEF Inv, TypeInv
  <2>3. ~ fault'
    BY <1>1 DEF Inv
  <2>4. /\ pc' = "rename" /\ frames' \in Seq(FrameT) /\ frames' # <<>>
        /\ UNCHANGED <<prog, dom_frontier, phis, allocas, scanVars, phiVars, define_var, run>>
    <3>1. pc' = "rename"
      BY <1>1
    <3>2. frames' \in Seq(FrameT) /\ frames' # <<>>
      BY <1>4
    <3>3. UNCHANGED <<prog, dom_frontier, phis, allocas, scanVars, phiVars, define_var, run>>
      BY <1>1
    <3>4. QED
      BY <3>1, <3>2, <3>3
  <2>5. QED
    BY <1>1, <1>5, <2>1, <2>2, <2>3, <2>4, StillRenaming
<1>7. OperandsInv'
  <2> SUFFICES ASSUME NEW b \in Blocks PROVE UsesInv(prog, phis, operand, b, Ip(b)')
    BY <1>1 DEF OperandsInv
  <2>1. Ip(b)' = Ip(b)
    <3>1. Ip(bb) = 1
      BY <1>1, <1>2, FrameFacts DEF FrameOk
    <3>2. QED
      BY <1>3, <1>4, <3>1
  <2>2. QED
    BY <1>1, <2>1 DEF Inv, OperandsInv
<1>8. PhiArgsInv'
  <2>1. pc = "rename" /\ UNCHANGED <<prog, phis, operand, phi_args>>
    BY <1>1
  <2>2. \A b \in Blocks : Passed(b)' <=> Passed(b)
    BY <1>4
  <2>3. QED
    BY <2>1, <2>2, PhiArgsKept
<1>9. StackInv'
  <2>1. ASSUME NEW v \in Loaded(prog) PROVE StackStep(f, v)
    <3> DEFINE s == value_status[v]
               t == value_status'[v]
               L == Len(frames)
    <3>1. v \in Locals /\ Complete(prog, phis, v) /\ Entry \notin PhiBlocks(phis, v)
      BY <1>1, PlacedFacts
    <3>2. s \in Seq(Values) /\ Sequence(s) /\ Len(s) \in Nat /\ Current(v) = Element(s, Len(s))
      BY <3>1, StatusFacts
    <3>3. t = IF bb \in PhiBlocks(phis, v) THEN Append(s, <<bb, v>>) ELSE s
      BY <1>1, <1>2, <3>1 DEF PhiBlocks
    <3>4. Current(v)' = IF t = <<>> THEN NULL ELSE Last(t)
      BY DEF Current
    <3>5. Current(v) = IF s = <<>> THEN NULL ELSE Last(s)
      BY DEF Current
    <3> HIDE DEF s, t
    <3>6. PushedBy(prog, phis, v, Frame) = 0
      BY <1>1 DEF PushedBy
    <3>7. ~ (Stores(prog, bb, v) # {} /\ LastStore(prog, bb, v, End(prog, bb)) < 1)
      <4>1. LastStore(prog, bb, v, End(prog, bb)) \in Nat
        BY <1>2, PositionsFacts, LastStoreFacts
      <4>2. QED
        BY <1>2, <4>1, LastStoreEnd
    <3>8. PushedBy(prog, phis, v, f) = IF bb \in PhiBlocks(phis, v) THEN 1 ELSE 0
      BY <1>3, <3>7 DEF PushedBy, PushedBefore
    <3>9. TopAt(prog, phis, operand', v, bb, f.ip) = EntryVal(prog, phis, operand, v, bb)
      BY <1>1, <1>3, <3>7 DEF TopAt
    <3>10. CASE bb \in PhiBlocks(phis, v)
      <4>1. t = Append(s, <<bb, v>>)
        BY <3>3, <3>10
      <4>2. /\ Sequence(t) /\ Len(t) = Len(s) + 1 /\ t # <<>> /\ Last(t) = <<bb, v>>
            /\ \A k \in 1 .. Len(s) : t[k] = s[k]
        BY <3>2, <4>1, AppendSequence
      <4>3. EntryVal(prog, phis, operand, v, bb) = <<bb, v>>
        BY <3>10 DEF EntryVal
      <4>4. QED
        BY <3>2, <3>4, <3>6, <3>8, <3>9, <3>10, <4>2, <4>3 DEF StackStep, s, t
    <3>11. CASE bb \notin PhiBlocks(phis, v)
      <4>1. t = s /\ Current(v)' = Current(v)
        BY <3>3, <3>4, <3>5, <3>11
      <4>2. PICK h \in [1 .. Len(frames) -> Nat] : Stacked(v, h)
        BY <1>1 DEF Inv, StackInv
      <4>3. /\ h[1] = 0 /\ Len(s) = h[L]
            /\ \A n \in 1 .. L - 1 :
                 Element(s, h[n + 1]) = ValueAt(prog, phis, operand, v, frames[n].bb, End(prog, frames[n].bb))
        BY <1>1, <4>2 DEF Stacked, s
      <4>4. Current(v) = EntryVal(prog, phis, operand, v, bb)
        <5>1. CASE L = 1
          <6>1. Current(v) = NULL
            BY <3>2, <4>3, <5>1 DEF Element
          <6>2. bb = Entry
            BY <1>2, <5>1 DEF Inv, FramesInv
          <6>3. QED
            BY <1>2, <3>1, <6>1, <6>2, EntryValAtEntry
        <5>2. CASE L # 1
          <6> DEFINE m == Len(frames) - 1
                     x == frames[m].bb
          <6>1. m \in 1 .. L - 1 /\ m \in 1 .. L /\ m + 1 = L /\ m < L
            <7>1. L \in Nat \ {0}
              BY <1>2
            <7> HIDE DEF L
            <7>2. L - 1 = m
              BY DEF L
            <7> HIDE DEF m
            <7>3. QED
              BY <5>2, <7>1, <7>2
          <6> HIDE DEF m
          <6>2. Current(v) = ValueAt(prog, phis, operand, v, x, End(prog, x))
            BY <3>2, <4>3, <6>1
          <6>3. x \in Blocks /\ bb \in prog.cfg[x]
            <7>1. frames[m + 1].bb \in prog.cfg[x]
              BY <6>1 DEF Inv, FramesInv
            <7>2. x \in Blocks
              BY <1>1, <6>1, FrameFacts
            <7>3. QED
              BY <1>2, <6>1, <7>1, <7>2
          <6> HIDE DEF x
          <6>4. QED
            BY <1>2, <3>1, <3>11, <6>2, <6>3, EdgeValue
        <5>3. QED
          BY <5>1, <5>2
      <4>5. QED
        BY <3>2, <3>6, <3>8, <3>9, <3>11, <4>1, <4>4 DEF StackStep, s, t
    <3>12. QED
      BY <3>10, <3>11
  <2>3. \A v \in Loaded(prog) : \A n \in 1 .. Len(frames) : n # Len(frames) =>
          ValueAt(prog, phis, operand', v, frames[n].bb, End(prog, frames[n].bb))
            = ValueAt(prog, phis, operand, v, frames[n].bb, End(prog, frames[n].bb))
    BY <1>1
  <2>4. f \in FrameT /\ f.bb = bb /\ f.stage # "phis" /\ pc = "rename" /\ UNCHANGED <<prog, phis, define_var>>
    BY <1>1, <1>3
  <2>5. /\ Len(frames') = Len(frames) /\ Frame' = f
        /\ \A n \in 1 .. Len(frames) : n # Len(frames) => frames'[n] = frames[n]
    BY <1>4
  <2>6. QED
    BY <2>1, <2>3, <2>4, <2>5, StackTop
<1>10. QED
  BY <1>4, <1>6, <1>7, <1>8, <1>9 DEF Inv

(* Where the call on top is in its block. *)
LEMMA InstrFacts ==
  ASSUME Inv, InStage("instrs")
  PROVE  /\ pc = "rename" /\ Frame.stage = "instrs" /\ prog \in Programs /\ bb \in Blocks
         /\ Frame \in FrameT /\ FrameOk(prog, Frame) /\ bb = Frame.bb /\ bb \in visited
         /\ Frame.ip \in Nat \ {0} /\ End(prog, bb) \in Nat /\ Frame.ip <= End(prog, bb)
         /\ \A o \in {"load", "store"} : Frame.ip \in LocalOps(bb, o)
                     <=> Frame.ip \in Kept(prog, bb) /\ IsLocal(prog, bb, Frame.ip, o)
         /\ Frame.ip \in Kept(prog, bb) => Frame.ip < End(prog, bb)
         /\ Frame.ip <= Len(Code(bb)) <=> Frame.ip < End(prog, bb)
         /\ Code(bb) = prog.code[bb]
         /\ \A v \in Loaded(prog) : Current(v) = TopAt(prog, phis, operand, v, bb, Frame.ip)
<1>1. pc = "rename" /\ Frame.stage = "instrs"
  BY DEF InStage
<1>2. /\ prog \in Programs /\ bb \in Blocks /\ Frame \in FrameT /\ FrameOk(prog, Frame) /\ bb = Frame.bb
      /\ Frame.ip \in Nat \ {0} /\ End(prog, bb) \in Nat /\ Frame.ip <= End(prog, bb)
      /\ live[bb] = Kept(prog, bb) /\ bb \in visited
  BY <1>1, FrameFacts
<1>3. \A o \in {"load", "store"} : Frame.ip \in LocalOps(bb, o) <=> Frame.ip \in Kept(prog, bb) /\ IsLocal(prog, bb, Frame.ip, o)
  <2> DEFINE k == Frame.ip
  <2>1. \A o : k \in LocalOps(bb, o) <=> k \in Kept(prog, bb) /\ isLocalVarOp(bb, k) /\ prog.code[bb][k].op = o
    BY <1>2 DEF LocalOps, Code
  <2>4. isLocalVarOp(bb, k) <=> prog.code[bb][k].op \in {"load", "store"} /\ prog.code[bb][k].var \in Locals
    BY DEF isLocalVarOp, Code
  <2> HIDE DEF k
  <2>5. \A o : IsLocal(prog, bb, k, o) <=> prog.code[bb][k].op = o /\ prog.code[bb][k].var \in Locals
    BY DEF IsLocal
  <2>6. QED
    BY <2>1, <2>4, <2>5 DEF k
<1>4. Frame.ip \in Kept(prog, bb) => Frame.ip < End(prog, bb)
  BY <1>2, PositionsFacts
<1>5. Code(bb) = prog.code[bb] /\ (Frame.ip <= Len(Code(bb)) <=> Frame.ip < End(prog, bb))
  BY <1>2, ProgramFacts DEF Code, End
<1>6. ASSUME NEW v \in Loaded(prog) PROVE Current(v) = TopAt(prog, phis, operand, v, bb, Frame.ip)
  <2>1. PICK h \in [1 .. Len(frames) -> Nat] : Stacked(v, h)
    BY <1>1 DEF Inv, StackInv
  <2>2. QED
    BY <1>1, <1>2, <2>1 DEF Stacked
<1>7. QED
  BY <1>1, <1>2, <1>3, <1>4, <1>5, <1>6

(* The call on top after it has passed an instruction. *)
LEMMA NextFrame ==
  ASSUME Inv, InStage("instrs"), Frame.ip < End(prog, bb),
         NEW f \in FrameT, f.bb = bb, f.stage = "instrs", f.succs = Frame.succs, f.ip = Frame.ip + 1,
         f.deletes = Frame.deletes \cup
           {k \in {Frame.ip} : k \in Kept(prog, bb) /\ IsLocalOp(prog, bb, k)}
  PROVE  FrameOk(prog, f)
<1>1. /\ prog \in Programs /\ FrameOk(prog, Frame) /\ bb = Frame.bb /\ bb \in Blocks /\ Frame.stage = "instrs"
      /\ Frame.ip \in Nat \ {0} /\ End(prog, bb) \in Nat
  BY InstrFacts
<1>2. /\ Frame.succs = prog.cfg[bb]
      /\ Frame.deletes = {k \in Kept(prog, bb) : IsLocalOp(prog, bb, k) /\ k < Frame.ip}
  BY <1>1 DEF FrameOk
<1>3. f.ip \in 1 .. End(prog, bb)
  BY <1>1
<1>4. \A k \in Kept(prog, bb) : k < Frame.ip + 1 <=> k < Frame.ip \/ k = Frame.ip
  BY <1>1, PositionsFacts
<1>5. f.deletes = {k \in Kept(prog, bb) : IsLocalOp(prog, bb, k) /\ k < f.ip}
  BY <1>2, <1>4
<1>6. QED
  BY <1>2, <1>3, <1>5 DEF FrameOk

(* What is on the stack of v changes only where v is stored for the last time. *)
LEMMA PushedSkip ==
  ASSUME NEW p \in Programs, NEW b \in Blocks, NEW v \in Locals, NEW k \in Nat, NEW ph, NEW op,
         ~ (k \in Kept(p, b) /\ k \in Stores(p, b, v))
  PROVE  /\ PushedBefore(p, ph, v, b, k + 1) = PushedBefore(p, ph, v, b, k)
         /\ TopAt(p, ph, op, v, b, k + 1) = TopAt(p, ph, op, v, b, k)
<1> DEFINE j == LastStore(p, b, v, End(p, b))
<1>1. j \in Nat
  BY PositionsFacts, LastStoreFacts
<1>2. Stores(p, b, v) # {} => j # k
  BY LastStoreEnd
<1>3. Stores(p, b, v) # {} => (j < k + 1 <=> j < k)
  BY <1>1, <1>2
<1>4. QED
  BY <1>3 DEF PushedBefore, TopAt

(* An instruction that is not a load of a local is passed; f is the call *)
(* on top when it is.                                                    *)
PassStep(f) ==
  /\ InStage("instrs") /\ Frame.ip < End(prog, bb)
  /\ ~ (Frame.ip \in Kept(prog, bb) /\ IsLocal(prog, bb, Frame.ip, "load"))
  /\ f \in FrameT /\ f.bb = bb /\ f.stage = "instrs" /\ f.succs = Frame.succs /\ f.ip = Frame.ip + 1
  /\ FrameOk(prog, f) /\ frames' = [frames EXCEPT ![Len(frames)] = f]
  /\ UNCHANGED <<prog, dom_frontier, pc, irVars, scanVars, phiVars, define_var, visited, fault, run>>
  /\ value_status' \in [Locals -> Seq(Values)]
  /\ \A v \in Loaded(prog) : StackStep(f, v)

(* ... and the invariant stays. *)
LEMMA PassInstrKeeps ==
  ASSUME Inv, NEW f, PassStep(f)
  PROVE  Inv'
<1>1. /\ pc = "rename" /\ Frame.stage = "instrs" /\ prog \in Programs /\ bb \in Blocks
      /\ bb = Frame.bb /\ bb \in visited /\ Frame.ip \in Nat \ {0}
      /\ Frame.ip < End(prog, bb) /\ ~ (Frame.ip \in Kept(prog, bb) /\ IsLocal(prog, bb, Frame.ip, "load"))
  BY InstrFacts DEF PassStep
<1>0. /\ UNCHANGED <<prog, pc, live>> /\ visited' = visited
      /\ UNCHANGED <<prog, phis, operand, phi_args>>
      /\ UNCHANGED <<prog, phis, define_var>> /\ operand' = operand /\ fault' = fault /\ run' = run
      /\ UNCHANGED <<prog, dom_frontier, phis, allocas, scanVars, phiVars, define_var, run>>
  BY DEF PassStep, irVars
<1>f. /\ f \in FrameT /\ f.bb = bb /\ f.stage = "instrs" /\ f.succs = Frame.succs /\ f.ip = Frame.ip + 1
      /\ FrameOk(prog, f) /\ frames' = [frames EXCEPT ![Len(frames)] = f]
      /\ value_status' \in [Locals -> Seq(Values)]
  BY DEF PassStep
<1>2. visited' = visited \cup {bb}
  BY <1>0, <1>1
<1>3. /\ frames' \in Seq(FrameT) /\ frames' # <<>> /\ Len(frames') = Len(frames) /\ Frame' = f
      /\ \A n \in 1 .. Len(frames) : n # Len(frames) => frames'[n] = frames[n]
      /\ FramesInv' /\ VisitedInv' /\ LiveInv'
      /\ \A b \in Blocks : Passed(b)' <=> Passed(b) \/ (b = bb /\ f.stage = "succs")
      /\ \A b \in Blocks : b # bb => Ip(b)' = Ip(b)
      /\ \A b \in Blocks : b = bb => Ip(b)' = f.ip
  <2>1. Frame.stage # "succs" /\ f.stage \in {"instrs", "succs"} /\ UNCHANGED <<prog, pc, live>>
    BY <1>0, <1>1, <1>f
  <2>2. QED
    BY <1>1, <1>2, <1>f, <2>1, UpdateTop
<1>4. \A b \in Blocks : Passed(b)' <=> Passed(b)
  <2>1. f.stage # "succs"
    BY <1>f
  <2>2. QED
    BY <1>3, <2>1
<1>5. TypeInv' /\ PhaseInv' /\ ForwardInv' /\ PhiInv' /\ RunInv' /\ ~ fault'
  <2>1. visited' \in SUBSET Blocks
    BY <1>0 DEF Inv, TypeInv
  <2>2. live' \in [Blocks -> SUBSET Nat] /\ operand' \in [Ids -> Ids \cup Phis \cup {NULL}]
        /\ phi_args' \in [Phis -> Seq(Values \X Blocks)] /\ fault' \in BOOLEAN
    BY <1>0 DEF Inv, TypeInv
  <2>3. OperandsGiven'
    BY <1>0, OperandsGivenKept
  <2>4. ~ fault'
    BY <1>0 DEF Inv
  <2>5. pc' = "rename" /\ pc = "rename"
    BY <1>0, <1>1
  <2>6. frames' \in Seq(FrameT) /\ frames' # <<>>
    BY <1>3
  <2>7. /\ pc' \in {"rename", "remove"} /\ (pc' = "rename" <=> frames' # <<>>)
        /\ (pc' = "remove" => visited' = Blocks)
    BY <2>5, <2>6
  <2>8. TypeInv' /\ PhaseInv' /\ ForwardInv' /\ PhiInv' /\ RunInv'
    BY <1>0, <1>f, <2>1, <2>2, <2>3, <2>4, <2>5, <2>6, <2>7, StillRenaming
  <2>9. QED
    BY <2>4, <2>8
<1>6. OperandsInv'
  <2>0. prog' = prog /\ phis' = phis /\ operand' = operand
    BY <1>0
  <2> SUFFICES ASSUME NEW b \in Blocks PROVE UsesInv(prog, phis, operand, b, Ip(b)')
    BY <2>0 DEF OperandsInv
  <2>1. CASE b = bb
    <3>1. UsesInv(prog, phis, operand, bb, Frame.ip)
      BY <1>1, FrameFacts
    <3>2. UsesInv(prog, phis, operand, bb, Frame.ip + 1)
      BY <1>1, <3>1, UsesSkip
    <3>3. Ip(b)' = Frame.ip + 1
      <4>1. Ip(b)' = f.ip
        BY <1>3, <2>1
      <4>2. QED
        BY <1>f, <4>1
    <3>4. QED
      BY <2>1, <3>2, <3>3
  <2>2. CASE b # bb
    <3>1. UsesInv(prog, phis, operand, b, Ip(b))
      BY <1>1 DEF Inv, OperandsInv
    <3>2. Ip(b)' = Ip(b)
      BY <1>3, <2>2
    <3>3. QED
      BY <3>1, <3>2
  <2>3. QED
    BY <2>1, <2>2
<1>7. PhiArgsInv'
  BY <1>0, <1>1, <1>4, PhiArgsKept
<1>8. StackInv'
  <2>1. \A v \in Loaded(prog) : \A n \in 1 .. Len(frames) : n # Len(frames) =>
          ValueAt(prog, phis, operand', v, frames[n].bb, End(prog, frames[n].bb))
            = ValueAt(prog, phis, operand, v, frames[n].bb, End(prog, frames[n].bb))
    BY <1>0
  <2>2. /\ f \in FrameT /\ f.bb = bb /\ f.stage # "phis" /\ pc = "rename"
        /\ UNCHANGED <<prog, phis, define_var>>
    BY <1>0, <1>1, <1>f
  <2>3. \A v \in Loaded(prog) : StackStep(f, v)
    BY DEF PassStep
  <2>4. /\ Len(frames') = Len(frames) /\ Frame' = f
        /\ \A n \in 1 .. Len(frames) : n # Len(frames) => frames'[n] = frames[n]
    BY <1>3
  <2>5. QED
    BY <2>1, <2>2, <2>3, <2>4, StackTop
<1>9. QED
  BY <1>3, <1>5, <1>6, <1>7, <1>8 DEF Inv

(* A store: the last one of its local, whose value is pushed. *)
LEMMA RenameStoreKeeps ==
  ASSUME Inv, RenameStore
  PROVE  Inv'
<1> DEFINE ip == Frame.ip
           u == Code(bb)[ip].var
           x == operand[<<bb, ip>>]
           f == ToDelete
<1>1. /\ InStage("instrs") /\ ip \in LocalOps(bb, "store")
      /\ value_status' = [value_status EXCEPT ![u] = Append(@, x)]
      /\ frames' = [frames EXCEPT ![Len(frames)] = f]
      /\ UNCHANGED <<prog, dom_frontier, pc, irVars, scanVars, phiVars, define_var, visited, fault, run>>
  BY DEF RenameStore, AtInstr, Update
<1>2. /\ pc = "rename" /\ Frame.stage = "instrs" /\ prog \in Programs /\ bb \in Blocks
      /\ Frame \in FrameT /\ FrameOk(prog, Frame) /\ bb = Frame.bb
      /\ ip \in Nat \ {0} /\ ip < End(prog, bb)
      /\ ip \in Kept(prog, bb) /\ IsLocal(prog, bb, ip, "store")
      /\ u = prog.code[bb][ip].var
      /\ \A v \in Loaded(prog) : Current(v) = TopAt(prog, phis, operand, v, bb, ip)
  BY <1>1, InstrFacts
<1> HIDE DEF ip
<1>3. /\ u \in Locals /\ ip \in Stores(prog, bb, u) /\ ip = LastStore(prog, bb, u, End(prog, bb))
      /\ \A v \in Locals : v # u => ip \notin Stores(prog, bb, v)
      /\ ~ IsLocal(prog, bb, ip, "load") /\ IsLocalOp(prog, bb, ip)
  <2>1. u \in Locals /\ prog.code[bb][ip].op = "store" /\ ip \in Positions(prog, bb)
    BY <1>2 DEF IsLocal, Kept
  <2>2. ip \in Stores(prog, bb, u) /\ \A v \in Locals : v # u => ip \notin Stores(prog, bb, v)
    BY <1>2, <2>1 DEF Stores, Positions
  <2>3. ip = LastStore(prog, bb, u, End(prog, bb))
    BY <1>2, <2>1, <2>2, LastStoreEnd
  <2>4. QED
    BY <1>2, <2>1, <2>2, <2>3 DEF IsLocal, IsLocalOp
<1>4. x \in Values
  BY <1>2, <1>3, PlacedFacts
<1>5. /\ f \in FrameT /\ f.bb = bb /\ f.stage = "instrs" /\ f.succs = Frame.succs /\ f.ip = ip + 1
      /\ f.deletes = Frame.deletes \cup {ip}
  <2>1. ip + 1 \in Nat \ {0} /\ ip \in Nat
    BY <1>2
  <2>2. /\ Frame \in [bb : Blocks, stage : {"phis", "instrs", "succs"}, ip : Nat \ {0},
                      succs : SUBSET Blocks, deletes : SUBSET Nat]
        /\ bb = Frame.bb /\ Frame.stage = "instrs"
    BY <1>2 DEF FrameT
  <2>3. f = [Frame EXCEPT !.ip = ip + 1, !.deletes = Frame.deletes \cup {ip}]
    BY Zenon DEF ToDelete, ip
  <2> HIDE DEF f
  <2>4. QED
    BY <2>1, <2>2, <2>3 DEF FrameT
<1>6. FrameOk(prog, f)
  <2>1. {ip} = {k \in {ip} : k \in Kept(prog, bb) /\ IsLocalOp(prog, bb, k)}
    BY <1>2, <1>3
  <2>2. QED
    BY <1>1, <1>2, <1>5, <2>1, NextFrame, Zenon DEF ip
<1> HIDE DEF f, u, x
<1>7. value_status' \in [Locals -> Seq(Values)]
  <2>1. value_status \in [Locals -> Seq(Values)]
    BY DEF Inv, TypeInv
  <2>2. Append(value_status[u], x) \in Seq(Values)
    BY <1>3, <1>4, <2>1
  <2>3. QED
    BY <1>1, <1>3, <2>1, <2>2
<1>8. ASSUME NEW v \in Loaded(prog) PROVE StackStep(f, v)
  <2> DEFINE s == value_status[v]
             t == value_status'[v]
  <2>1. v \in Locals
    BY DEF Loaded
  <2>2. Sequence(s) /\ Len(s) \in Nat
    BY <2>1, StatusFacts
  <2>3. t = IF v = u THEN Append(s, x) ELSE s
    <3>1. value_status \in [Locals -> Seq(Values)]
      BY Zenon DEF Inv, TypeInv
    <3>2. QED
      BY <1>1, <2>1, <3>1
  <2>8. /\ PushedBy(prog, phis, v, Frame) = PushedBefore(prog, phis, v, bb, ip)
        /\ PushedBy(prog, phis, v, f) = PushedBefore(prog, phis, v, bb, ip + 1)
        /\ TopAt(prog, phis, operand', v, bb, f.ip) = TopAt(prog, phis, operand, v, bb, ip + 1)
    BY <1>1, <1>2, <1>5, Zenon DEF PushedBy, ip, irVars
  <2>4. /\ Current(v)' = (IF t = <<>> THEN NULL ELSE Last(t))
        /\ Current(v) = (IF s = <<>> THEN NULL ELSE Last(s))
    BY DEF Current
  <2>5. CASE v = u
    <3>1. t = Append(s, x)
      BY <2>3, <2>5
    <3> HIDE DEF s, t
    <3>2. Sequence(t) /\ Len(t) = Len(s) + 1 /\ t # <<>> /\ Last(t) = x /\ \A k \in 1 .. Len(s) : t[k] = s[k]
      BY <2>2, <3>1, AppendSequence
    <3>3. /\ Stores(prog, bb, v) # {} /\ LastStore(prog, bb, v, End(prog, bb)) = ip
          /\ ip < ip + 1 /\ ~ (ip < ip)
      <4>1. ip \in Stores(prog, bb, v) /\ ip = LastStore(prog, bb, v, End(prog, bb))
        BY <1>3, <2>5
      <4>2. ip \in Nat
        BY <1>2
      <4>3. ip < ip + 1 /\ ~ (ip < ip)
        BY <4>2
      <4>4. QED
        BY <4>1, <4>3
    <3>4. TopAt(prog, phis, operand, v, bb, ip + 1) = x
      BY <3>3 DEF TopAt, x
    <3>5. PushedBefore(prog, phis, v, bb, ip + 1) = PushedBefore(prog, phis, v, bb, ip) + 1
          /\ PushedBefore(prog, phis, v, bb, ip) \in Nat
      BY <3>3 DEF PushedBefore
    <3>6. Current(v)' = TopAt(prog, phis, operand', v, bb, f.ip)
      BY <2>4, <2>8, <3>2, <3>4
    <3> DEFINE m == Len(s)
               n == Len(t)
               a == PushedBefore(prog, phis, v, bb, ip)
    <3>7. m \in Nat /\ n = m + 1 /\ a \in Nat
      BY <2>2, <3>2, <3>5
    <3>8. PushedBy(prog, phis, v, Frame) = a /\ PushedBy(prog, phis, v, f) = a + 1
      BY <2>8, <3>5
    <3> HIDE DEF m, n, a
    <3>9. m <= n /\ n + PushedBy(prog, phis, v, Frame) = m + PushedBy(prog, phis, v, f)
      BY <3>7, <3>8
    <3>10. QED
      BY <3>2, <3>6, <3>9 DEF StackStep, s, t, m, n
  <2>6. CASE v # u
    <3>1. t = s /\ Current(v)' = Current(v)
      BY <2>3, <2>4, <2>6
    <3>2. /\ PushedBefore(prog, phis, v, bb, ip + 1) = PushedBefore(prog, phis, v, bb, ip)
          /\ TopAt(prog, phis, operand, v, bb, ip + 1) = TopAt(prog, phis, operand, v, bb, ip)
      <4>1. ip \in Nat /\ ~ (ip \in Kept(prog, bb) /\ ip \in Stores(prog, bb, v)) /\ prog \in Programs /\ bb \in Blocks
        <5>1. ip \in Nat /\ prog \in Programs /\ bb \in Blocks
          BY <1>2
        <5>2. ip \notin Stores(prog, bb, v)
          BY <1>3, <2>1, <2>6
        <5>3. QED
          BY <5>1, <5>2
      <4> HIDE DEF s, t
      <4>2. QED
        BY <2>1, <4>1, PushedSkip
    <3>3. Current(v) = TopAt(prog, phis, operand, v, bb, ip)
      BY <1>2, Zenon
    <3> HIDE DEF s, t
    <3>4. QED
      BY <2>2, <2>8, <3>1, <3>2, <3>3 DEF StackStep, s, t
  <2>7. QED
    BY <2>5, <2>6
<1>9. Frame.ip < End(prog, bb) /\ ~ (Frame.ip \in Kept(prog, bb) /\ IsLocal(prog, bb, Frame.ip, "load"))
      /\ f.ip = Frame.ip + 1
  BY <1>2, <1>3, <1>5, Zenon DEF ip
<1>10. QED
  <2>1. PassStep(f)
    BY <1>1, <1>5, <1>6, <1>7, <1>8, <1>9 DEF PassStep
  <2>2. QED
    BY <2>1, PassInstrKeeps

(* Everything else is passed over. *)
LEMMA RenameOtherKeeps ==
  ASSUME Inv, RenameOther
  PROVE  Inv'
<1> DEFINE ip == Frame.ip
           f == [Frame EXCEPT !.ip = @ + 1]
<1>1. /\ InStage("instrs") /\ ip <= Len(Code(bb))
      /\ ip \notin LocalOps(bb, "load") /\ ip \notin LocalOps(bb, "store")
      /\ value_status' = value_status
      /\ frames' = [frames EXCEPT ![Len(frames)] = f]
      /\ UNCHANGED <<prog, dom_frontier, pc, irVars, scanVars, phiVars, define_var, visited, fault, run>>
  BY DEF RenameOther, Update
<1>2. /\ pc = "rename" /\ Frame.stage = "instrs" /\ prog \in Programs /\ bb \in Blocks
      /\ Frame \in FrameT /\ FrameOk(prog, Frame) /\ bb = Frame.bb
      /\ ip \in Nat \ {0} /\ ip < End(prog, bb)
      /\ ~ (ip \in Kept(prog, bb) /\ IsLocal(prog, bb, ip, "store"))
      /\ ~ (ip \in Kept(prog, bb) /\ IsLocal(prog, bb, ip, "load"))
      /\ \A v \in Loaded(prog) : Current(v) = TopAt(prog, phis, operand, v, bb, ip)
  BY <1>1, InstrFacts
<1> HIDE DEF ip
<1>3. \A v \in Locals : ~ (ip \in Kept(prog, bb) /\ ip \in Stores(prog, bb, v))
  BY <1>2, StoresFacts DEF IsLocal
<1>4. /\ f \in FrameT /\ f.bb = bb /\ f.stage = "instrs" /\ f.succs = Frame.succs /\ f.ip = ip + 1
      /\ f.deletes = Frame.deletes
  <2>1. ip + 1 \in Nat \ {0}
    BY <1>2
  <2>2. f = [Frame EXCEPT !.ip = ip + 1]
    BY DEF ip
  <2> HIDE DEF f
  <2>3. QED
    BY <1>2, <2>1, <2>2 DEF FrameT
<1> HIDE DEF f
<1>5. FrameOk(prog, f)
  <2>1. {} = {k \in {ip} : k \in Kept(prog, bb) /\ IsLocalOp(prog, bb, k)}
    BY <1>2 DEF IsLocalOp
  <2>2. f.deletes = Frame.deletes \cup {k \in {ip} : k \in Kept(prog, bb) /\ IsLocalOp(prog, bb, k)}
    BY <1>4, <2>1
  <2>3. QED
    BY <1>1, <1>2, <1>4, <2>2, NextFrame DEF ip
<1>6. value_status' \in [Locals -> Seq(Values)]
  BY <1>1 DEF Inv, TypeInv
<1>7. ASSUME NEW v \in Loaded(prog) PROVE StackStep(f, v)
  <2>1. v \in Locals
    BY DEF Loaded
  <2>2. Len(value_status[v]) \in Nat /\ Sequence(value_status[v])
    BY <2>1, StatusFacts
  <2>7. /\ PushedBy(prog, phis, v, Frame) = PushedBefore(prog, phis, v, bb, ip)
        /\ PushedBy(prog, phis, v, f) = PushedBefore(prog, phis, v, bb, ip + 1)
        /\ TopAt(prog, phis, operand', v, bb, f.ip) = TopAt(prog, phis, operand, v, bb, ip + 1)
    BY <1>1, <1>2, <1>4 DEF PushedBy, ip, irVars
  <2>3. /\ PushedBefore(prog, phis, v, bb, ip + 1) = PushedBefore(prog, phis, v, bb, ip)
        /\ TopAt(prog, phis, operand, v, bb, ip + 1) = TopAt(prog, phis, operand, v, bb, ip)
    BY <1>2, <1>3, <2>1, PushedSkip
  <2>4. value_status'[v] = value_status[v] /\ Current(v)' = Current(v)
    BY <1>1 DEF Current
  <2>5. Current(v) = TopAt(prog, phis, operand, v, bb, ip)
    BY <1>2
  <2>6. QED
    BY <2>2, <2>3, <2>4, <2>5, <2>7 DEF StackStep
<1>8. Frame.ip < End(prog, bb) /\ ~ (Frame.ip \in Kept(prog, bb) /\ IsLocal(prog, bb, Frame.ip, "load"))
      /\ f.ip = Frame.ip + 1
  BY <1>2, <1>4 DEF ip
<1>9. QED
  <2>1. PassStep(f)
    BY <1>1, <1>4, <1>5, <1>6, <1>7, <1>8 DEF PassStep
  <2>2. QED
    BY <2>1, PassInstrKeeps

(* What the stack of v has on top at the end of a block. *)
LEMMA TopAtEnd ==
  ASSUME NEW p \in Programs, NEW b \in Blocks, NEW v, NEW ph, NEW op
  PROVE  TopAt(p, ph, op, v, b, End(p, b)) = ValueAt(p, ph, op, v, b, End(p, b))
<1>1. LastStore(p, b, v, End(p, b)) # 0 <=> Stores(p, b, v) # {}
  BY LastStoreEnd
<1>2. LastStore(p, b, v, End(p, b)) # 0 => LastStore(p, b, v, End(p, b)) < End(p, b)
  BY PositionsFacts, LastStoreFacts
<1>3. QED
  BY <1>1, <1>2 DEF TopAt, ValueAt

(* The end of a block: each phi of a successor that has a value to take   *)
(* takes the one its local has at the end of the block.                   *)
LEMMA FillArgs ==
  ASSUME Inv, FillPhiOperands, NEW s \in Blocks, NEW v \in Locals
  PROVE  LET args == phi_args[<<s, v>>] IN
         /\ Sequence(args) /\ Len(args) \in Nat /\ args \in Seq(Values \X Blocks)
         /\ IF s \in prog.cfg[bb] /\ s \in PhiBlocks(phis, v)
                 /\ ValueAt(prog, phis, operand, v, bb, End(prog, bb)) # NULL
              THEN /\ phi_args'[<<s, v>>]
                        = Append(args, <<ValueAt(prog, phis, operand, v, bb, End(prog, bb)), bb>>)
                   /\ ValueAt(prog, phis, operand, v, bb, End(prog, bb)) \in Values
              ELSE phi_args'[<<s, v>>] = args
<1> DEFINE x == <<s, v>>
           args == phi_args[x]
           value == ValueAt(prog, phis, operand, v, bb, End(prog, bb))
<1>1. /\ InStage("instrs") /\ Frame.ip > Len(Code(bb))
      /\ phi_args' = [ph \in Phis |->
           IF ph[1] \in Frame.succs /\ HasPhi(ph[1], ph[2]) /\ value_status[ph[2]] # <<>>
             THEN Append(phi_args[ph], <<Current(ph[2]), bb>>) ELSE phi_args[ph]]
  BY DEF FillPhiOperands
<1>2. /\ pc = "rename" /\ Frame.stage = "instrs" /\ prog \in Programs /\ bb \in Blocks
      /\ FrameOk(prog, Frame) /\ bb = Frame.bb
      /\ Frame.ip \in Nat /\ Frame.ip <= End(prog, bb) /\ End(prog, bb) \in Nat
      /\ Frame.ip <= Len(Code(bb)) <=> Frame.ip < End(prog, bb)
      /\ Code(bb) = prog.code[bb]
      /\ \A w \in Loaded(prog) : Current(w) = TopAt(prog, phis, operand, w, bb, Frame.ip)
  BY <1>1, InstrFacts
<1>3. Frame.ip = End(prog, bb)
  <2>1. Len(Code(bb)) \in Nat
    BY <1>2, ProgramFacts
  <2>2. ~ (Frame.ip <= Len(Code(bb)))
    BY <1>1, <1>2, <2>1
  <2>3. QED
    BY <1>2, <2>2
<1>4. Frame.succs = prog.cfg[bb]
  BY <1>2 DEF FrameOk
<1>5. x \in Phis /\ x[1] = s /\ x[2] = v
  BY DEF Phis
<1>6. HasPhi(s, v) <=> s \in PhiBlocks(phis, v)
  BY DEF HasPhi, PhiBlocks
<1>7. args \in Seq(Values \X Blocks)
  BY <1>5 DEF Inv, TypeInv
<1>8. phi_args'[x] = IF s \in prog.cfg[bb] /\ s \in PhiBlocks(phis, v) /\ value_status[v] # <<>>
                       THEN Append(args, <<Current(v), bb>>) ELSE args
  BY <1>1, <1>4, <1>5, <1>6
<1>9. s \in PhiBlocks(phis, v) =>
        /\ Current(v) = value /\ (value_status[v] # <<>> <=> value # NULL)
        /\ value # NULL => value \in Values
  <2>1. s \in PhiBlocks(phis, v) => v \in Loaded(prog)
    BY <1>2, PlacedFacts
  <2>2. v \in Loaded(prog) => Current(v) = value
    BY <1>2, <1>3, TopAtEnd
  <2>3. QED
    BY <2>1, <2>2, StatusFacts
<1> HIDE DEF args, value, x
<1>10. Sequence(args) /\ Len(args) \in Nat
  BY <1>7, TypedSequence, SequenceFacts1
<1>11. IF s \in prog.cfg[bb] /\ s \in PhiBlocks(phis, v) /\ value # NULL
         THEN phi_args'[x] = Append(args, <<value, bb>>) /\ value \in Values
         ELSE phi_args'[x] = args
  BY <1>8, <1>9
<1>12. QED
  BY <1>7, <1>10, <1>11 DEF args, value, x

(* A block that is through gives the phis of its successors the value it   *)
(* ends with.                                                              *)
LEMMA FillPhiOperandsKeeps ==
  ASSUME Inv, FillPhiOperands
  PROVE  Inv'
<1> DEFINE f == [Frame EXCEPT !.stage = "succs"]
<1>1. /\ InStage("instrs") /\ Frame.ip > Len(Code(bb)) /\ phi_args' = [ph \in Phis |-> phi_args'[ph]]
      /\ frames' = [frames EXCEPT ![Len(frames)] = f]
      /\ UNCHANGED <<prog, pc, live>> /\ visited' = visited /\ fault' = fault
      /\ UNCHANGED <<prog, phis, operand>> /\ UNCHANGED <<prog, phis, define_var>>
      /\ UNCHANGED <<prog, dom_frontier, phis, allocas, scanVars, phiVars, define_var, run>>
      /\ value_status' = value_status
  BY DEF FillPhiOperands, Update
<1>2. /\ pc = "rename" /\ Frame.stage = "instrs" /\ prog \in Programs /\ bb \in Blocks
      /\ Frame \in FrameT /\ FrameOk(prog, Frame) /\ bb = Frame.bb /\ bb \in visited
      /\ Frame.ip \in Nat \ {0} /\ Frame.ip <= End(prog, bb) /\ End(prog, bb) \in Nat
      /\ Frame.ip <= Len(Code(bb)) <=> Frame.ip < End(prog, bb)
      /\ Code(bb) = prog.code[bb]
      /\ \A v \in Loaded(prog) : Current(v) = TopAt(prog, phis, operand, v, bb, Frame.ip)
  BY <1>1, InstrFacts
<1>3. Frame.ip = End(prog, bb)
  <2>1. Len(Code(bb)) \in Nat
    BY <1>2, ProgramFacts
  <2>2. ~ (Frame.ip <= Len(Code(bb)))
    BY <1>1, <1>2, <2>1
  <2>3. QED
    BY <1>2, <2>2
<1>4. /\ f \in FrameT /\ f.bb = bb /\ f.stage = "succs" /\ f.succs = Frame.succs /\ f.ip = Frame.ip
      /\ f.deletes = Frame.deletes
  BY <1>2 DEF FrameT
<1> HIDE DEF f
<1>5. FrameOk(prog, f)
  BY <1>2, <1>3, <1>4 DEF FrameOk
<1>6. visited' = visited \cup {bb}
  BY <1>1, <1>2
<1>7. /\ frames' \in Seq(FrameT) /\ frames' # <<>> /\ Len(frames') = Len(frames) /\ Frame' = f
      /\ \A n \in 1 .. Len(frames) : n # Len(frames) => frames'[n] = frames[n]
      /\ FramesInv' /\ VisitedInv' /\ LiveInv'
      /\ \A b \in Blocks : Passed(b)' <=> Passed(b) \/ (b = bb /\ f.stage = "succs")
      /\ \A b \in Blocks : b # bb => Ip(b)' = Ip(b)
      /\ \A b \in Blocks : b = bb => Ip(b)' = f.ip
  <2>1. Frame.stage # "succs" /\ f.stage \in {"instrs", "succs"}
    BY <1>2, <1>4
  <2>2. QED
    BY <1>1, <1>2, <1>4, <1>5, <1>6, <2>1, UpdateTop
<1>8. \A b \in Blocks : Passed(b)' <=> Passed(b) \/ b = bb
  BY <1>4, <1>7
<1>9. phi_args' \in [Phis -> Seq(Values \X Blocks)]
  <2>1. ASSUME NEW x \in Phis PROVE phi_args'[x] \in Seq(Values \X Blocks)
    <3>1. PICK s \in Blocks, v \in Locals : x = <<s, v>>
      BY DEF Phis
    <3> DEFINE args == phi_args[<<s, v>>]
               value == ValueAt(prog, phis, operand, v, bb, End(prog, bb))
    <3>2. /\ args \in Seq(Values \X Blocks)
          /\ phi_args'[<<s, v>>] = args \/ (phi_args'[<<s, v>>] = Append(args, <<value, bb>>) /\ value \in Values)
      BY FillArgs
    <3> HIDE DEF args, value
    <3>3. value \in Values => Append(args, <<value, bb>>) \in Seq(Values \X Blocks)
      BY <1>2, <3>2
    <3>4. QED
      BY <3>1, <3>2, <3>3
  <2>2. QED
    BY <1>1, <2>1
<1>10. TypeInv' /\ PhaseInv' /\ ForwardInv' /\ PhiInv' /\ RunInv' /\ ~ fault'
  <2>1. visited' \in SUBSET Blocks /\ fault' \in BOOLEAN /\ value_status' \in [Locals -> Seq(Values)]
    BY <1>1 DEF Inv, TypeInv
  <2>2. live' \in [Blocks -> SUBSET Nat] /\ operand' \in [Ids -> Ids \cup Phis \cup {NULL}]
    BY <1>1 DEF Inv, TypeInv
  <2>3. OperandsGiven'
    BY <1>1, OperandsGivenKept
  <2>4. ~ fault'
    BY <1>1 DEF Inv
  <2>5. pc' = "rename" /\ pc = "rename"
    BY <1>1, <1>2
  <2>6. frames' \in Seq(FrameT) /\ frames' # <<>>
    BY <1>7
  <2>7. /\ pc' \in {"rename", "remove"} /\ (pc' = "rename" <=> frames' # <<>>)
        /\ (pc' = "remove" => visited' = Blocks)
    BY <2>5, <2>6
  <2>8. TypeInv' /\ PhaseInv' /\ ForwardInv' /\ PhiInv' /\ RunInv'
    BY <1>1, <1>9, <2>1, <2>2, <2>3, <2>4, <2>5, <2>6, <2>7, StillRenaming
  <2>9. QED
    BY <2>4, <2>8
<1>11. OperandsInv'
  <2>0. prog' = prog /\ phis' = phis /\ operand' = operand
    BY <1>1
  <2> SUFFICES ASSUME NEW b \in Blocks PROVE UsesInv(prog, phis, operand, b, Ip(b)')
    BY <2>0 DEF OperandsInv
  <2>1. Ip(bb) = Frame.ip
    BY <1>2, FrameFacts
  <2>2. Ip(b)' = Ip(b)
    BY <1>4, <1>7, <2>1
  <2>3. QED
    BY <1>2, <2>2 DEF Inv, OperandsInv
<1>12. PhiArgsInv'
  <2> SUFFICES ASSUME NEW s \in Blocks, NEW v \in Locals PROVE PhiArgsOf(s, v)'
    BY DEF PhiArgsInv
  <2> DEFINE old == phi_args[<<s, v>>]
             new == phi_args'[<<s, v>>]
             val(b) == ValueAt(prog, phis, operand, v, b, End(prog, b))
             has == s \in PhiBlocks(phis, v)
  <2>1. /\ ~ has => old = <<>>
        /\ \A k \in 1 .. Len(old) : \A b \in Blocks : old[k][2] = b =>
             Passed(b) /\ s \in prog.cfg[b] /\ old[k][1] = val(b)
        /\ has => \A b \in Blocks : Passed(b) /\ s \in prog.cfg[b] /\ val(b) # NULL
             => \E k \in 1 .. Len(old) : old[k][2] = b
    BY <1>2 DEF Inv, PhiArgsInv, PhiArgsOf
  <2>2. /\ Sequence(old) /\ Len(old) \in Nat
        /\ IF s \in prog.cfg[bb] /\ has /\ val(bb) # NULL THEN new = Append(old, <<val(bb), bb>>) ELSE new = old
    BY FillArgs
  <2>3. /\ PhiArgsOf(s, v)' <=>
             /\ ~ has => new = <<>>
             /\ \A k \in 1 .. Len(new) : \A b \in Blocks : new[k][2] = b =>
                  Passed(b)' /\ s \in prog.cfg[b] /\ new[k][1] = val(b)
             /\ has => \A b \in Blocks : Passed(b)' /\ s \in prog.cfg[b] /\ val(b) # NULL
                  => \E k \in 1 .. Len(new) : new[k][2] = b
    BY <1>1 DEF PhiArgsOf
  <2> HIDE DEF old, new, val, has
  <2>4. CASE s \in prog.cfg[bb] /\ has /\ val(bb) # NULL
    <3>1. new = Append(old, <<val(bb), bb>>)
      BY <2>2, <2>4
    <3>2. /\ Len(new) = Len(old) + 1 /\ new[Len(old) + 1] = <<val(bb), bb>>
          /\ \A k \in 1 .. Len(old) : new[k] = old[k]
      BY <2>2, <3>1, AppendSequence
    <3>3. \A k \in 1 .. Len(new) : k \in 1 .. Len(old) \/ k = Len(old) + 1
      BY <2>2, <3>2
    <3>4. ASSUME NEW k \in 1 .. Len(new), NEW b \in Blocks, new[k][2] = b
          PROVE  Passed(b)' /\ s \in prog.cfg[b] /\ new[k][1] = val(b)
      <4>1. CASE k \in 1 .. Len(old)
        BY <1>8, <2>1, <3>2, <3>4, <4>1
      <4>2. CASE k = Len(old) + 1
        <5>1. b = bb /\ new[k][1] = val(bb)
          BY <3>2, <3>4, <4>2
        <5>2. Passed(b)'
          BY <1>8, <5>1
        <5>3. QED
          BY <2>4, <5>1, <5>2
      <4>3. QED
        BY <3>3, <4>1, <4>2
    <3>5. ASSUME NEW b \in Blocks, Passed(b)', s \in prog.cfg[b], val(b) # NULL
          PROVE  \E k \in 1 .. Len(new) : new[k][2] = b
      <4>1. CASE b = bb
        <5>1. Len(old) + 1 \in 1 .. Len(new)
          BY <2>2, <3>2
        <5>2. QED
          BY <3>2, <4>1, <5>1
      <4>2. CASE b # bb
        <5>1. PICK k \in 1 .. Len(old) : old[k][2] = b
          BY <1>8, <2>1, <2>4, <3>5, <4>2
        <5>2. k \in 1 .. Len(new) /\ new[k][2] = b
          BY <2>2, <3>2, <5>1
        <5>3. QED
          BY <5>2
      <4>3. QED
        BY <4>1, <4>2
    <3>6. QED
      BY <2>3, <2>4, <3>4, <3>5
  <2>5. CASE ~ (s \in prog.cfg[bb] /\ has /\ val(bb) # NULL)
    <3>1. new = old
      BY <2>2, <2>5
    <3>2. ASSUME has, NEW b \in Blocks, Passed(b)', s \in prog.cfg[b], val(b) # NULL
          PROVE  \E k \in 1 .. Len(old) : old[k][2] = b
      <4>1. b # bb
        BY <2>5, <3>2
      <4>2. QED
        BY <1>8, <2>1, <3>2, <4>1
    <3>3. \A k \in 1 .. Len(old) : \A b \in Blocks : old[k][2] = b =>
            Passed(b)' /\ s \in prog.cfg[b] /\ old[k][1] = val(b)
      BY <1>8, <2>1
    <3>4. QED
      BY <2>1, <2>3, <3>1, <3>2, <3>3
  <2>6. QED
    BY <2>4, <2>5
<1>13. StackInv'
  <2>1. \A v \in Loaded(prog) : \A n \in 1 .. Len(frames) : n # Len(frames) =>
          ValueAt(prog, phis, operand', v, frames[n].bb, End(prog, frames[n].bb))
            = ValueAt(prog, phis, operand, v, frames[n].bb, End(prog, frames[n].bb))
    BY <1>1
  <2>2. f.stage # "phis" /\ UNCHANGED <<prog, phis, define_var>>
    BY <1>1, <1>4
  <2>3. ASSUME NEW v \in Loaded(prog) PROVE StackStep(f, v)
    <3>1. v \in Locals
      BY DEF Loaded
    <3>2. Len(value_status[v]) \in Nat /\ Sequence(value_status[v])
      BY <3>1, StatusFacts
    <3>3. /\ PushedBy(prog, phis, v, f) = PushedBy(prog, phis, v, Frame)
          /\ TopAt(prog, phis, operand', v, bb, f.ip) = TopAt(prog, phis, operand, v, bb, Frame.ip)
      BY <1>1, <1>2, <1>4 DEF PushedBy
    <3>4. value_status'[v] = value_status[v] /\ Current(v)' = Current(v)
      BY <1>1 DEF Current
    <3>5. QED
      BY <1>2, <3>2, <3>3, <3>4 DEF StackStep
  <2>4. /\ Len(frames') = Len(frames) /\ Frame' = f
        /\ \A n \in 1 .. Len(frames) : n # Len(frames) => frames'[n] = frames[n]
    BY <1>7
  <2>5. QED
    BY <1>2, <1>4, <2>1, <2>2, <2>3, <2>4, StackTop
<1>14. QED
  BY <1>7, <1>10, <1>11, <1>12, <1>13 DEF Inv

(* The stores of v in d have the same operands in op2 as in op. *)
StoresSame(p, op, op2, v, d) == \A j \in Stores(p, d, v) : op2[<<d, j>>] = op[<<d, j>>]

(* The value a block is entered with depends on the operands of stores in   *)
(* blocks that strictly dominate it, and on nothing else.                   *)
LEMMA EntryValSame ==
  ASSUME NEW p \in Programs, NEW ph, NEW op, NEW op2, NEW v, NEW b \in Blocks,
         \A d \in Blocks : T!StrictlyDominates(p.cfg, d, b) => StoresSame(p, op, op2, v, d)
  PROVE  EntryVal(p, ph, op2, v, b) = EntryVal(p, ph, op, v, b)
<1>1. CASE b \in PhiBlocks(ph, v) \/ ~ \E d \in Blocks : IsEntryDef(p, ph, v, d, b)
  BY <1>1 DEF EntryVal
<1>2. CASE b \notin PhiBlocks(ph, v) /\ \E d \in Blocks : IsEntryDef(p, ph, v, d, b)
  <2> DEFINE d == CHOOSE d \in Blocks : IsEntryDef(p, ph, v, d, b)
             j == LastStore(p, d, v, End(p, d))
  <2>1. d \in Blocks /\ IsEntryDef(p, ph, v, d, b)
    BY <1>2
  <2>2. /\ EntryVal(p, ph, op2, v, b) = Left(p, op2, v, d)
        /\ EntryVal(p, ph, op, v, b) = Left(p, op, v, d)
    BY <1>2 DEF EntryVal
  <2> HIDE DEF d
  <2>3. T!StrictlyDominates(p.cfg, d, b)
    BY <2>1 DEF IsEntryDef, T!EntryDef
  <2>4. j # 0 => j \in Stores(p, d, v)
    BY <2>1, PositionsFacts, LastStoreFacts
  <2>5. j # 0 => op2[<<d, j>>] = op[<<d, j>>]
    BY <2>1, <2>3, <2>4 DEF StoresSame
  <2>6. Left(p, op2, v, d) = Left(p, op, v, d)
    BY <2>5 DEF Left
  <2>7. QED
    BY <2>2, <2>6
<1>3. QED
  BY <1>1, <1>2

(* The load n of b is renamed: e takes its place in the operands of b. *)
Renames(p, ph, op, op2, b, n, e) ==
  /\ UsesInv(p, ph, op, b, n) /\ n \in Kept(p, b) /\ IsLocal(p, b, n, "load")
  /\ e = EntryVal(p, ph, op, p.code[b][n].var, b) /\ \A m : Available(p, ph, e, b, m)
  /\ \A v \in Loaded(p) : EntryVal(p, ph, op2, v, b) = EntryVal(p, ph, op, v, b)
  /\ \A v \in Loaded(p) : EntryVal(p, ph, op, v, b) # <<b, n>>
  /\ \A j \in Positions(p, b) : TakesOperand(p, b, j) =>
       op2[<<b, j>>] = IF op[<<b, j>>] = <<b, n>> THEN e ELSE op[<<b, j>>]

(* The operands of b, once the load at n is renamed. *)
LEMMA UsesRenamed ==
  ASSUME NEW p \in Programs, NEW b \in Blocks, NEW ph, NEW op, NEW op2, NEW n, NEW e,
         Renames(p, ph, op, op2, b, n, e)
  PROVE  UsesInv(p, ph, op2, b, n + 1)
<1>0. /\ UsesInv(p, ph, op, b, n) /\ n \in Kept(p, b) /\ IsLocal(p, b, n, "load")
      /\ e = EntryVal(p, ph, op, p.code[b][n].var, b) /\ \A m : Available(p, ph, e, b, m)
      /\ \A v \in Loaded(p) : EntryVal(p, ph, op2, v, b) = EntryVal(p, ph, op, v, b)
      /\ \A v \in Loaded(p) : EntryVal(p, ph, op, v, b) # <<b, n>>
      /\ \A j \in Positions(p, b) : TakesOperand(p, b, j) =>
           op2[<<b, j>>] = IF op[<<b, j>>] = <<b, n>> THEN e ELSE op[<<b, j>>]
  BY DEF Renames
<1> USE <1>0
<1> SUFFICES ASSUME NEW j \in Positions(p, b), TakesOperand(p, b, j)
             PROVE  /\ Located(p, ph, op2, b, j, n + 1)
                    /\ op2[<<b, j>>] = Rep(p, ph, op2, b, p.code[b][j].arg, n + 1)
  BY DEF UsesInv
<1> DEFINE k == p.code[b][j].arg
           u == p.code[b][k].var
           ls == LastStore(p, b, u, k)
           x == op[<<b, j>>]
<1>1. Located(p, ph, op, b, j, n) /\ x = Rep(p, ph, op, b, k, n)
  BY DEF UsesInv
<1>2. k \in 1 .. j - 1 /\ j \in Nat /\ Computes(p, b, k) /\ k \in Positions(p, b) /\ n \in Nat
  BY ProgramFacts, PositionsFacts DEF Computes
<1>3. op2[<<b, j>>] = IF x = <<b, n>> THEN e ELSE x
  OBVIOUS
<1> HIDE DEF k, x
<1>4. Located(p, ph, op2, b, j, n + 1)
  <2>1. CASE x = <<b, n>>
    BY <1>3, <2>1 DEF Located
  <2>2. CASE x # <<b, n>>
    <3>1. ASSUME NEW m \in n .. j - 1, x = <<b, m>> PROVE m \in n + 1 .. j - 1
      <4>1. m # n
        BY <2>2, <3>1
      <4>2. QED
        BY <1>2, <4>1
    <3>2. op2[<<b, j>>] = x
      BY <1>3, <2>2
    <3>3. QED
      BY <1>1, <3>1, <3>2 DEF Located, x
  <2>3. QED
    BY <2>1, <2>2
<1>5. IsLocal(p, b, k, "load") /\ ls = 0 => u \in Loaded(p) /\ u \in Locals
  <2> SUFFICES ASSUME IsLocal(p, b, k, "load"), ls = 0 PROVE u \in Loaded(p) /\ u \in Locals
    OBVIOUS
  <2>1. u \in Locals /\ k \in Loads(p, b, u) /\ ~ IsLocal(p, b, k, "store")
    BY <1>2 DEF IsLocal, Loads, Positions
  <2>2. k \in Kept(p, b)
    BY <1>2, <2>1 DEF Kept
  <2>3. QED
    BY <2>1, <2>2 DEF Loaded
<1>6. ls # 0 => ls \in Positions(p, b) /\ TakesOperand(p, b, ls)
  <2>1. k \in Nat
    BY <1>2, PositionsFacts
  <2>2. ls # 0 => ls \in Stores(p, b, u)
    BY <2>1, LastStoreFacts
  <2>3. QED
    BY <2>2 DEF Stores, TakesOperand, Positions
<1>7. op2[<<b, j>>] = Rep(p, ph, op2, b, k, n + 1)
  <2>1. CASE IsLocal(p, b, k, "load") /\ ls # 0
    <3>1. x = op[<<b, ls>>] /\ Rep(p, ph, op2, b, k, n + 1) = op2[<<b, ls>>]
      BY <1>1, <2>1 DEF Rep
    <3>2. op2[<<b, ls>>] = IF op[<<b, ls>>] = <<b, n>> THEN e ELSE op[<<b, ls>>]
      BY <1>6, <2>1
    <3>3. QED
      BY <1>3, <3>1, <3>2
  <2>2. CASE IsLocal(p, b, k, "load") /\ ls = 0
    <3>1. x = IF k < n THEN EntryVal(p, ph, op, u, b) ELSE <<b, k>>
      BY <1>1, <2>2 DEF Rep
    <3>2. Rep(p, ph, op2, b, k, n + 1) = IF k < n + 1 THEN EntryVal(p, ph, op, u, b) ELSE <<b, k>>
      BY <1>5, <2>2 DEF Rep
    <3>3. EntryVal(p, ph, op, u, b) # <<b, n>>
      BY <1>5, <2>2
    <3>4. CASE k = n
      <4>1. x = <<b, n>>
        BY <1>2, <3>1, <3>4
      <4>2. e = EntryVal(p, ph, op, u, b) /\ k < n + 1
        BY <1>2, <3>4
      <4>3. QED
        BY <1>3, <3>2, <4>1, <4>2
    <3>5. CASE k # n
      <4>1. k < n <=> k < n + 1
        BY <1>2, <3>5
      <4>2. x # <<b, n>>
        BY <3>1, <3>3, <3>5
      <4>3. QED
        BY <1>3, <3>1, <3>2, <4>1, <4>2
    <3>6. QED
      BY <3>4, <3>5
  <2>3. CASE ~ IsLocal(p, b, k, "load")
    <3>1. x = <<b, k>> /\ Rep(p, ph, op2, b, k, n + 1) = <<b, k>> /\ k # n
      BY <1>1, <2>3 DEF Rep
    <3>2. QED
      BY <1>3, <3>1
  <2>4. QED
    BY <2>1, <2>2, <2>3, Zenon
<1>8. QED
  BY <1>4, <1>7 DEF k

(* Nothing changes for a block none of whose operands changes. *)
LEMMA UsesElsewhere ==
  ASSUME NEW p \in Programs, NEW b \in Blocks, NEW ph, NEW op, NEW op2, NEW n,
         UsesInv(p, ph, op, b, n),
         \A j \in Positions(p, b) : TakesOperand(p, b, j) => op2[<<b, j>>] = op[<<b, j>>],
         \A v \in Locals : \A k \in Positions(p, b) : k < n =>
           EntryVal(p, ph, op2, v, b) = EntryVal(p, ph, op, v, b)
  PROVE  UsesInv(p, ph, op2, b, n)
<1> SUFFICES ASSUME NEW j \in Positions(p, b), TakesOperand(p, b, j)
             PROVE  /\ Located(p, ph, op2, b, j, n)
                    /\ op2[<<b, j>>] = Rep(p, ph, op2, b, p.code[b][j].arg, n)
  BY DEF UsesInv
<1> DEFINE k == p.code[b][j].arg
           u == p.code[b][k].var
           ls == LastStore(p, b, u, k)
<1>1. Located(p, ph, op, b, j, n) /\ op[<<b, j>>] = Rep(p, ph, op, b, k, n) /\ op2[<<b, j>>] = op[<<b, j>>]
  BY DEF UsesInv
<1>2. k \in Positions(p, b)
  BY ProgramFacts DEF Computes
<1> HIDE DEF k
<1>3. ls # 0 => op2[<<b, ls>>] = op[<<b, ls>>]
  <2>1. k \in Nat
    BY <1>2, PositionsFacts
  <2>2. ls # 0 => ls \in Stores(p, b, u)
    BY <2>1, LastStoreFacts
  <2>3. ls # 0 => ls \in Positions(p, b) /\ TakesOperand(p, b, ls)
    BY <2>2 DEF Stores, TakesOperand, Positions
  <2>4. QED
    BY <2>3
<1>4. IsLocal(p, b, k, "load") /\ k < n => EntryVal(p, ph, op2, u, b) = EntryVal(p, ph, op, u, b)
  BY <1>2 DEF IsLocal
<1>5. Rep(p, ph, op2, b, k, n) = Rep(p, ph, op, b, k, n)
  BY <1>3, <1>4 DEF Rep
<1>6. QED
  BY <1>1, <1>5 DEF Located, k

(* The load the call on top is at, and the value it is replaced by. *)
Load == <<bb, Frame.ip>>
LoadValue == EntryVal(prog, phis, operand, prog.code[bb][Frame.ip].var, bb)

(* What is on the stack is the value the load would have read, there is    *)
(* one, and it is computed before the load.                                *)
LEMMA RenameLoadFacts ==
  ASSUME Inv, RenameLoad
  PROVE  /\ InStage("instrs") /\ pc = "rename" /\ prog \in Programs /\ bb \in Blocks
         /\ Frame.ip \in Nat \ {0} /\ Frame.ip < End(prog, bb)
         /\ Frame.ip \in Kept(prog, bb) /\ IsLocal(prog, bb, Frame.ip, "load")
         /\ LoadValue \in Values /\ LoadValue # NULL /\ \A n : Available(prog, phis, LoadValue, bb, n)
         /\ \A v \in Loaded(prog) : EntryVal(prog, phis, operand, v, bb) # Load
         /\ fault' = fault
         /\ operand' = [x \in Ids |-> IF operand[x] = Load THEN LoadValue ELSE operand[x]]
         /\ phi_args' = [ph \in Phis |-> [k \in DOMAIN phi_args[ph] |->
              <<IF phi_args[ph][k][1] = Load THEN LoadValue ELSE phi_args[ph][k][1], phi_args[ph][k][2]>>]]
<1> DEFINE ip == Frame.ip
           v == prog.code[bb][ip].var
<1>1. /\ InStage("instrs") /\ ip \in LocalOps(bb, "load")
      /\ fault' = (fault \/ Current(Code(bb)[ip].var) = NULL)
      /\ operand' = [x \in Ids |-> IF operand[x] = Load THEN Current(Code(bb)[ip].var) ELSE operand[x]]
      /\ phi_args' = [ph \in Phis |-> [k \in DOMAIN phi_args[ph] |->
           <<IF phi_args[ph][k][1] = Load THEN Current(Code(bb)[ip].var) ELSE phi_args[ph][k][1],
             phi_args[ph][k][2]>>]]
  BY DEF RenameLoad, AtInstr, Load
<1>2. /\ pc = "rename" /\ prog \in Programs /\ bb \in Blocks
      /\ ip \in Nat \ {0} /\ ip < End(prog, bb)
      /\ ip \in Kept(prog, bb) /\ IsLocal(prog, bb, ip, "load")
      /\ Code(bb) = prog.code[bb]
      /\ \A w \in Loaded(prog) : Current(w) = TopAt(prog, phis, operand, w, bb, ip)
  BY <1>1, InstrFacts
<1> HIDE DEF ip
<1>3. v \in Loaded(prog) /\ v \in Locals /\ ip \in Loads(prog, bb, v) /\ LastStore(prog, bb, v, ip) = 0
  <2>1. v \in Locals /\ ip \in Loads(prog, bb, v) /\ LastStore(prog, bb, v, ip) = 0
    BY <1>2 DEF IsLocal, Loads, Kept, Positions
  <2>2. QED
    BY <1>2, <2>1 DEF Loaded
<1>4. Current(v) = LoadValue
  <2>1. ~ (Stores(prog, bb, v) # {} /\ LastStore(prog, bb, v, End(prog, bb)) < ip)
    <3> SUFFICES ASSUME Stores(prog, bb, v) # {}, LastStore(prog, bb, v, End(prog, bb)) < ip PROVE FALSE
      OBVIOUS
    <3>1. LastStore(prog, bb, v, End(prog, bb)) \in Stores(prog, bb, v)
      BY <1>2, PositionsFacts, LastStoreFacts, LastStoreEnd
    <3>2. QED
      BY <1>2, <1>3, <3>1, LastStoreFacts
  <2>2. QED
    BY <1>2, <1>3, <2>1 DEF TopAt, LoadValue, ip
<1>5. Reached(bb)
  BY <1>2, FrameFacts
<1>6. LoadValue # NULL
  <2>1. /\ Complete(prog, phis, v)
        /\ \A d \in Blocks : \A j \in Stores(prog, d, v) : operand[<<d, j>>] # NULL
    BY <1>2, <1>3, PlacedFacts
  <2>2. QED
    BY <1>2, <1>3, <2>1, LoadDefined DEF LoadValue, ip
<1>7. LoadValue \in Values /\ \A n : Available(prog, phis, LoadValue, bb, n)
  <2>1. LoadValue \in Values
    BY <1>3, <1>4, <1>6, StatusFacts
  <2>2. \A n : Available(prog, phis, LoadValue, bb, n)
    BY <1>2, <1>3, <1>5, <1>6, ReachedAvailable DEF LoadValue, ip
  <2>3. QED
    BY <2>1, <2>2
<1>8. ASSUME NEW w \in Loaded(prog), EntryVal(prog, phis, operand, w, bb) = Load PROVE FALSE
  <2>1. Load # NULL
    BY <1>2, ValueFacts DEF Load, ip
  <2>2. Available(prog, phis, Load, bb, 1)
    BY <1>2, <1>5, <1>8, <2>1, ReachedAvailable
  <2>3. InPlace(prog, phis, Load)
    BY <2>2 DEF Available
  <2>4. QED
    BY <1>2, <2>3, InPlaceFacts DEF Load, ip
<1>9. fault' = fault
  <2>1. fault = FALSE
    BY DEF Inv, TypeInv
  <2>2. fault' = (fault \/ Current(v) = NULL)
    BY <1>1, <1>2
  <2>3. Current(v) # NULL
    BY <1>4, <1>6
  <2>4. QED
    BY <2>1, <2>2, <2>3
<1>10. Code(bb)[ip].var = v
  BY <1>2
<1>11. Current(Code(bb)[ip].var) = LoadValue
  BY <1>4, <1>10
<1>12. QED
  BY <1>1, <1>2, <1>6, <1>7, <1>8, <1>9, <1>11 DEF ip

(* What is in place, and what a passed block stores, is no load. *)
LEMMA LoadNotOperand ==
  ASSUME Inv, RenameLoad
  PROVE  /\ \A x : InPlace(prog, phis, x) => x # Load
         /\ \A b \in Blocks : b # bb => \A j \in Positions(prog, b) :
              TakesOperand(prog, b, j) => operand[<<b, j>>] # Load
         /\ \A b \in Blocks : Passed(b) => b # bb
         /\ \A j \in Positions(prog, bb) : TakesOperand(prog, bb, j) /\ j < Frame.ip =>
              operand[<<bb, j>>] # Load
<1>1. /\ pc = "rename" /\ prog \in Programs /\ bb \in Blocks /\ Frame.ip \in Nat \ {0}
      /\ IsLocal(prog, bb, Frame.ip, "load") /\ InStage("instrs")
  BY RenameLoadFacts
<1>2. ASSUME NEW x, InPlace(prog, phis, x) PROVE x # Load
  BY <1>1, <1>2, InPlaceFacts DEF Load
<1>3. ASSUME NEW b \in Blocks, b # bb, NEW j \in Positions(prog, b), TakesOperand(prog, b, j)
      PROVE  operand[<<b, j>>] # Load
  <2>1. Located(prog, phis, operand, b, j, Ip(b))
    BY <1>1, <1>3 DEF Inv, OperandsInv, UsesInv
  <2>2. CASE Available(prog, phis, operand[<<b, j>>], b, j)
    BY <1>2, <2>2 DEF Available
  <2>3. CASE ~ Available(prog, phis, operand[<<b, j>>], b, j)
    BY <1>3, <2>1, <2>3 DEF Located, Load
  <2>4. QED
    BY <2>2, <2>3
<1>4. ASSUME NEW b \in Blocks, Passed(b) PROVE b # bb
  BY <1>1, <1>4, FrameFacts DEF Passed, InStage, bb
<1>5. ASSUME NEW j \in Positions(prog, bb), TakesOperand(prog, bb, j), j < Frame.ip
      PROVE  operand[<<bb, j>>] # Load
  <2>1. Located(prog, phis, operand, bb, j, Frame.ip)
    BY <1>1, <1>5, FrameFacts DEF UsesInv
  <2>2. Frame.ip .. j - 1 = {}
    BY <1>1, <1>5, PositionsFacts
  <2>3. Available(prog, phis, operand[<<bb, j>>], bb, j)
    BY <2>1, <2>2 DEF Located
  <2>4. QED
    BY <1>2, <2>3 DEF Available
<1>6. QED
  BY <1>2, <1>3, <1>4, <1>5

(* So renaming a load leaves what the blocks reached are entered with, and  *)
(* what the blocks passed end with.                                         *)
LEMMA RenameLoadValues ==
  ASSUME Inv, RenameLoad
  PROVE  /\ \A b \in Blocks : b # bb => \A j \in Positions(prog, b) :
              TakesOperand(prog, b, j) => operand'[<<b, j>>] = operand[<<b, j>>]
         /\ \A j \in Positions(prog, bb) : TakesOperand(prog, bb, j) =>
              operand'[<<bb, j>>] = IF operand[<<bb, j>>] = Load THEN LoadValue ELSE operand[<<bb, j>>]
         /\ \A b \in Blocks : Reached(b) => \A v \in Locals :
              EntryVal(prog, phis, operand', v, b) = EntryVal(prog, phis, operand, v, b)
         /\ \A b \in Blocks : Passed(b) => \A v \in Locals :
              ValueAt(prog, phis, operand', v, b, End(prog, b)) = ValueAt(prog, phis, operand, v, b, End(prog, b))
         /\ phi_args' = phi_args
<1>1. /\ pc = "rename" /\ prog \in Programs /\ bb \in Blocks
      /\ operand' = [x \in Ids |-> IF operand[x] = Load THEN LoadValue ELSE operand[x]]
      /\ phi_args' = [ph \in Phis |-> [k \in DOMAIN phi_args[ph] |->
              <<IF phi_args[ph][k][1] = Load THEN LoadValue ELSE phi_args[ph][k][1], phi_args[ph][k][2]>>]]
  BY RenameLoadFacts
<1>2. ASSUME NEW b \in Blocks, NEW j \in Positions(prog, b)
      PROVE  operand'[<<b, j>>] = IF operand[<<b, j>>] = Load THEN LoadValue ELSE operand[<<b, j>>]
  <2>1. <<b, j>> \in Ids
    BY <1>1, IdFacts
  <2>2. QED
    BY <1>1, <2>1
<1>3. ASSUME NEW b \in Blocks, b # bb, NEW j \in Positions(prog, b), TakesOperand(prog, b, j)
      PROVE  operand'[<<b, j>>] = operand[<<b, j>>]
  BY <1>2, <1>3, LoadNotOperand
<1>4. ASSUME NEW d \in Blocks, Passed(d), NEW v \in Locals
      PROVE  StoresSame(prog, operand, operand', v, d)
  <2> SUFFICES ASSUME NEW j \in Stores(prog, d, v) PROVE operand'[<<d, j>>] = operand[<<d, j>>]
    BY DEF StoresSame
  <2>1. j \in Positions(prog, d) /\ TakesOperand(prog, d, j)
    BY DEF Stores, Positions, TakesOperand
  <2>2. d # bb
    BY <1>4, LoadNotOperand
  <2>3. QED
    BY <1>3, <2>1, <2>2
<1>5. ASSUME NEW b \in Blocks, Reached(b), NEW v \in Locals
      PROVE  EntryVal(prog, phis, operand', v, b) = EntryVal(prog, phis, operand, v, b)
  <2>1. \A d \in Blocks : T!StrictlyDominates(prog.cfg, d, b) => Passed(d)
    BY <1>5 DEF Inv, VisitedInv
  <2>2. \A d \in Blocks : T!StrictlyDominates(prog.cfg, d, b) => StoresSame(prog, operand, operand', v, d)
    BY <1>4, <2>1
  <2>3. QED
    <3>1. prog \in Programs
      BY <1>1
    <3>2. QED
      BY <2>2, <3>1, EntryValSame
<1>6. ASSUME NEW b \in Blocks, Passed(b), NEW v \in Locals
      PROVE  ValueAt(prog, phis, operand', v, b, End(prog, b)) = ValueAt(prog, phis, operand, v, b, End(prog, b))
  <2> DEFINE j == LastStore(prog, b, v, End(prog, b))
  <2>1. Reached(b)
    BY <1>6 DEF Passed, Reached
  <2>2. j # 0 => j \in Stores(prog, b, v)
    BY <1>1, PositionsFacts, LastStoreFacts
  <2>3. j # 0 => operand'[<<b, j>>] = operand[<<b, j>>]
    BY <1>4, <1>6, <2>2 DEF StoresSame
  <2>4. EntryVal(prog, phis, operand', v, b) = EntryVal(prog, phis, operand, v, b)
    BY <1>5, <2>1
  <2>5. QED
    BY <2>3, <2>4 DEF ValueAt
<1>7. ASSUME NEW x \in Phis PROVE phi_args'[x] = phi_args[x]
  <2>1. PICK s \in Blocks, v \in Locals : x = <<s, v>>
    BY DEF Phis
  <2> DEFINE args == phi_args[x]
  <2>2. args \in Seq(Values \X Blocks) /\ PhiArgsOf(s, v)
    BY <1>1 DEF Inv, TypeInv, PhiArgsInv
  <2>3. /\ s \notin PhiBlocks(phis, v) => args = <<>>
        /\ \A k \in 1 .. Len(args) : \A b \in Blocks : args[k][2] = b =>
             Passed(b) /\ args[k][1] = ValueAt(prog, phis, operand, v, b, End(prog, b))
    BY <2>1, <2>2 DEF PhiArgsOf
  <2>4. phi_args'[x] = [k \in DOMAIN args |-> <<IF args[k][1] = Load THEN LoadValue ELSE args[k][1], args[k][2]>>]
    BY <1>1
  <2> HIDE DEF args
  <2>5. /\ Sequence(args) /\ Len(args) \in Nat /\ DOMAIN args = 1 .. Len(args)
        /\ \A k \in 1 .. Len(args) : args[k] \in Values \X Blocks
        /\ args = <<>> <=> Len(args) = 0
    BY <2>2, TypedSequence, SequenceFacts1
  <2>6. ASSUME NEW k \in 1 .. Len(args) PROVE args[k][1] # Load
    <3> DEFINE b == args[k][2]
               value == args[k][1]
               j == LastStore(prog, b, v, End(prog, b))
    <3>1. b \in Blocks /\ value \in Values
      BY <2>5
    <3>2. Passed(b) /\ value = ValueAt(prog, phis, operand, v, b, End(prog, b))
      BY <2>3, <3>1
    <3>3. v \in Loaded(prog)
      <4>1. s \in PhiBlocks(phis, v)
        BY <2>3, <2>5
      <4>2. QED
        BY <1>1, <4>1, PlacedFacts
    <3>4. value # NULL
      BY <3>1, ValueFacts DEF Values
    <3> HIDE DEF b, value
    <3>5. CASE j # 0
      <4>1. j \in Stores(prog, b, v)
        BY <1>1, <3>1, <3>5, PositionsFacts, LastStoreFacts
      <4>2. Available(prog, phis, operand[<<b, j>>], b, j)
        BY <1>1, <3>1, <3>2, <4>1, PassedAvailable DEF StoresAvailable
      <4>3. value = operand[<<b, j>>]
        BY <3>2, <3>5 DEF ValueAt
      <4>4. QED
        BY <4>2, <4>3, LoadNotOperand DEF Available, value
    <3>6. CASE j = 0
      <4>1. value = EntryVal(prog, phis, operand, v, b)
        BY <3>2, <3>6 DEF ValueAt
      <4>2. Reached(b)
        BY <3>2 DEF Passed, Reached
      <4>3. Available(prog, phis, value, b, 1)
        BY <1>1, <3>1, <3>3, <3>4, <4>1, <4>2, ReachedAvailable
      <4>4. QED
        BY <4>3, LoadNotOperand DEF Available, value
    <3>7. QED
      BY <3>5, <3>6
  <2>7. \A k \in 1 .. Len(args) :
          <<IF args[k][1] = Load THEN LoadValue ELSE args[k][1], args[k][2]>> = args[k]
    BY <2>5, <2>6
  <2>8. phi_args'[x] = [k \in 1 .. Len(args) |-> args[k]]
    BY <2>4, <2>5, <2>7
  <2>9. args = [k \in 1 .. Len(args) |-> args[k]]
    BY <2>2, <2>5
  <2>10. QED
    BY <2>8, <2>9 DEF args
<1>8. phi_args' = phi_args
  <2>1. phi_args \in [Phis -> Seq(Values \X Blocks)]
    BY DEF Inv, TypeInv
  <2>2. DOMAIN phi_args' = Phis /\ phi_args' = [x \in Phis |-> phi_args'[x]]
    BY <1>1
  <2>3. QED
    BY <1>7, <2>1, <2>2
<1>9. QED
  BY <1>1, <1>2, <1>3, <1>5, <1>6, <1>8

(* The phi operands are as they were, and so is what passed blocks end with. *)
LEMMA PhiArgsSame ==
  ASSUME Inv, pc = "rename", UNCHANGED <<prog, phis, phi_args>>,
         \A b \in Blocks : Passed(b)' <=> Passed(b),
         \A b \in Blocks : Passed(b) => \A v \in Locals :
           ValueAt(prog, phis, operand', v, b, End(prog, b)) = ValueAt(prog, phis, operand, v, b, End(prog, b))
  PROVE  PhiArgsInv'
<1> SUFFICES ASSUME NEW s \in Blocks, NEW v \in Locals PROVE PhiArgsOf(s, v)'
  BY DEF PhiArgsInv
<1> DEFINE args == phi_args[<<s, v>>]
           old(b) == ValueAt(prog, phis, operand, v, b, End(prog, b))
           new(b) == ValueAt(prog, phis, operand', v, b, End(prog, b))
           has == s \in PhiBlocks(phis, v)
<1>1. /\ ~ has => args = <<>>
      /\ \A k \in 1 .. Len(args) : \A b \in Blocks : args[k][2] = b =>
           Passed(b) /\ s \in prog.cfg[b] /\ args[k][1] = old(b)
      /\ has => \A b \in Blocks : Passed(b) /\ s \in prog.cfg[b] /\ old(b) # NULL
           => \E k \in 1 .. Len(args) : args[k][2] = b
  BY DEF Inv, PhiArgsInv, PhiArgsOf
<1>2. \A b \in Blocks : Passed(b) => new(b) = old(b)
  OBVIOUS
<1>3. PhiArgsOf(s, v)' <=>
        /\ ~ has => args = <<>>
        /\ \A k \in 1 .. Len(args) : \A b \in Blocks : args[k][2] = b =>
             Passed(b)' /\ s \in prog.cfg[b] /\ args[k][1] = new(b)
        /\ has => \A b \in Blocks : Passed(b)' /\ s \in prog.cfg[b] /\ new(b) # NULL
             => \E k \in 1 .. Len(args) : args[k][2] = b
  BY DEF PhiArgsOf
<1> HIDE DEF args, old, new, has
<1>4. QED
  BY <1>1, <1>2, <1>3

(* A load that no store of its block comes before. *)
LEMMA RenameLoadKeeps ==
  ASSUME Inv, RenameLoad
  PROVE  Inv'
<1> DEFINE ip == Frame.ip
           f == ToDelete
<1>1. /\ frames' = [frames EXCEPT ![Len(frames)] = f]
      /\ UNCHANGED <<prog, pc, live>> /\ UNCHANGED <<prog, phis>> /\ visited' = visited
      /\ UNCHANGED <<prog, phis, define_var>> /\ value_status' = value_status
      /\ UNCHANGED <<prog, dom_frontier, phis, allocas, scanVars, phiVars, define_var, run>>
  BY DEF RenameLoad, Update
<1>2. /\ InStage("instrs") /\ pc = "rename" /\ prog \in Programs /\ bb \in Blocks
      /\ ip \in Nat \ {0} /\ ip < End(prog, bb)
      /\ ip \in Kept(prog, bb) /\ IsLocal(prog, bb, ip, "load")
      /\ LoadValue \in Values /\ LoadValue # NULL /\ \A n : Available(prog, phis, LoadValue, bb, n)
      /\ \A v \in Loaded(prog) : EntryVal(prog, phis, operand, v, bb) # Load
      /\ fault' = fault
      /\ operand' = [x \in Ids |-> IF operand[x] = Load THEN LoadValue ELSE operand[x]]
  BY RenameLoadFacts
<1>3. /\ Frame.stage = "instrs" /\ Frame \in FrameT /\ FrameOk(prog, Frame) /\ bb = Frame.bb /\ bb \in visited
      /\ \A v \in Loaded(prog) : Current(v) = TopAt(prog, phis, operand, v, bb, ip)
  BY <1>2, InstrFacts
<1> HIDE DEF ip
<1>4. /\ f \in FrameT /\ f.bb = bb /\ f.stage = "instrs" /\ f.succs = Frame.succs /\ f.ip = ip + 1
      /\ f.deletes = Frame.deletes \cup {ip}
  <2>1. ip + 1 \in Nat \ {0} /\ ip \in Nat
    BY <1>2
  <2>2. /\ Frame \in [bb : Blocks, stage : {"phis", "instrs", "succs"}, ip : Nat \ {0},
                      succs : SUBSET Blocks, deletes : SUBSET Nat]
        /\ bb = Frame.bb /\ Frame.stage = "instrs"
    BY <1>3 DEF FrameT
  <2>3. f = [Frame EXCEPT !.ip = ip + 1, !.deletes = Frame.deletes \cup {ip}]
    BY DEF ToDelete, ip
  <2> HIDE DEF f
  <2>4. QED
    BY <2>1, <2>2, <2>3 DEF FrameT
<1> HIDE DEF f
<1>5. FrameOk(prog, f)
  <2>1. {ip} = {k \in {ip} : k \in Kept(prog, bb) /\ IsLocalOp(prog, bb, k)}
    BY <1>2 DEF IsLocalOp
  <2>2. QED
    BY <1>2, <1>4, <2>1, NextFrame DEF ip
<1>6. visited' = visited \cup {bb}
  BY <1>1, <1>3
<1>7. /\ frames' \in Seq(FrameT) /\ frames' # <<>> /\ Len(frames') = Len(frames) /\ Frame' = f
      /\ \A n \in 1 .. Len(frames) : n # Len(frames) => frames'[n] = frames[n]
      /\ FramesInv' /\ VisitedInv' /\ LiveInv'
      /\ \A b \in Blocks : Passed(b)' <=> Passed(b) \/ (b = bb /\ f.stage = "succs")
      /\ \A b \in Blocks : b # bb => Ip(b)' = Ip(b)
      /\ \A b \in Blocks : b = bb => Ip(b)' = f.ip
  <2>1. Frame.stage # "succs" /\ f.stage \in {"instrs", "succs"}
    BY <1>3, <1>4
  <2>2. QED
    BY <1>1, <1>2, <1>4, <1>5, <1>6, <2>1, UpdateTop
<1>8. \A b \in Blocks : Passed(b)' <=> Passed(b)
  <2>1. f.stage # "succs"
    BY <1>4
  <2>2. QED
    BY <1>7, <2>1
<1>9. /\ phi_args' = phi_args
      /\ \A b \in Blocks : b # bb => \A j \in Positions(prog, b) :
           TakesOperand(prog, b, j) => operand'[<<b, j>>] = operand[<<b, j>>]
      /\ \A b \in Blocks : Reached(b) => \A v \in Locals :
           EntryVal(prog, phis, operand', v, b) = EntryVal(prog, phis, operand, v, b)
      /\ \A b \in Blocks : Passed(b) => \A v \in Locals :
           ValueAt(prog, phis, operand', v, b, End(prog, b)) = ValueAt(prog, phis, operand, v, b, End(prog, b))
  BY RenameLoadValues
<1>10. operand' \in [Ids -> Ids \cup Phis \cup {NULL}] /\ OperandsGiven'
  <2>1. operand \in [Ids -> Ids \cup Phis \cup {NULL}]
    BY DEF Inv, TypeInv
  <2>2. operand' \in [Ids -> Ids \cup Phis \cup {NULL}]
    BY <1>2, <2>1 DEF Values
  <2>3. OperandsGiven
    <3>1. TypeInv
      BY DEF Inv
    <3>2. QED
      BY <3>1, Zenon DEF TypeInv, OperandsGiven
  <2>4. ASSUME NEW b \in Blocks, NEW k \in Positions(prog, b)
        PROVE  operand'[<<b, k>>] = NULL <=> ~ TakesOperand(prog, b, k)
    <3>1. operand[<<b, k>>] = NULL <=> ~ TakesOperand(prog, b, k)
      BY <2>3, Zenon DEF OperandsGiven
    <3>2. <<b, k>> \in Ids
      BY <1>2, IdFacts
    <3>3. Load # NULL
      BY <1>2, ValueFacts DEF Load, ip
    <3>4. operand'[<<b, k>>] = NULL <=> operand[<<b, k>>] = NULL
      BY <1>2, <3>2, <3>3
    <3>5. QED
      BY <3>1, <3>4
  <2>5. prog' = prog
    BY <1>1
  <2>6. OperandsGiven'
    BY <2>4, <2>5, Zenon DEF OperandsGiven
  <2>7. QED
    BY <2>2, <2>6
<1>11. TypeInv' /\ PhaseInv' /\ ForwardInv' /\ PhiInv' /\ RunInv' /\ ~ fault'
  <2>1. visited' \in SUBSET Blocks /\ fault' \in BOOLEAN /\ value_status' \in [Locals -> Seq(Values)]
    BY <1>1, <1>2 DEF Inv, TypeInv
  <2>2. live' \in [Blocks -> SUBSET Nat] /\ phi_args' \in [Phis -> Seq(Values \X Blocks)]
    BY <1>1, <1>9 DEF Inv, TypeInv
  <2>4. ~ fault'
    BY <1>2 DEF Inv
  <2>5. pc' = "rename" /\ pc = "rename"
    BY <1>1, <1>2
  <2>6. frames' \in Seq(FrameT) /\ frames' # <<>>
    BY <1>7
  <2>7. /\ pc' \in {"rename", "remove"} /\ (pc' = "rename" <=> frames' # <<>>)
        /\ (pc' = "remove" => visited' = Blocks)
    BY <2>5, <2>6
  <2>8. TypeInv' /\ PhaseInv' /\ ForwardInv' /\ PhiInv' /\ RunInv'
    BY <1>1, <1>10, <2>1, <2>2, <2>4, <2>5, <2>6, <2>7, StillRenaming
  <2>9. QED
    BY <2>4, <2>8
<1>12. OperandsInv'
  <2>0. prog' = prog /\ phis' = phis
    BY <1>1
  <2> SUFFICES ASSUME NEW b \in Blocks PROVE UsesInv(prog, phis, operand', b, Ip(b)')
    BY <2>0 DEF OperandsInv
  <2>1. CASE b = bb
    <3>1. UsesInv(prog, phis, operand, bb, ip)
      BY <1>2, FrameFacts DEF ip
    <3>2. \A v \in Loaded(prog) :
            EntryVal(prog, phis, operand', v, bb) = EntryVal(prog, phis, operand, v, bb)
      BY <1>2, <1>9, FrameFacts DEF Loaded
    <3>3. /\ LoadValue = EntryVal(prog, phis, operand, prog.code[bb][ip].var, bb) /\ Load = <<bb, ip>>
      BY DEF LoadValue, Load, ip
    <3>4. \A j \in Positions(prog, bb) : TakesOperand(prog, bb, j) =>
            operand'[<<bb, j>>] = IF operand[<<bb, j>>] = <<bb, ip>> THEN LoadValue ELSE operand[<<bb, j>>]
      BY <3>3, RenameLoadValues
    <3>5. \A v \in Loaded(prog) : EntryVal(prog, phis, operand, v, bb) # <<bb, ip>>
      BY <1>2, <3>3
    <3>6. UsesInv(prog, phis, operand', bb, ip + 1)
      <4>1. Renames(prog, phis, operand, operand', bb, ip, LoadValue)
        BY <1>2, <3>1, <3>2, <3>3, <3>4, <3>5 DEF Renames
      <4>2. QED
        BY <1>2, <4>1, UsesRenamed
    <3>7. Ip(b)' = ip + 1
      <4>1. Ip(b)' = f.ip
        BY <1>7, <2>1
      <4>2. QED
        BY <1>4, <4>1
    <3>8. QED
      BY <2>1, <3>6, <3>7
  <2>2. CASE b # bb
    <3>1. UsesInv(prog, phis, operand, b, Ip(b)) /\ Ip(b)' = Ip(b)
      BY <1>2, <1>7, <2>2 DEF Inv, OperandsInv
    <3>2. \A j \in Positions(prog, b) : TakesOperand(prog, b, j) => operand'[<<b, j>>] = operand[<<b, j>>]
      BY <1>9, <2>2
    <3>3. ASSUME NEW v \in Locals, NEW k \in Positions(prog, b), k < Ip(b)
          PROVE  EntryVal(prog, phis, operand', v, b) = EntryVal(prog, phis, operand, v, b)
      <4>1. k \in Nat /\ 0 < k
        BY <1>2, PositionsFacts
      <4>2. Ip(b) # 1
        BY <3>3, <4>1
      <4>3. Reached(b)
        BY <4>2 DEF Ip, Reached
      <4>4. QED
        BY <1>9, <4>3
    <3> DEFINE n == Ip(b)
    <3> HIDE DEF n
    <3>4. UsesInv(prog, phis, operand', b, n)
      <4>1. UsesInv(prog, phis, operand, b, n) /\ \A v \in Locals : \A k \in Positions(prog, b) : k < n =>
              EntryVal(prog, phis, operand', v, b) = EntryVal(prog, phis, operand, v, b)
        BY <3>1, <3>3 DEF n
      <4>2. QED
        BY <1>2, <3>2, <4>1, UsesElsewhere
    <3>5. QED
      BY <3>1, <3>4 DEF n
  <2>3. QED
    BY <2>1, <2>2
<1>13. PhiArgsInv'
  BY <1>1, <1>2, <1>8, <1>9, PhiArgsSame
<1>14. StackInv'
  <2>1. ASSUME NEW v \in Loaded(prog), NEW n \in 1 .. Len(frames), n # Len(frames)
        PROVE  ValueAt(prog, phis, operand', v, frames[n].bb, End(prog, frames[n].bb))
                 = ValueAt(prog, phis, operand, v, frames[n].bb, End(prog, frames[n].bb))
    <3>1. frames[n].bb \in Blocks /\ frames[n].bb # bb /\ frames[n].bb \in visited
      BY <1>2, <2>1, FrameFacts
    <3>2. Passed(frames[n].bb)
      BY <1>3, <3>1 DEF Passed
    <3>3. v \in Locals
      BY DEF Loaded
    <3>4. QED
      BY <1>9, <3>1, <3>2, <3>3
  <2>2. f.stage # "phis" /\ UNCHANGED <<prog, phis, define_var>>
    BY <1>1, <1>4
  <2>3. ASSUME NEW v \in Loaded(prog) PROVE StackStep(f, v)
    <3>1. v \in Locals
      BY DEF Loaded
    <3>2. Len(value_status[v]) \in Nat /\ Sequence(value_status[v])
      BY <3>1, StatusFacts
    <3>3. /\ PushedBy(prog, phis, v, Frame) = PushedBefore(prog, phis, v, bb, ip)
          /\ PushedBy(prog, phis, v, f) = PushedBefore(prog, phis, v, bb, ip + 1)
          /\ f.ip = ip + 1
      BY <1>3, <1>4 DEF PushedBy, ip
    <3>4. ip \notin Stores(prog, bb, v)
      BY <1>2 DEF IsLocal, Stores
    <3>5. /\ PushedBefore(prog, phis, v, bb, ip + 1) = PushedBefore(prog, phis, v, bb, ip)
          /\ TopAt(prog, phis, operand', v, bb, ip + 1) = TopAt(prog, phis, operand', v, bb, ip)
      <4>1. ip \in Nat /\ prog \in Programs /\ bb \in Blocks
        BY <1>2
      <4>2. QED
        BY <3>1, <3>4, <4>1, PushedSkip
    <3>6. TopAt(prog, phis, operand', v, bb, ip) = TopAt(prog, phis, operand, v, bb, ip)
      <4> DEFINE j == LastStore(prog, bb, v, End(prog, bb))
      <4>1. EntryVal(prog, phis, operand', v, bb) = EntryVal(prog, phis, operand, v, bb)
        BY <1>2, <1>9, <3>1, FrameFacts
      <4>2. ASSUME Stores(prog, bb, v) # {}, j < ip PROVE operand'[<<bb, j>>] = operand[<<bb, j>>]
        <5>1. j \in Stores(prog, bb, v)
          BY <1>2, <4>2, PositionsFacts, LastStoreFacts, LastStoreEnd
        <5>2. j \in Positions(prog, bb) /\ TakesOperand(prog, bb, j)
          BY <5>1 DEF Stores, Positions, TakesOperand
        <5>3. operand[<<bb, j>>] # Load
          BY <4>2, <5>2, LoadNotOperand DEF ip
        <5>4. QED
          BY <5>2, <5>3, RenameLoadValues
      <4>3. QED
        BY <4>1, <4>2 DEF TopAt
    <3>7. value_status'[v] = value_status[v] /\ Current(v)' = Current(v)
      BY <1>1 DEF Current
    <3>8. Current(v) = TopAt(prog, phis, operand, v, bb, ip)
      BY <1>3
    <3>9. QED
      BY <3>2, <3>3, <3>5, <3>6, <3>7, <3>8 DEF StackStep
  <2>4. /\ Len(frames') = Len(frames) /\ Frame' = f
        /\ \A n \in 1 .. Len(frames) : n # Len(frames) => frames'[n] = frames[n]
    BY <1>7
  <2>5. QED
    BY <1>2, <1>4, <2>1, <2>2, <2>3, <2>4, StackTop
<1>15. QED
  BY <1>7, <1>11, <1>12, <1>13, <1>14 DEF Inv

(* The call on top when it takes the successor s of its block. *)
Caller(s) == [Frame EXCEPT !.succs = @ \ {s}]

(* The call and its caller, when a successor is taken. *)
LEMMA SuccFacts ==
  ASSUME Inv, NEW s \in Blocks, VisitSucc(s)
  PROVE  /\ pc = "rename" /\ pc' = pc /\ prog \in Programs /\ bb \in Blocks /\ bb = Frame.bb
         /\ frames \in Seq(FrameT) /\ Len(frames) \in Nat \ {0} /\ Frame = frames[Len(frames)]
         /\ Frame \in FrameT /\ FrameOk(prog, Frame) /\ Frame.stage = "succs"
         /\ s \in Frame.succs /\ s \in prog.cfg[bb] /\ bb \in visited /\ Reached(bb)
         /\ \A n \in 1 .. Len(frames) : frames[n].bb \in Blocks /\ frames[n].bb \in visited
         /\ Caller(s) \in FrameT /\ FrameOk(prog, Caller(s))
         /\ Caller(s).bb = bb /\ Caller(s).stage = "succs" /\ Caller(s).ip = Frame.ip
         /\ Caller(s).succs = Frame.succs \ {s}
         /\ frames' = IF s \in visited THEN [frames EXCEPT ![Len(frames)] = Caller(s)]
                      ELSE Append([frames EXCEPT ![Len(frames)] = Caller(s)], Call(s))
         /\ UNCHANGED <<prog, dom_frontier, phis, allocas, scanVars, phiVars, define_var, run>>
         /\ UNCHANGED <<live, operand, phi_args, visited, value_status, fault, define_var>>
         /\ Frame.ip = End(prog, bb)
<1>1. /\ InStage("succs") /\ s \in Frame.succs /\ pc' = pc
      /\ frames' = IF s \in visited THEN [frames EXCEPT ![Len(frames)] = Caller(s)]
                   ELSE Append([frames EXCEPT ![Len(frames)] = Caller(s)], Call(s))
      /\ UNCHANGED <<prog, dom_frontier, phis, allocas, scanVars, phiVars, define_var, run>>
      /\ UNCHANGED <<live, operand, phi_args, visited, value_status, fault, define_var>>
  BY DEF VisitSucc, Caller, irVars
<1>2. pc = "rename" /\ Frame.stage = "succs"
  BY <1>1 DEF InStage
<1>3. /\ prog \in Programs /\ bb \in Blocks /\ bb = Frame.bb
      /\ frames \in Seq(FrameT) /\ Len(frames) \in Nat \ {0} /\ Frame = frames[Len(frames)]
      /\ Frame \in FrameT /\ FrameOk(prog, Frame) /\ Reached(bb)
      /\ bb \in visited <=> Frame.stage # "phis"
      /\ \A n \in 1 .. Len(frames) : frames[n].bb \in Blocks
      /\ \A n \in 1 .. Len(frames) : n # Len(frames) => frames[n].bb \in visited
  BY <1>2, FrameFacts
<1>4. bb \in visited /\ \A n \in 1 .. Len(frames) : frames[n].bb \in Blocks /\ frames[n].bb \in visited
  BY <1>2, <1>3
<1>5. s \in prog.cfg[bb] /\ Frame.ip = End(prog, bb)
  BY <1>1, <1>2, <1>3 DEF FrameOk
<1>6. /\ Caller(s) \in FrameT /\ Caller(s).bb = bb /\ Caller(s).stage = "succs" /\ Caller(s).ip = Frame.ip
      /\ Caller(s).succs = Frame.succs \ {s} /\ Caller(s).deletes = Frame.deletes
  BY <1>2, <1>3 DEF FrameT, Caller
<1>7. FrameOk(prog, Caller(s))
  BY <1>2, <1>3, <1>6 DEF FrameOk
<1>8. QED
  BY <1>1, <1>2, <1>3, <1>4, <1>5, <1>6, <1>7

(* What a step of the loop over the successors leaves alone. *)
LEMMA StillVisiting ==
  ASSUME Inv, NEW s \in Blocks, VisitSucc(s), frames' \in Seq(FrameT), frames' # <<>>,
         \A b \in Blocks : Passed(b)' <=> Passed(b), \A b \in Blocks : Ip(b)' = Ip(b)
  PROVE  TypeInv' /\ PhaseInv' /\ ForwardInv' /\ PhiInv' /\ RunInv' /\ ~ fault' /\ OperandsInv' /\ PhiArgsInv'
<1>1. /\ pc = "rename" /\ pc' = pc
      /\ UNCHANGED <<prog, dom_frontier, phis, allocas, scanVars, phiVars, define_var, run>>
      /\ UNCHANGED <<live, operand, phi_args, visited, value_status, fault, define_var>>
  BY SuccFacts
<1>2. UNCHANGED <<prog, phis, operand, phi_args>>
  BY <1>1
<1>3. TypeInv' /\ PhaseInv' /\ ForwardInv' /\ PhiInv' /\ RunInv' /\ ~ fault'
  <2>1. visited' \in SUBSET Blocks /\ fault' \in BOOLEAN /\ value_status' \in [Locals -> Seq(Values)]
    BY <1>1 DEF Inv, TypeInv
  <2>2. /\ live' \in [Blocks -> SUBSET Nat] /\ phi_args' \in [Phis -> Seq(Values \X Blocks)]
        /\ operand' \in [Ids -> Ids \cup Phis \cup {NULL}]
    BY <1>1 DEF Inv, TypeInv
  <2>3. OperandsGiven'
    BY <1>2, OperandsGivenKept
  <2>4. ~ fault'
    BY <1>1 DEF Inv
  <2>5. /\ pc' \in {"rename", "remove"} /\ (pc' = "rename" <=> frames' # <<>>)
        /\ (pc' = "remove" => visited' = Blocks)
    BY <1>1
  <2>6. TypeInv' /\ PhaseInv' /\ ForwardInv' /\ PhiInv' /\ RunInv'
    BY <1>1, <2>1, <2>2, <2>3, <2>4, <2>5, StillRenaming
  <2>7. QED
    BY <2>4, <2>6
<1>4. OperandsInv'
  BY <1>1 DEF Inv, OperandsInv
<1>5. PhiArgsInv'
  BY <1>1, <1>2, PhiArgsKept
<1>6. QED
  BY <1>3, <1>4, <1>5

(* A successor that has been visited is passed over. *)
LEMMA StepOverKeeps ==
  ASSUME Inv, NEW s \in Blocks, VisitSucc(s), s \in visited
  PROVE  Inv'
<1> DEFINE L == Len(frames)
<1> HIDE DEF L
<1>1. /\ pc = "rename" /\ pc' = pc /\ prog \in Programs /\ bb \in Blocks /\ bb = Frame.bb
      /\ frames \in Seq(FrameT) /\ L \in Nat \ {0} /\ Frame = frames[L]
      /\ Frame.stage = "succs" /\ s \in Frame.succs /\ bb \in visited
      /\ \A n \in 1 .. L : frames[n].bb \in Blocks /\ frames[n].bb \in visited
      /\ Caller(s) \in FrameT /\ FrameOk(prog, Caller(s))
      /\ Caller(s).bb = bb /\ Caller(s).stage = "succs" /\ Caller(s).ip = Frame.ip
      /\ Caller(s).succs = Frame.succs \ {s}
      /\ frames' = [frames EXCEPT ![L] = Caller(s)]
      /\ UNCHANGED <<prog, live, operand, phis, phi_args, visited, value_status, define_var>>
  BY SuccFacts DEF L
<1>2. /\ frames' \in Seq(FrameT) /\ Len(frames') = L /\ frames'[L] = Caller(s)
      /\ \A n \in 1 .. L : n # L => frames'[n] = frames[n]
  BY <1>1 DEF L
<1>3. frames' # <<>> /\ Frame' = Caller(s)
  <2>1. Len(frames') = L
    BY <1>2
  <2>2. Frame' = frames'[L]
    BY <2>1 DEF Frame
  <2>3. frames' # <<>>
    BY <1>1, <2>1, ShortSequences
  <2>4. QED
    BY <1>2, <2>2, <2>3
<1>4. \A n \in 1 .. L : frames'[n].bb = frames[n].bb /\ frames'[n].stage = frames[n].stage
  BY <1>1, <1>2
<1>5. ASSUME NEW b
      PROVE  (Reached(b)' <=> Reached(b)) /\ (InFrames(b)' <=> InFrames(b)) /\ (Passed(b)' <=> Passed(b))
  <2>1. frames # <<>>
    BY <1>1, ShortSequences DEF L
  <2>2. Reached(b)' <=> Reached(b)
    BY <1>1, <1>3, <2>1 DEF Reached
  <2>3. Passed(b)' <=> Passed(b)
    BY <1>1, <1>3, <2>1 DEF Passed
  <2>4. InFrames(b)' <=> InFrames(b)
    BY <1>2, <1>4 DEF InFrames, L
  <2>5. QED
    BY <2>2, <2>3, <2>4
<1>6. ASSUME NEW b \in Blocks PROVE Ip(b)' = Ip(b)
  <2>1. frames # <<>> /\ End(prog', b) = End(prog, b)
    BY <1>1, ShortSequences DEF L
  <2>2. QED
    BY <1>1, <1>3, <2>1 DEF Ip
<1>7. FramesInv'
  <2>1. ASSUME NEW n \in 1 .. L
        PROVE  /\ FrameOk(prog, frames'[n])
               /\ n < L => /\ frames'[n].stage = "succs"
                           /\ frames'[n + 1].bb \in prog.cfg[frames'[n].bb]
               /\ frames'[n].bb \in visited' <=> (n < L \/ frames'[n].stage # "phis")
               /\ \A m \in 1 .. L : frames'[m].bb = frames'[n].bb => m = n
    <3>1. /\ FrameOk(prog, frames[n])
          /\ n < L => /\ frames[n].stage = "succs"
                      /\ frames[n + 1].bb \in prog.cfg[frames[n].bb]
          /\ frames[n].bb \in visited <=> (n < L \/ frames[n].stage # "phis")
          /\ \A m \in 1 .. L : frames[m].bb = frames[n].bb => m = n
      BY DEF Inv, FramesInv, L
    <3>2. FrameOk(prog, frames'[n])
      BY <1>1, <1>2, <3>1
    <3>3. n < L => frames'[n + 1].bb = frames[n + 1].bb
      BY <1>1, <1>4
    <3>4. visited' = visited
      BY <1>1
    <3>5. QED
      BY <1>4, <3>1, <3>2, <3>3, <3>4
  <2>2. frames'[1].bb = Entry
    <3>1. frames[1].bb = Entry
      BY <1>1, ShortSequences DEF Inv, FramesInv, L
    <3>2. 1 \in 1 .. L
      BY <1>1
    <3>3. QED
      BY <1>4, <3>1, <3>2
  <2>3. prog' = prog /\ Len(frames') = L
    BY <1>1, <1>2
  <2>4. QED
    BY <2>1, <2>2, <2>3 DEF FramesInv
<1>8. VisitedInv'
  <2>0. prog' = prog /\ visited' = visited /\ Len(frames') = L
    BY <1>1, <1>2
  <2>1. ASSUME NEW b \in visited, NEW x \in prog.cfg[b]
        PROVE  Reached(x)' \/ \E n \in 1 .. L : frames'[n].bb = b /\ x \in frames'[n].succs
    <3>1. CASE Reached(x)
      BY <1>5, <3>1
    <3>2. CASE ~ Reached(x)
      <4>1. PICK n \in 1 .. L : frames[n].bb = b /\ x \in frames[n].succs
        BY <3>2 DEF Inv, VisitedInv, L
      <4>2. x # s
        BY <3>2 DEF Reached
      <4>3. x \in frames'[n].succs
        BY <1>1, <1>2, <4>1, <4>2
      <4>4. QED
        BY <1>4, <4>1, <4>3
    <3>3. QED
      BY <3>1, <3>2
  <2>2. Reached(Entry)'
    BY <1>1, <1>5 DEF Inv, VisitedInv
  <2>3. \A b \in Blocks : Reached(b)' =>
          \A d \in Blocks : T!StrictlyDominates(prog.cfg, d, b) => Passed(d)'
    BY <1>5 DEF Inv, VisitedInv
  <2>4. QED
    BY <2>0, <2>1, <2>2, <2>3 DEF VisitedInv
<1>9. LiveInv'
  <2>1. \A b \in Blocks : InFrames(b)' <=> InFrames(b)
    BY <1>5
  <2>2. pc = "rename" /\ pc' = pc /\ live' = live /\ visited' = visited /\ prog' = prog
    BY <1>1
  <2>3. QED
    BY <2>1, <2>2 DEF Inv, LiveInv
<1>10. StackInv'
  <2>1. ASSUME NEW v \in Loaded(prog) PROVE \E h \in [1 .. Len(frames') -> Nat] : Stacked(v, h)'
    <3>1. PICK h \in [1 .. L -> Nat] : Stacked(v, h)
      BY <1>1 DEF Inv, StackInv, L
    <3>2. /\ h[1] = 0
          /\ \A n \in 1 .. L : \A m \in 1 .. n : h[m] <= h[n]
          /\ \A n \in 1 .. L - 1 :
               /\ h[n + 1] = h[n] + Pushes(prog, phis, v, frames[n].bb)
               /\ Element(value_status[v], h[n + 1])
                    = ValueAt(prog, phis, operand, v, frames[n].bb, End(prog, frames[n].bb))
          /\ Len(value_status[v]) = h[L] + PushedBefore(prog, phis, v, bb, Frame.ip)
          /\ Current(v) = TopAt(prog, phis, operand, v, bb, Frame.ip)
      BY <1>1, <3>1 DEF Stacked, L
    <3>3. \A n \in 1 .. L - 1 : frames'[n].bb = frames[n].bb
      BY <1>1, <1>4
    <3>4. /\ Frame'.bb = bb /\ Frame'.ip = Frame.ip /\ Frame'.stage = "succs" /\ Len(frames') = L
          /\ Current(v)' = Current(v) /\ UNCHANGED <<prog, phis, operand, value_status>>
      BY <1>1, <1>2, <1>3 DEF Current
    <3>5. Stacked(v, h)'
      BY <3>2, <3>3, <3>4 DEF Stacked
    <3>6. QED
      BY <3>4, <3>5
  <2>2. prog' = prog /\ phis' = phis /\ define_var' = define_var
    BY <1>1
  <2>3. \A b \in Blocks : \A v \in Locals : define_var[b][v] = Pushes(prog, phis, v, b)
    BY <1>1 DEF Inv, StackInv
  <2>4. QED
    BY <2>1, <2>2, <2>3 DEF StackInv
<1>11. TypeInv' /\ PhaseInv' /\ ForwardInv' /\ PhiInv' /\ RunInv' /\ ~ fault' /\ OperandsInv' /\ PhiArgsInv'
  BY <1>2, <1>3, <1>5, <1>6, StillVisiting
<1>12. QED
  BY <1>7, <1>8, <1>9, <1>10, <1>11 DEF Inv

(* A successor that has not been visited is called. *)
LEMMA CallFrames ==
  ASSUME Inv, NEW s \in Blocks, VisitSucc(s), s \notin visited
  PROVE  /\ frames' \in Seq(FrameT) /\ frames' # <<>> /\ Len(frames') = Len(frames) + 1
         /\ frames'[Len(frames) + 1] = Call(s) /\ Frame' = Call(s)
         /\ frames'[Len(frames)] = Caller(s)
         /\ \A n \in 1 .. Len(frames) : n # Len(frames) => frames'[n] = frames[n]
         /\ Call(s) \in FrameT /\ FrameOk(prog, Call(s))
         /\ Call(s).bb = s /\ Call(s).stage = "phis" /\ Call(s).ip = 1 /\ Call(s).succs = prog.cfg[s]
<1> DEFINE L == Len(frames)
           mid == [frames EXCEPT ![L] = Caller(s)]
<1>1. /\ prog \in Programs /\ frames \in Seq(FrameT) /\ L \in Nat \ {0}
      /\ Caller(s) \in FrameT /\ frames' = Append(mid, Call(s))
  BY SuccFacts
<1>2. Call(s) \in FrameT /\ Call(s).bb = s /\ Call(s).stage = "phis" /\ Call(s).ip = 1
      /\ Call(s).succs = prog.cfg[s] /\ Call(s).deletes = {}
  <2>1. prog.cfg[s] \in SUBSET Blocks
    BY <1>1, ProgramFacts
  <2>2. QED
    BY <2>1 DEF Call, FrameT
<1>3. FrameOk(prog, Call(s))
  <2>1. 1 \in 1 .. End(prog, s)
    BY <1>1, PositionsFacts
  <2>2. {} = {k \in Kept(prog, s) : IsLocalOp(prog, s, k) /\ k < 1}
    BY <1>1, PositionsFacts
  <2>3. QED
    BY <1>2, <2>1, <2>2 DEF FrameOk
<1> HIDE DEF L
<1>4. /\ mid \in Seq(FrameT) /\ Len(mid) = L /\ mid[L] = Caller(s)
      /\ \A n \in 1 .. L : n # L => mid[n] = frames[n]
  BY <1>1 DEF L
<1> HIDE DEF mid
<1>5. /\ frames' \in Seq(FrameT) /\ Len(frames') = L + 1 /\ frames'[L + 1] = Call(s) /\ frames' # <<>>
      /\ \A n \in 1 .. L : frames'[n] = mid[n]
  <2>1. Sequence(mid)
    BY <1>4, TypedSequence
  <2>2. frames' \in Seq(FrameT)
    BY <1>1, <1>2, <1>4
  <2>3. QED
    BY <1>1, <1>4, <2>1, <2>2, AppendSequence
<1>6. Frame' = Call(s)
  <2>1. Frame' = frames'[L + 1]
    BY <1>5 DEF Frame
  <2>2. QED
    BY <1>5, <2>1
<1>7. frames'[L] = Caller(s) /\ \A n \in 1 .. L : n # L => frames'[n] = frames[n]
  BY <1>1, <1>4, <1>5
<1>8. QED
  BY <1>2, <1>3, <1>5, <1>6, <1>7 DEF L

(* A successor that was not seen is called; its stacks start where the     *)
(* caller's are.                                                           *)
LEMMA CallSuccKeeps ==
  ASSUME Inv, NEW s \in Blocks, VisitSucc(s), s \notin visited
  PROVE  Inv'
<1> DEFINE L == Len(frames)
<1> HIDE DEF L
<1>1. /\ pc = "rename" /\ pc' = pc /\ prog \in Programs /\ bb \in Blocks /\ bb = Frame.bb
      /\ frames \in Seq(FrameT) /\ L \in Nat \ {0} /\ Frame = frames[L]
      /\ Frame.stage = "succs" /\ s \in prog.cfg[bb] /\ bb \in visited /\ Reached(bb)
      /\ \A n \in 1 .. L : frames[n].bb \in Blocks /\ frames[n].bb \in visited
      /\ FrameOk(prog, Caller(s)) /\ Caller(s).bb = bb /\ Caller(s).stage = "succs"
      /\ Caller(s).succs = Frame.succs \ {s} /\ Frame.ip = End(prog, bb)
      /\ UNCHANGED <<prog, live, operand, phis, phi_args, visited, value_status, define_var>>
  BY SuccFacts DEF L
<1>2. /\ frames' \in Seq(FrameT) /\ frames' # <<>> /\ Len(frames') = L + 1
      /\ frames'[L + 1] = Call(s) /\ Frame' = Call(s) /\ frames'[L] = Caller(s)
      /\ \A n \in 1 .. L : n # L => frames'[n] = frames[n]
      /\ FrameOk(prog, Call(s))
      /\ Call(s).bb = s /\ Call(s).stage = "phis" /\ Call(s).ip = 1 /\ Call(s).succs = prog.cfg[s]
  BY CallFrames DEF L
<1>3. \A n \in 1 .. L : frames'[n].bb = frames[n].bb /\ frames'[n].stage = frames[n].stage
  BY <1>1, <1>2
<1>4. frames # <<>>
  BY <1>1, ShortSequences DEF L
<1>5. ASSUME NEW b
      PROVE  /\ Reached(b) <=> b \in visited
             /\ Reached(b)' <=> b \in visited \/ b = s
             /\ InFrames(b)' <=> InFrames(b) \/ b = s
             /\ Passed(b) <=> b \in visited
             /\ Passed(b)' <=> b \in visited
  <2>1. Reached(b) <=> b \in visited
    BY <1>1 DEF Reached
  <2>2. Reached(b)' <=> b \in visited \/ b = s
    BY <1>1, <1>2 DEF Reached
  <2>3. Passed(b) <=> b \in visited
    BY <1>1 DEF Passed
  <2>4. Passed(b)' <=> b \in visited
    BY <1>1, <1>2 DEF Passed
  <2>5. InFrames(b)' <=> InFrames(b) \/ b = s
    <3>1. InFrames(b)' <=> \E n \in 1 .. L + 1 : frames'[n].bb = b
      BY <1>2 DEF InFrames
    <3>2. \A n : n \in 1 .. L + 1 <=> n \in 1 .. L \/ n = L + 1
      BY <1>1
    <3>3. InFrames(b) <=> \E n \in 1 .. L : frames[n].bb = b
      BY DEF InFrames, L
    <3>4. QED
      BY <1>2, <1>3, <3>1, <3>2, <3>3
  <2>6. QED
    BY <2>1, <2>2, <2>3, <2>4, <2>5
<1>6. ASSUME NEW b \in Blocks PROVE Ip(b)' = Ip(b)
  <2>1. End(prog', b) = End(prog, b) /\ visited' = visited
    BY <1>1
  <2>2. CASE b \notin visited
    BY <2>1, <2>2 DEF Ip
  <2>3. CASE b \in visited
    <3>1. Ip(b)' = End(prog, b)
      BY <1>2, <2>1, <2>3 DEF Ip
    <3>2. Ip(b) = End(prog, b)
      BY <1>1, <2>3 DEF Ip
    <3>3. QED
      BY <3>1, <3>2
  <2>4. QED
    BY <2>2, <2>3
<1>7. FramesInv'
  <2>0. prog' = prog /\ visited' = visited /\ Len(frames') = L + 1
    BY <1>1, <1>2
  <2>1. ASSUME NEW n \in 1 .. L + 1
        PROVE  /\ FrameOk(prog, frames'[n])
               /\ n < L + 1 => /\ frames'[n].stage = "succs"
                               /\ frames'[n + 1].bb \in prog.cfg[frames'[n].bb]
               /\ frames'[n].bb \in visited <=> (n < L + 1 \/ frames'[n].stage # "phis")
               /\ \A m \in 1 .. L + 1 : frames'[m].bb = frames'[n].bb => m = n
    <3>1. CASE n = L + 1
      <4>1. \A m \in 1 .. L + 1 : m # n => m \in 1 .. L
        BY <1>1, <3>1
      <4>2. \A m \in 1 .. L + 1 : frames'[m].bb = frames'[n].bb => m = n
        BY <1>1, <1>2, <1>3, <3>1, <4>1
      <4>3. ~ (n < L + 1)
        BY <1>1, <3>1
      <4>4. QED
        BY <1>2, <3>1, <4>2, <4>3
    <3>2. CASE n # L + 1
      <4>1. n \in 1 .. L /\ n < L + 1 /\ n + 1 \in 1 .. L + 1
        BY <1>1, <3>2
      <4>2. /\ FrameOk(prog, frames[n])
            /\ n < L => /\ frames[n].stage = "succs"
                        /\ frames[n + 1].bb \in prog.cfg[frames[n].bb]
            /\ \A m \in 1 .. L : frames[m].bb = frames[n].bb => m = n
        BY <4>1 DEF Inv, FramesInv, L
      <4>3. FrameOk(prog, frames'[n]) /\ frames'[n].stage = "succs"
        <5>1. CASE n = L
          BY <1>1, <1>2, <5>1
        <5>2. CASE n # L
          <6>1. frames'[n] = frames[n] /\ n < L
            BY <1>1, <1>2, <4>1, <5>2
          <6>2. QED
            BY <4>2, <6>1
        <5>3. QED
          BY <5>1, <5>2
      <4>4. frames'[n + 1].bb \in prog.cfg[frames'[n].bb]
        <5>1. CASE n = L
          BY <1>1, <1>2, <5>1
        <5>2. CASE n # L
          <6>1. n < L /\ n + 1 \in 1 .. L
            BY <1>1, <4>1, <5>2
          <6>2. QED
            BY <1>3, <4>1, <4>2, <6>1
        <5>3. QED
          BY <5>1, <5>2
      <4>5. frames'[n].bb \in visited
        BY <1>1, <1>3, <4>1
      <4>6. ASSUME NEW m \in 1 .. L + 1, frames'[m].bb = frames'[n].bb PROVE m = n
        <5>1. m # L + 1
          BY <1>2, <4>5, <4>6
        <5>2. m \in 1 .. L
          BY <1>1, <5>1
        <5>3. QED
          BY <1>3, <4>1, <4>2, <4>6, <5>2
      <4>7. QED
        BY <4>1, <4>3, <4>4, <4>5, <4>6
    <3>3. QED
      BY <3>1, <3>2
  <2>2. frames'[1].bb = Entry
    <3>1. frames[1].bb = Entry
      BY <1>4 DEF Inv, FramesInv
    <3>2. 1 \in 1 .. L
      BY <1>1
    <3>3. QED
      BY <1>3, <3>1, <3>2
  <2>3. QED
    BY <2>0, <2>1, <2>2 DEF FramesInv
<1>8. VisitedInv'
  <2>0. prog' = prog /\ visited' = visited /\ Len(frames') = L + 1 /\ pc = "rename" /\ pc' = pc
    BY <1>1, <1>2
  <2>1. ASSUME NEW b \in visited, NEW x \in prog.cfg[b]
        PROVE  Reached(x)' \/ \E n \in 1 .. L + 1 : frames'[n].bb = b /\ x \in frames'[n].succs
    <3>1. CASE Reached(x) \/ x = s
      BY <1>5, <3>1
    <3>2. CASE ~ Reached(x) /\ x # s
      <4>1. PICK n \in 1 .. L : frames[n].bb = b /\ x \in frames[n].succs
        BY <3>2 DEF Inv, VisitedInv, L
      <4>2. x \in frames'[n].succs
        BY <1>1, <1>2, <3>2, <4>1
      <4>3. n \in 1 .. L + 1
        BY <1>1
      <4>4. QED
        BY <1>3, <4>1, <4>2, <4>3
    <3>3. QED
      BY <3>1, <3>2
  <2>2. Reached(Entry)'
    BY <1>1, <1>5 DEF Inv, VisitedInv
  <2>3. ASSUME NEW b \in Blocks, Reached(b)', NEW d \in Blocks, T!StrictlyDominates(prog.cfg, d, b)
        PROVE  Passed(d)'
    <3>1. CASE b \in visited
      BY <1>5, <2>3, <3>1 DEF Inv, VisitedInv
    <3>2. CASE b = s
      <4>1. bb \in T!Preds(prog.cfg, s) /\ prog.cfg \in T!Graphs
        BY <1>1, ProgramFacts DEF T!Preds
      <4>2. T!Dominates(prog.cfg, d, bb)
        BY <2>3, <3>2, <4>1, T!DominatesPredecessor
      <4>3. CASE d = bb
        BY <1>1, <1>5, <4>3
      <4>4. CASE d # bb
        <5>1. T!StrictlyDominates(prog.cfg, d, bb)
          BY <4>2, <4>4 DEF T!StrictlyDominates
        <5>2. Passed(d)
          BY <1>1, <5>1 DEF Inv, VisitedInv
        <5>3. QED
          BY <1>5, <5>2
      <4>5. QED
        BY <4>3, <4>4
    <3>3. QED
      BY <1>5, <2>3, <3>1, <3>2
  <2>4. QED
    BY <2>0, <2>1, <2>2, <2>3 DEF VisitedInv
<1>9. LiveInv'
  <2>1. \A b \in Blocks : b \in visited /\ ~ InFrames(b)' <=> b \in visited /\ ~ InFrames(b)
    BY <1>5
  <2>2. pc = "rename" /\ pc' = pc /\ live' = live /\ visited' = visited /\ prog' = prog
    BY <1>1
  <2>3. QED
    BY <2>1, <2>2 DEF Inv, LiveInv
<1>10. StackInv'
  <2>1. ASSUME NEW v \in Loaded(prog) PROVE \E h \in [1 .. Len(frames') -> Nat] : Stacked(v, h)'
    <3>1. PICK h \in [1 .. L -> Nat] : Stacked(v, h)
      BY <1>1 DEF Inv, StackInv, L
    <3>2. /\ h[1] = 0
          /\ \A n \in 1 .. L : \A m \in 1 .. n : h[m] <= h[n]
          /\ \A n \in 1 .. L - 1 :
               /\ h[n + 1] = h[n] + Pushes(prog, phis, v, frames[n].bb)
               /\ Element(value_status[v], h[n + 1])
                    = ValueAt(prog, phis, operand, v, frames[n].bb, End(prog, frames[n].bb))
          /\ Len(value_status[v]) = h[L] + PushedBefore(prog, phis, v, bb, Frame.ip)
          /\ Current(v) = TopAt(prog, phis, operand, v, bb, Frame.ip)
      BY <1>1, <3>1 DEF Stacked, L
    <3> DEFINE c == Pushes(prog, phis, v, bb)
    <3>3. PushedBefore(prog, phis, v, bb, Frame.ip) = c /\ c \in Nat
      <4>1. Stores(prog, bb, v) # {} => LastStore(prog, bb, v, End(prog, bb)) < End(prog, bb)
        BY <1>1, PositionsFacts, LastStoreFacts, LastStoreEnd
      <4>2. QED
        BY <1>1, <4>1 DEF PushedBefore, Pushes
    <3> HIDE DEF c
    <3>4. PICK g \in [1 .. L + 1 -> Nat] : g[L + 1] = h[L] + c /\ \A n \in 1 .. L : g[n] = h[n]
      <4> DEFINE g == [n \in 1 .. L + 1 |-> IF n = L + 1 THEN h[L] + c ELSE h[n]]
      <4>1. g \in [1 .. L + 1 -> Nat] /\ g[L + 1] = h[L] + c /\ \A n \in 1 .. L : g[n] = h[n]
        BY <1>1, <3>3
      <4>2. QED
        BY <4>1
    <3>5. v \in Locals
      BY DEF Loaded
    <3>6. Element(value_status[v], g[L + 1]) = ValueAt(prog, phis, operand, v, bb, End(prog, bb))
      <4>1. Current(v) = Element(value_status[v], Len(value_status[v]))
        BY <3>5, StatusFacts
      <4>2. Current(v) = ValueAt(prog, phis, operand, v, bb, End(prog, bb))
        BY <1>1, <3>2, TopAtEnd
      <4>3. Len(value_status[v]) = g[L + 1]
        BY <3>2, <3>3, <3>4
      <4>4. QED
        BY <4>1, <4>2, <4>3
    <3>7. ASSUME NEW n \in 1 .. L
          PROVE  /\ g[n + 1] = g[n] + Pushes(prog, phis, v, frames'[n].bb)
                 /\ Element(value_status[v], g[n + 1])
                      = ValueAt(prog, phis, operand, v, frames'[n].bb, End(prog, frames'[n].bb))
      <4>1. CASE n = L
        <5>1. frames'[n].bb = bb /\ g[n + 1] = h[L] + c /\ g[n] = h[L]
          BY <1>1, <1>3, <3>4, <4>1
        <5>2. QED
          BY <3>6, <4>1, <5>1 DEF c
      <4>2. CASE n # L
        <5>1. n \in 1 .. L - 1 /\ n + 1 \in 1 .. L
          BY <1>1, <4>2
        <5>2. g[n + 1] = h[n + 1] /\ g[n] = h[n] /\ frames'[n].bb = frames[n].bb
          BY <1>3, <3>4, <5>1
        <5>3. QED
          BY <3>2, <5>1, <5>2
      <4>3. QED
        BY <4>1, <4>2
    <3>8. ASSUME NEW n \in 1 .. L + 1, NEW m \in 1 .. n PROVE g[m] <= g[n]
      <4>1. CASE n = L + 1
        <5>1. CASE m = n
          BY <1>1, <3>4, <4>1, <5>1
        <5>2. CASE m # n
          <6>1. m \in 1 .. L /\ L \in 1 .. L
            BY <1>1, <4>1, <5>2
          <6>2. h[m] <= h[L] /\ h[m] \in Nat /\ h[L] \in Nat
            BY <3>2, <6>1
          <6>3. QED
            BY <3>3, <3>4, <4>1, <6>1, <6>2
        <5>3. QED
          BY <5>1, <5>2
      <4>2. CASE n # L + 1
        <5>1. n \in 1 .. L /\ m \in 1 .. L
          BY <1>1, <4>2
        <5>2. QED
          BY <3>2, <3>4, <5>1
      <4>3. QED
        BY <4>1, <4>2
    <3>9. g[1] = 0
      BY <1>1, <3>2, <3>4
    <3>10. Len(value_status[v]) = g[L + 1]
      BY <3>2, <3>3, <3>4
    <3>11. /\ Frame'.stage = "phis" /\ Len(frames') = L + 1 /\ L + 1 - 1 = L
           /\ UNCHANGED <<prog, phis, operand, value_status>>
      BY <1>1, <1>2
    <3>12. Stacked(v, g)'
      <4>1. Len(frames') - 1 = L
        BY <1>1, <3>11
      <4>2. \A n \in 1 .. Len(frames') : \A m \in 1 .. n : g[m] <= g[n]
        BY <3>8, <3>11
      <4>3. \A n \in 1 .. Len(frames') - 1 :
              /\ g[n + 1] = g[n] + Pushes(prog', phis', v, frames'[n].bb)
              /\ Element(value_status'[v], g[n + 1])
                   = ValueAt(prog', phis', operand', v, frames'[n].bb, End(prog', frames'[n].bb))
        BY <3>7, <3>11, <4>1
      <4>4. Len(value_status'[v]) = g[Len(frames')]
        BY <3>10, <3>11
      <4>5. QED
        BY <3>9, <3>11, <4>2, <4>3, <4>4, Zenon DEF Stacked
    <3>13. QED
      BY <3>4, <3>11, <3>12
  <2>2. prog' = prog /\ phis' = phis /\ define_var' = define_var
    BY <1>1
  <2>3. \A b \in Blocks : \A v \in Locals : define_var[b][v] = Pushes(prog, phis, v, b)
    BY <1>1 DEF Inv, StackInv
  <2>4. QED
    BY <2>1, <2>2, <2>3 DEF StackInv
<1>11. TypeInv' /\ PhaseInv' /\ ForwardInv' /\ PhiInv' /\ RunInv' /\ ~ fault' /\ OperandsInv' /\ PhiArgsInv'
  BY <1>2, <1>5, <1>6, StillVisiting
<1>12. QED
  BY <1>7, <1>8, <1>9, <1>10, <1>11 DEF Inv

(* The loop over the successors.                                           *)
LEMMA VisitSuccKeeps ==
  ASSUME Inv, NEW s \in Blocks, VisitSucc(s)
  PROVE  Inv'
<1>1. CASE s \in visited
  BY <1>1, StepOverKeeps
<1>2. CASE s \notin visited
  BY <1>2, CallSuccKeeps
<1>3. QED
  BY <1>1, <1>2

(* The return of the call on top, and the call it goes back to. *)
LEMMA LeaveFacts ==
  ASSUME Inv, LeaveBlock
  PROVE  /\ pc = "rename" /\ prog \in Programs /\ bb \in Blocks /\ bb = Frame.bb /\ bb \in visited
         /\ frames \in Seq(FrameT) /\ Len(frames) \in Nat \ {0} /\ Frame = frames[Len(frames)]
         /\ Frame.stage = "succs" /\ Frame.succs = {} /\ Frame.ip = End(prog, bb)
         /\ \A n \in 1 .. Len(frames) : /\ frames[n].bb \in Blocks /\ frames[n].bb \in visited
                                        /\ frames[n].stage = "succs"
                                        /\ frames[n].ip = End(prog, frames[n].bb)
                                        /\ n # Len(frames) => frames[n].bb # bb
         /\ frames' \in Seq(FrameT) /\ Len(frames') = Len(frames) - 1
         /\ \A n \in 1 .. Len(frames) - 1 : frames'[n] = frames[n]
         /\ frames' = <<>> <=> Len(frames) = 1
         /\ frames' # <<>> => Frame' = frames[Len(frames) - 1]
         /\ live' = [live EXCEPT ![bb] = Renamed(prog, bb)]
         /\ pc' = IF frames' = <<>> THEN "remove" ELSE "rename"
         /\ value_status' = [v \in Locals |->
              SubSeq(value_status[v], 1, Len(value_status[v]) - define_var[bb][v])]
         /\ UNCHANGED <<prog, dom_frontier, phis, allocas, scanVars, phiVars, define_var, run>>
         /\ UNCHANGED <<operand, phi_args, visited, fault>>
<1>1. /\ InStage("succs") /\ Frame.succs = {}
      /\ value_status' = [v \in Locals |->
           SubSeq(value_status[v], 1, Len(value_status[v]) - define_var[bb][v])]
      /\ live' = [live EXCEPT ![bb] = live[bb] \ Frame.deletes]
      /\ frames' = Front(frames)
      /\ pc' = IF Len(frames) = 1 THEN "remove" ELSE pc
      /\ UNCHANGED <<prog, dom_frontier, phis, allocas, scanVars, phiVars, define_var, run>>
      /\ UNCHANGED <<operand, phi_args, visited, fault>>
  BY DEF LeaveBlock, Pops
<1>2. pc = "rename" /\ Frame.stage = "succs"
  BY <1>1 DEF InStage
<1>3. /\ prog \in Programs /\ bb \in Blocks /\ bb = Frame.bb /\ bb \in visited
      /\ frames \in Seq(FrameT) /\ frames # <<>> /\ Len(frames) \in Nat \ {0} /\ Frame = frames[Len(frames)]
      /\ Frame \in FrameT /\ FrameOk(prog, Frame) /\ live[bb] = Kept(prog, bb)
  BY <1>2, FrameFacts
<1>4. Frame.ip = End(prog, bb)
  BY <1>2, <1>3 DEF FrameOk
<1>5. ASSUME NEW n \in 1 .. Len(frames)
      PROVE  /\ frames[n].bb \in Blocks /\ frames[n].bb \in visited /\ frames[n].stage = "succs"
             /\ frames[n].ip = End(prog, frames[n].bb)
             /\ n # Len(frames) => frames[n].bb # bb
  <2>1. frames[n].bb \in Blocks
    BY <1>2, FrameFacts
  <2>2. n # Len(frames) => frames[n].bb # bb /\ frames[n].bb \in visited /\ frames[n].stage = "succs"
    BY <1>2, FrameFacts
  <2>3. frames[n].bb \in visited /\ frames[n].stage = "succs"
    BY <1>2, <1>3, <2>2
  <2>4. FrameOk(prog, frames[n])
    BY DEF Inv, FramesInv
  <2>5. frames[n].ip = End(prog, frames[n].bb)
    BY <2>3, <2>4 DEF FrameOk
  <2>6. QED
    BY <2>1, <2>2, <2>3, <2>5
<1>6. /\ Sequence(frames') /\ Len(frames') = Len(frames) - 1
      /\ \A n \in 1 .. Len(frames) - 1 : frames'[n] = frames[n]
  <2>1. Sequence(frames) /\ frames # <<>>
    BY <1>3, TypedSequence
  <2>2. QED
    BY <1>1, <2>1, FrontSequence
<1>7. frames' \in Seq(FrameT)
  <2>1. \A n \in 1 .. Len(frames') : frames'[n] \in FrameT
    BY <1>2, <1>3, <1>6, FrameFacts
  <2>2. QED
    BY <1>6, <2>1, SequenceTyped
<1>8. frames' = <<>> <=> Len(frames) = 1
  <2>1. frames' = <<>> <=> Len(frames') = 0
    BY <1>6, SequenceFacts1
  <2>2. QED
    BY <1>3, <1>6, <2>1
<1>9. frames' # <<>> => Frame' = frames[Len(frames) - 1]
  <2>1. Frame' = frames'[Len(frames) - 1]
    BY <1>6 DEF Frame
  <2>2. \A n \in Nat \ {0} : n # 1 => n - 1 \in 1 .. n - 1
    OBVIOUS
  <2>3. Len(frames) # 1 => Len(frames) - 1 \in 1 .. Len(frames) - 1
    BY <1>3, <2>2
  <2>4. QED
    BY <1>6, <1>8, <2>1, <2>3
<1>10. live[bb] \ Frame.deletes = Renamed(prog, bb)
  <2>1. Frame.deletes = {k \in Kept(prog, bb) : IsLocalOp(prog, bb, k) /\ k < Frame.ip}
    BY <1>3 DEF FrameOk
  <2>2. \A k \in Kept(prog, bb) : k < Frame.ip
    BY <1>3, <1>4, PositionsFacts
  <2>3. QED
    BY <1>3, <2>1, <2>2 DEF Renamed
<1>11. QED
  BY <1>1, <1>2, <1>3, <1>4, <1>5, <1>6, <1>7, <1>8, <1>9, <1>10

(* What the return leaves alone; after the last one every block is done. *)
LEMMA LeaveSame ==
  ASSUME Inv, LeaveBlock
  PROVE  /\ \A b : (Reached(b) <=> b \in visited) /\ (Reached(b)' <=> b \in visited)
         /\ \A b : (Passed(b) <=> b \in visited) /\ (Passed(b)' <=> b \in visited)
         /\ \A b : InFrames(b)' <=> InFrames(b) /\ b # bb
         /\ \A b \in Blocks : Ip(b)' = Ip(b)
         /\ frames' = <<>> => visited = Blocks
<1> DEFINE L == Len(frames)
<1> HIDE DEF L
<1>1. /\ pc = "rename" /\ prog \in Programs /\ bb \in Blocks /\ bb = Frame.bb /\ bb \in visited
      /\ L \in Nat \ {0} /\ Frame = frames[L]
      /\ Frame.stage = "succs" /\ Frame.succs = {} /\ Frame.ip = End(prog, bb)
      /\ \A n \in 1 .. L : /\ frames[n].bb \in visited /\ frames[n].stage = "succs"
                           /\ frames[n].ip = End(prog, frames[n].bb)
                           /\ n # L => frames[n].bb # bb
      /\ Len(frames') = L - 1 /\ \A n \in 1 .. L - 1 : frames'[n] = frames[n]
      /\ frames' = <<>> <=> L = 1
      /\ frames' # <<>> => Frame' = frames[L - 1]
      /\ visited' = visited /\ prog' = prog
  BY LeaveFacts DEF L
<1>2. frames' # <<>> => /\ Frame'.bb \in visited /\ Frame'.stage = "succs"
                        /\ Frame'.ip = End(prog, Frame'.bb)
  <2>1. L # 1 => L - 1 \in 1 .. L
    BY <1>1
  <2>2. QED
    BY <1>1, <2>1
<1>3. ASSUME NEW b
      PROVE  /\ (Reached(b) <=> b \in visited) /\ (Reached(b)' <=> b \in visited)
             /\ (Passed(b) <=> b \in visited) /\ (Passed(b)' <=> b \in visited)
  <2>1. Reached(b) <=> b \in visited
    BY <1>1 DEF Reached
  <2>2. Reached(b)' <=> b \in visited
    BY <1>1, <1>2 DEF Reached
  <2>3. Passed(b) <=> b \in visited
    BY <1>1 DEF Passed
  <2>4. Passed(b)' <=> b \in visited
    BY <1>1, <1>2 DEF Passed
  <2>5. QED
    BY <2>1, <2>2, <2>3, <2>4
<1>4. ASSUME NEW b PROVE InFrames(b)' <=> InFrames(b) /\ b # bb
  <2>1. \A n : n \in 1 .. L - 1 <=> n \in 1 .. L /\ n # L
    BY <1>1
  <2>2. InFrames(b)' <=> \E n \in 1 .. L - 1 : frames'[n].bb = b
    BY <1>1 DEF InFrames
  <2>3. InFrames(b) <=> \E n \in 1 .. L : frames[n].bb = b
    BY DEF InFrames, L
  <2>4. L \in 1 .. L /\ frames[L].bb = bb
    BY <1>1
  <2>5. QED
    BY <1>1, <2>1, <2>2, <2>3, <2>4
<1>5. ASSUME NEW b \in Blocks PROVE Ip(b)' = Ip(b)
  <2>1. End(prog', b) = End(prog, b)
    BY <1>1
  <2>2. Ip(b) = IF b \notin visited THEN 1 ELSE End(prog, b)
    BY <1>1 DEF Ip
  <2>3. Ip(b)' = IF b \notin visited THEN 1 ELSE End(prog, b)
    BY <1>1, <1>2, <2>1 DEF Ip
  <2>4. QED
    BY <2>2, <2>3
<1>6. ASSUME frames' = <<>> PROVE visited = Blocks
  <2>1. L = 1
    BY <1>1, <1>6
  <2>2. ASSUME NEW b \in visited, NEW s \in prog.cfg[b] PROVE s \in visited
    <3>1. Reached(s) \/ \E n \in 1 .. L : frames[n].bb = b /\ s \in frames[n].succs
      BY <2>2 DEF Inv, VisitedInv, L
    <3>2. \A n \in 1 .. L : frames[n].succs = {}
      BY <1>1, <2>1
    <3>3. QED
      BY <1>3, <3>1, <3>2
  <2>3. Entry \in visited /\ visited \in SUBSET Blocks
    BY <1>1, <1>3 DEF Inv, VisitedInv, TypeInv
  <2>4. T!Closed(prog.cfg, visited)
    BY <2>2 DEF T!Closed
  <2>5. T!Rooted(prog.cfg)
    BY <1>1, ProgramFacts
  <2>6. QED
    BY <2>3, <2>4, <2>5 DEF T!Rooted
<1>7. QED
  BY <1>3, <1>4, <1>5, <1>6

(* The pops leave each stack as the call found it. *)
LEMMA PopsFacts ==
  ASSUME Inv, LeaveBlock, NEW v \in Locals
  PROVE  /\ value_status'[v] \in Seq(Values)
         /\ define_var[bb][v] = Pushes(prog, phis, v, bb)
         /\ \A n \in Nat : Len(value_status[v]) = n + Pushes(prog, phis, v, bb) =>
              /\ Len(value_status'[v]) = n
              /\ \A k \in 0 .. n : Element(value_status'[v], k) = Element(value_status[v], k)
<1> DEFINE s == value_status[v]
           c == Pushes(prog, phis, v, bb)
<1>1. /\ pc = "rename" /\ bb \in Blocks
      /\ value_status' = [u \in Locals |->
           SubSeq(value_status[u], 1, Len(value_status[u]) - define_var[bb][u])]
  BY LeaveFacts
<1>2. define_var[bb][v] = c
  BY <1>1 DEF Inv, StackInv
<1>3. c \in Nat
  BY DEF Pushes
<1>4. s \in Seq(Values) /\ Len(s) \in Nat /\ \A k \in 1 .. Len(s) : s[k] \in Values
  BY StatusFacts, TypedSequence
<1>5. value_status'[v] = SubSeq(s, 1, Len(s) - c)
  BY <1>1, <1>2
<1> HIDE DEF s, c
<1>6. /\ SubSeq(s, 1, Len(s) - c) \in Seq(Values)
      /\ Len(SubSeq(s, 1, Len(s) - c)) = IF 1 <= Len(s) - c THEN Len(s) - c ELSE 0
      /\ \A k \in 1 .. Len(s) - c : SubSeq(s, 1, Len(s) - c)[k] = s[k]
  <2>1. 1 \in Int /\ Len(s) - c \in Int /\ \A k \in 1 .. Len(s) - c : s[k] \in Values
    BY <1>3, <1>4
  <2> DEFINE m == Len(s) - c
  <2> HIDE DEF m
  <2>2. m \in Int /\ \A k \in 1 .. m : s[k] \in Values
    BY <2>1 DEF m
  <2>3. /\ SubSeq(s, 1, m) \in Seq(Values)
        /\ Len(SubSeq(s, 1, m)) = IF 1 <= m THEN m - 1 + 1 ELSE 0
        /\ \A k \in 1 .. m - 1 + 1 : SubSeq(s, 1, m)[k] = s[1 + k - 1]
    BY <2>2, SubSeqProperties
  <2>4. /\ m - 1 + 1 = m /\ \A k \in 1 .. m : 1 + k - 1 = k
    BY <2>2
  <2>5. QED
    BY <2>3, <2>4 DEF m
<1>7. ASSUME NEW n \in Nat, Len(s) = n + c
      PROVE  /\ Len(SubSeq(s, 1, Len(s) - c)) = n
             /\ \A k \in 0 .. n : Element(SubSeq(s, 1, Len(s) - c), k) = Element(s, k)
  <2>1. Len(s) - c = n
    BY <1>3, <1>7
  <2>2. Len(SubSeq(s, 1, Len(s) - c)) = n
    BY <1>6, <2>1
  <2>3. \A k \in 0 .. n : k # 0 => SubSeq(s, 1, Len(s) - c)[k] = s[k]
    BY <1>6, <2>1
  <2>4. QED
    BY <2>2, <2>3 DEF Element
<1>8. QED
  BY <1>2, <1>5, <1>6, <1>7 DEF s, c

(* The calls below the one that returns, and the blocks seen. *)
LEMMA LeaveFramesKeeps ==
  ASSUME Inv, LeaveBlock
  PROVE  FramesInv' /\ VisitedInv' /\ LiveInv'
<1> DEFINE L == Len(frames)
<1> HIDE DEF L
<1>1. /\ pc = "rename" /\ prog \in Programs /\ bb \in Blocks /\ bb = Frame.bb /\ bb \in visited
      /\ L \in Nat \ {0} /\ Frame = frames[L] /\ Frame.succs = {}
      /\ \A n \in 1 .. L : /\ frames[n].bb \in Blocks /\ frames[n].bb \in visited
                           /\ frames[n].stage = "succs"
                           /\ n # L => frames[n].bb # bb
      /\ Len(frames') = L - 1 /\ \A n \in 1 .. L - 1 : frames'[n] = frames[n]
      /\ frames' = <<>> <=> L = 1
      /\ pc' = IF frames' = <<>> THEN "remove" ELSE "rename"
      /\ live' = [live EXCEPT ![bb] = Renamed(prog, bb)]
      /\ visited' = visited /\ prog' = prog
  BY LeaveFacts DEF L
<1>2. /\ \A b : (Reached(b) <=> b \in visited) /\ (Reached(b)' <=> b \in visited)
      /\ \A b : (Passed(b) <=> b \in visited) /\ (Passed(b)' <=> b \in visited)
      /\ \A b : InFrames(b)' <=> InFrames(b) /\ b # bb
  BY LeaveSame
<1>3. FramesInv'
  <2>1. ASSUME NEW n \in 1 .. L - 1
        PROVE  /\ FrameOk(prog, frames[n])
               /\ n < L - 1 => /\ frames[n].stage = "succs"
                               /\ frames[n + 1].bb \in prog.cfg[frames[n].bb]
               /\ frames[n].bb \in visited <=> (n < L - 1 \/ frames[n].stage # "phis")
               /\ \A m \in 1 .. L - 1 : frames[m].bb = frames[n].bb => m = n
    <3>1. n \in 1 .. L /\ n < L /\ \A m \in 1 .. L - 1 : m \in 1 .. L
      BY <1>1
    <3>2. /\ FrameOk(prog, frames[n])
          /\ frames[n + 1].bb \in prog.cfg[frames[n].bb]
          /\ \A m \in 1 .. L : frames[m].bb = frames[n].bb => m = n
      BY <3>1 DEF Inv, FramesInv, L
    <3>3. frames[n].bb \in visited /\ frames[n].stage = "succs"
      BY <1>1, <3>1
    <3>4. QED
      BY <3>1, <3>2, <3>3
  <2>2. \A n \in 1 .. L - 1 : n < L - 1 => n + 1 \in 1 .. L - 1
    BY <1>1
  <2>3. ASSUME NEW n \in 1 .. L - 1
        PROVE  /\ FrameOk(prog, frames'[n])
               /\ n < L - 1 => /\ frames'[n].stage = "succs"
                               /\ frames'[n + 1].bb \in prog.cfg[frames'[n].bb]
               /\ frames'[n].bb \in visited <=> (n < L - 1 \/ frames'[n].stage # "phis")
               /\ \A m \in 1 .. L - 1 : frames'[m].bb = frames'[n].bb => m = n
    <3>1. frames'[n] = frames[n] /\ (n < L - 1 => frames'[n + 1] = frames[n + 1])
      BY <1>1, <2>2
    <3>2. \A m \in 1 .. L - 1 : frames'[m].bb = frames'[n].bb => m = n
      BY <1>1, <2>1
    <3>3. QED
      BY <2>1, <3>1, <3>2
  <2>4. ASSUME frames' # <<>> PROVE frames'[1].bb = Entry
    <3>1. 1 \in 1 .. L - 1
      BY <1>1, <2>4
    <3>2. frames[1].bb = Entry
      BY <1>1, FrameFacts DEF Inv, FramesInv
    <3>3. QED
      BY <1>1, <3>1, <3>2
  <2>5. prog' = prog /\ visited' = visited /\ Len(frames') = L - 1
    BY <1>1
  <2>6. QED
    BY <2>3, <2>4, <2>5 DEF FramesInv
<1>4. VisitedInv'
  <2>0. prog' = prog /\ visited' = visited /\ Len(frames') = L - 1
    BY <1>1
  <2>1. ASSUME NEW b \in visited, NEW x \in prog.cfg[b]
        PROVE  Reached(x)' \/ \E n \in 1 .. L - 1 : frames'[n].bb = b /\ x \in frames'[n].succs
    <3>1. CASE Reached(x)
      BY <1>2, <3>1
    <3>2. CASE ~ Reached(x)
      <4>1. PICK n \in 1 .. L : frames[n].bb = b /\ x \in frames[n].succs
        BY <3>2 DEF Inv, VisitedInv, L
      <4>2. n # L
        BY <1>1, <4>1
      <4>3. n \in 1 .. L - 1
        BY <1>1, <4>2
      <4>4. QED
        BY <1>1, <4>1, <4>3
    <3>3. QED
      BY <3>1, <3>2
  <2>2. Reached(Entry)'
    BY <1>1, <1>2 DEF Inv, VisitedInv
  <2>3. ASSUME NEW b \in Blocks, Reached(b)', NEW d \in Blocks, T!StrictlyDominates(prog.cfg, d, b)
        PROVE  Passed(d)'
    <3>1. Reached(b)
      BY <1>2, <2>3
    <3>2. Passed(d)
      BY <2>3, <3>1 DEF Inv, VisitedInv
    <3>3. QED
      BY <1>2, <3>2
  <2>4. QED
    BY <2>0, <2>1, <2>2, <2>3 DEF VisitedInv
<1>5. LiveInv'
  <2>1. \A b \in Blocks :
          live[b] = IF b \in visited /\ ~ InFrames(b) THEN Renamed(prog, b) ELSE Kept(prog, b)
    BY <1>1 DEF Inv, LiveInv
  <2>2. live \in [Blocks -> SUBSET Nat]
    BY DEF Inv, TypeInv
  <2>3. ASSUME NEW b \in Blocks
        PROVE  live'[b] = IF b \in visited /\ ~ InFrames(b)' THEN Renamed(prog, b) ELSE Kept(prog, b)
    <3>1. live'[b] = IF b = bb THEN Renamed(prog, b) ELSE live[b]
      BY <1>1, <2>2
    <3>2. InFrames(b)' <=> InFrames(b) /\ b # bb
      BY <1>2
    <3>3. bb \in visited
      BY <1>1
    <3>4. QED
      BY <2>1, <3>1, <3>2, <3>3
  <2>4. pc' # "forward" /\ visited' = visited /\ prog' = prog
    BY <1>1
  <2>5. QED
    BY <2>3, <2>4 DEF LiveInv
<1>6. QED
  BY <1>3, <1>4, <1>5

(* The stacks when a call has returned. *)
LEMMA LeaveStackKeeps ==
  ASSUME Inv, LeaveBlock
  PROVE  StackInv'
<1> DEFINE L == Len(frames)
<1> HIDE DEF L
<1>1. /\ pc = "rename" /\ prog \in Programs /\ bb \in Blocks /\ bb = Frame.bb
      /\ L \in Nat \ {0} /\ Frame = frames[L] /\ Frame.stage = "succs" /\ Frame.ip = End(prog, bb)
      /\ \A n \in 1 .. L : /\ frames[n].bb \in Blocks /\ frames[n].stage = "succs"
                           /\ frames[n].ip = End(prog, frames[n].bb)
      /\ Len(frames') = L - 1 /\ \A n \in 1 .. L - 1 : frames'[n] = frames[n]
      /\ frames' = <<>> <=> L = 1
      /\ frames' # <<>> => Frame' = frames[L - 1]
      /\ pc' = IF frames' = <<>> THEN "remove" ELSE "rename"
      /\ UNCHANGED <<prog, phis, operand, define_var>>
  BY LeaveFacts DEF L
<1>2. ASSUME frames' # <<>>, NEW v \in Loaded(prog)
      PROVE  \E h \in [1 .. Len(frames') -> Nat] : Stacked(v, h)'
  <2>1. PICK h \in [1 .. L -> Nat] : Stacked(v, h)
    BY <1>1 DEF Inv, StackInv, L
  <2>2. /\ h[1] = 0
        /\ \A n \in 1 .. L : \A m \in 1 .. n : h[m] <= h[n]
        /\ \A n \in 1 .. L - 1 :
             /\ h[n + 1] = h[n] + Pushes(prog, phis, v, frames[n].bb)
             /\ Element(value_status[v], h[n + 1])
                  = ValueAt(prog, phis, operand, v, frames[n].bb, End(prog, frames[n].bb))
        /\ Len(value_status[v]) = h[L] + PushedBefore(prog, phis, v, bb, Frame.ip)
    BY <1>1, <2>1 DEF Stacked, L
  <2>3. /\ L - 1 \in 1 .. L - 1 /\ L - 1 \in Nat \ {0} /\ L - 1 + 1 = L /\ L \in 1 .. L
        /\ \A n \in 1 .. L - 1 : n \in 1 .. L /\ n + 1 \in 1 .. L
        /\ \A n \in 1 .. L - 1 - 1 : n \in 1 .. L - 1 /\ n + 1 \in 1 .. L - 1
    BY <1>1, <1>2
  <2>4. v \in Locals
    BY DEF Loaded
  <2> DEFINE c == Pushes(prog, phis, v, bb)
             u == frames[L - 1].bb
  <2>5. ASSUME NEW b \in Blocks
        PROVE  PushedBefore(prog, phis, v, b, End(prog, b)) = Pushes(prog, phis, v, b)
    <3>1. Stores(prog, b, v) # {} => LastStore(prog, b, v, End(prog, b)) < End(prog, b)
      BY <1>1, PositionsFacts, LastStoreFacts, LastStoreEnd
    <3>2. QED
      BY <3>1 DEF PushedBefore, Pushes
  <2>6. Len(value_status[v]) = h[L] + c /\ h[L] \in Nat
    BY <1>1, <2>2, <2>3, <2>5
  <2>7. Len(value_status'[v]) = h[L]
        /\ \A k \in 0 .. h[L] : Element(value_status'[v], k) = Element(value_status[v], k)
    BY <2>4, <2>6, PopsFacts
  <2>8. u \in Blocks /\ Frame' = frames[L - 1] /\ Frame'.bb = u /\ Frame'.stage = "succs"
        /\ Frame'.ip = End(prog, u)
    BY <1>1, <1>2, <2>3
  <2>9. /\ h[L] = h[L - 1] + Pushes(prog, phis, v, u)
        /\ Element(value_status[v], h[L]) = ValueAt(prog, phis, operand, v, u, End(prog, u))
    BY <2>2, <2>3
  <2> HIDE DEF c, u
  <2>10. PICK g \in [1 .. L - 1 -> Nat] : \A n \in 1 .. L - 1 : g[n] = h[n]
    <3> DEFINE g == [n \in 1 .. L - 1 |-> h[n]]
    <3>1. g \in [1 .. L - 1 -> Nat] /\ \A n \in 1 .. L - 1 : g[n] = h[n]
      BY <2>3
    <3>2. QED
      BY <3>1
  <2>11. Current(v)' = TopAt(prog, phis, operand, v, u, End(prog, u))
    <3>1. TopAt(prog, phis, operand, v, u, End(prog, u)) = ValueAt(prog, phis, operand, v, u, End(prog, u))
      BY <1>1, <2>8, TopAtEnd
    <3>2. Element(value_status'[v], h[L]) = ValueAt(prog, phis, operand, v, u, End(prog, u))
      BY <2>6, <2>7, <2>9
    <3>3. value_status'[v] \in Seq(Values)
      BY <2>4, PopsFacts
    <3>4. Sequence(value_status'[v])
      BY <3>3, TypedSequence
    <3>5. value_status'[v] = <<>> <=> Len(value_status'[v]) = 0
      BY <3>4, SequenceFacts1
    <3>6. value_status'[v] # <<>> => Last(value_status'[v]) = value_status'[v][Len(value_status'[v])]
      BY DEF Last
    <3>7. Current(v)' = Element(value_status'[v], Len(value_status'[v]))
      BY <3>5, <3>6 DEF Current, Element
    <3>8. QED
      BY <2>7, <3>1, <3>2, <3>7
  <2>12. Len(value_status'[v]) = g[L - 1] + PushedBefore(prog, phis, v, u, End(prog, u))
    BY <2>3, <2>5, <2>7, <2>8, <2>9, <2>10
  <2>13. ASSUME NEW n \in 1 .. L - 1 - 1
         PROVE  /\ g[n + 1] = g[n] + Pushes(prog, phis, v, frames'[n].bb)
                /\ Element(value_status'[v], g[n + 1])
                     = ValueAt(prog, phis, operand, v, frames'[n].bb, End(prog, frames'[n].bb))
    <3>1. n \in 1 .. L - 1 /\ n + 1 \in 1 .. L - 1 /\ n + 1 \in 1 .. L
      BY <2>3
    <3>2. frames'[n] = frames[n] /\ g[n] = h[n] /\ g[n + 1] = h[n + 1]
      BY <1>1, <2>10, <3>1
    <3>3. h[n + 1] \in 0 .. h[L]
      <4>1. h[n + 1] \in Nat /\ h[n + 1] <= h[L]
        BY <2>2, <2>3, <3>1
      <4>2. QED
        BY <2>6, <4>1
    <3>4. QED
      BY <2>2, <2>7, <3>1, <3>2, <3>3
  <2>14. \A n \in 1 .. L - 1 : \A m \in 1 .. n : g[m] <= g[n]
    <3>1. \A n \in 1 .. L - 1 : \A m \in 1 .. n : n \in 1 .. L /\ m \in 1 .. L - 1
      BY <1>1
    <3>2. QED
      BY <2>2, <2>10, <3>1
  <2>15. g[1] = 0
    BY <1>1, <2>2, <2>3, <2>10
  <2>16. Stacked(v, g)'
    <3>0. Len(frames') = L - 1 /\ UNCHANGED <<prog, phis, operand>>
      BY <1>1
    <3>1. \A n \in 1 .. Len(frames') : \A m \in 1 .. n : g[m] <= g[n]
      BY <2>14, <3>0
    <3>2. \A n \in 1 .. Len(frames') - 1 :
            /\ g[n + 1] = g[n] + Pushes(prog', phis', v, frames'[n].bb)
            /\ Element(value_status'[v], g[n + 1])
                 = ValueAt(prog', phis', operand', v, frames'[n].bb, End(prog', frames'[n].bb))
      BY <2>13, <3>0
    <3>3. /\ Len(value_status'[v])
               = g[Len(frames')] + PushedBefore(prog', phis', v, Frame'.bb, Frame'.ip)
          /\ Current(v)' = TopAt(prog', phis', operand', v, Frame'.bb, Frame'.ip)
      BY <2>8, <2>11, <2>12, <3>0
    <3>4. Frame'.stage # "phis"
      BY <2>8
    <3>5. QED
      BY <2>15, <3>1, <3>2, <3>3, <3>4, Zenon DEF Stacked
  <2>17. QED
    BY <1>1, <2>16
<1>3. \A b \in Blocks : \A v \in Locals : define_var[b][v] = Pushes(prog, phis, v, b)
  BY <1>1 DEF Inv, StackInv
<1>4. pc' = "rename" => frames' # <<>>
  BY <1>1
<1>5. UNCHANGED <<prog, phis, define_var>>
  BY <1>1
<1>6. QED
  BY <1>2, <1>3, <1>4, <1>5 DEF StackInv

(* The end of a call: what the block pushed is popped, and what it was to  *)
(* delete goes.                                                            *)
LEMMA LeaveBlockKeeps ==
  ASSUME Inv, LeaveBlock
  PROVE  Inv'
<1>1. /\ pc = "rename" /\ prog \in Programs /\ bb \in Blocks
      /\ frames' \in Seq(FrameT)
      /\ live' = [live EXCEPT ![bb] = Renamed(prog, bb)]
      /\ pc' = IF frames' = <<>> THEN "remove" ELSE "rename"
      /\ value_status' = [v \in Locals |->
           SubSeq(value_status[v], 1, Len(value_status[v]) - define_var[bb][v])]
      /\ UNCHANGED <<prog, dom_frontier, phis, allocas, scanVars, phiVars, define_var, run>>
      /\ UNCHANGED <<operand, phi_args, visited, fault>>
  BY LeaveFacts
<1>2. /\ \A b : (Passed(b) <=> b \in visited) /\ (Passed(b)' <=> b \in visited)
      /\ \A b \in Blocks : Ip(b)' = Ip(b)
      /\ frames' = <<>> => visited = Blocks
  BY LeaveSame
<1>3. TypeInv' /\ PhaseInv' /\ ForwardInv' /\ PhiInv' /\ RunInv' /\ ~ fault'
  <2>1. visited' \in SUBSET Blocks /\ fault' \in BOOLEAN /\ ~ fault'
    BY <1>1 DEF Inv, TypeInv
  <2>2. live' \in [Blocks -> SUBSET Nat]
    <3>1. live \in [Blocks -> SUBSET Nat]
      BY DEF Inv, TypeInv
    <3>2. Renamed(prog, bb) \in SUBSET Nat
      BY <1>1, PositionsFacts DEF Renamed
    <3>3. QED
      BY <1>1, <3>1, <3>2
  <2>3. /\ phi_args' \in [Phis -> Seq(Values \X Blocks)]
        /\ operand' \in [Ids -> Ids \cup Phis \cup {NULL}]
    BY <1>1 DEF Inv, TypeInv
  <2>4. OperandsGiven'
    BY <1>1, OperandsGivenKept
  <2>5. value_status' \in [Locals -> Seq(Values)]
    <3>1. \A v \in Locals : value_status'[v] \in Seq(Values)
      BY PopsFacts
    <3>2. QED
      BY <1>1, <3>1
  <2>6. /\ pc' \in {"rename", "remove"} /\ (pc' = "rename" <=> frames' # <<>>)
        /\ (pc' = "remove" => visited' = Blocks)
    BY <1>1, <1>2
  <2>7. TypeInv' /\ PhaseInv' /\ ForwardInv' /\ PhiInv' /\ RunInv'
    BY <1>1, <2>1, <2>2, <2>3, <2>4, <2>5, <2>6, StillRenaming
  <2>8. QED
    BY <2>1, <2>7
<1>4. OperandsInv'
  <2>1. UNCHANGED <<prog, phis, operand>>
    BY <1>1
  <2>2. \A b \in Blocks : UsesInv(prog, phis, operand, b, Ip(b))
    BY <1>1 DEF Inv, OperandsInv
  <2>3. \A b \in Blocks : UsesInv(prog, phis, operand, b, Ip(b)')
    BY <1>2, <2>2
  <2>4. QED
    BY <2>1, <2>3 DEF OperandsInv
<1>5. PhiArgsInv'
  <2>1. UNCHANGED <<prog, phis, operand, phi_args>>
    BY <1>1
  <2>2. \A b \in Blocks : Passed(b)' <=> Passed(b)
    BY <1>2
  <2>3. QED
    BY <1>1, <2>1, <2>2, PhiArgsKept
<1>6. QED
  BY <1>3, <1>4, <1>5, LeaveFramesKeeps, LeaveStackKeeps DEF Inv

(* Once the walk is done nothing changes but the runs. *)
LEMMA StillRunning ==
  ASSUME Inv, pc \in {"remove", "run"}, pc' = "run", allocas' = {},
         UNCHANGED <<prog, dom_frontier, live, operand, phis, phi_args, scanVars, phiVars, nameVars, fault>>
  PROVE  /\ TypeInv' /\ PhaseInv' /\ ForwardInv' /\ LiveInv' /\ PhiInv' /\ OperandsInv'
         /\ FramesInv' /\ VisitedInv' /\ StackInv' /\ PhiArgsInv' /\ ~ fault'
<1>1. frames = <<>> /\ visited = Blocks
  BY DEF Inv, PhaseInv
<1>2. /\ UNCHANGED <<prog, dom_frontier, live, operand, phis, phi_args, fault>>
      /\ UNCHANGED <<at, i, defined_list, new_value, forward_list, delete_list, todo, var, queue>>
      /\ UNCHANGED <<define_var, value_status, visited, frames>>
  BY DEF scanVars, phiVars, nameVars
<1>3. TypeInv'
  <2>1. UNCHANGED <<Ids, Phis, Values>>
    BY <1>2 DEF Ids, Code, Phis, Values
  <2>2. TypeInv
    BY DEF Inv
  <2>3. pc' \in {"forward", "collect", "genphi", "rename", "remove", "run"}
    OBVIOUS
  <2>4. QED
    BY <1>2, <2>1, <2>2, <2>3, Zenon DEF TypeInv
<1>4. PhaseInv'
  <2>1. /\ i = 1 /\ DOMAIN forward_list = {} /\ delete_list = {}
        /\ todo = {} /\ var = NULL /\ queue = <<>>
    BY DEF Inv, PhaseInv
  <2>2. QED
    BY <1>1, <1>2, <2>1 DEF PhaseInv
<1>5. ForwardInv' /\ StackInv'
  BY DEF ForwardInv, StackInv
<1>6. LiveInv'
  <2>1. \A b : InFrames(b)' <=> InFrames(b)
    BY <1>2 DEF InFrames
  <2>2. \A b \in Blocks :
          live[b] = IF b \in visited /\ ~ InFrames(b) THEN Renamed(prog, b) ELSE Kept(prog, b)
    BY DEF Inv, LiveInv
  <2>3. QED
    BY <1>2, <2>1, <2>2 DEF LiveInv
<1>7. PhiInv'
  <2>1. PhiInv /\ pc \notin {"forward", "collect"}
    BY DEF Inv
  <2>2. QED
    BY <1>2, <2>1, Zenon DEF PhiInv
<1>8. OperandsInv'
  <2>1. \A b \in Blocks : UsesInv(prog, phis, operand, b, Ip(b))
    BY DEF Inv, OperandsInv
  <2>2. \A b \in Blocks : Ip(b)' = Ip(b)
    <3>1. \A b \in Blocks : Ip(b) = End(prog, b)
      BY <1>1 DEF Ip
    <3>2. \A b \in Blocks : Ip(b)' = End(prog, b)
      BY <1>1, <1>2 DEF Ip
    <3>3. QED
      BY <3>1, <3>2
  <2>3. \A b \in Blocks : UsesInv(prog, phis, operand, b, Ip(b)')
    BY <2>1, <2>2
  <2>4. QED
    BY <1>2, <2>3 DEF OperandsInv
<1>9. FramesInv' /\ VisitedInv'
  <2>1. Len(<<>>) = 0 /\ \A n : n \notin 1 .. 0
    OBVIOUS
  <2>2. FramesInv'
    BY <1>1, <1>2, <2>1 DEF FramesInv
  <2>3. \A b : (Reached(b)' <=> b \in visited) /\ (Reached(b) <=> b \in visited)
               /\ (Passed(b)' <=> b \in visited) /\ (Passed(b) <=> b \in visited)
    BY <1>1, <1>2 DEF Reached, Passed
  <2>4. \A b \in visited : \A s \in prog.cfg[b] : Reached(s)'
    <3>1. prog \in Programs
      BY DEF Inv, TypeInv
    <3>2. \A b \in visited : \A s \in prog.cfg[b] : s \in visited
      BY <1>1, <3>1, ProgramFacts
    <3>3. QED
      BY <2>3, <3>2
  <2>5. \A b \in Blocks : Reached(b)' =>
          \A d \in Blocks : T!StrictlyDominates(prog.cfg, d, b) => Passed(d)'
    BY <1>1, <2>3
  <2>6. VisitedInv'
    BY <1>2, <2>4, <2>5 DEF VisitedInv
  <2>7. QED
    BY <2>2, <2>6
<1>10. PhiArgsInv'
  <2>1. \A b \in Blocks : Passed(b)' <=> Passed(b)
    BY <1>1, <1>2 DEF Passed
  <2>2. UNCHANGED <<prog, phis, operand, phi_args>>
    BY <1>2
  <2>3. QED
    BY <2>1, <2>2, PhiArgsKept
<1>11. ~ fault'
  BY <1>2 DEF Inv
<1>12. QED
  BY <1>3, <1>4, <1>5, <1>6, <1>7, <1>8, <1>9, <1>10, <1>11

(* The allocas go; no local has a value yet, in either program.            *)
LEMMA RemoveAllocKeeps ==
  ASSUME Inv, RemoveAlloc
  PROVE  Inv'
<1> DEFINE r == [block |-> Entry, ip |-> 1,
             mem |-> [v \in Vars |-> IF v \in Locals THEN Undef ELSE CHOOSE d \in Data : TRUE],
             old |-> [id \in Ids |-> Undef],
             new |-> [id \in Ids \cup Phis |-> Undef]]
<1>1. /\ pc = "remove" /\ pc' = "run" /\ allocas' = {} /\ run' = r
      /\ UNCHANGED <<prog, dom_frontier, live, operand, phis, phi_args, scanVars, phiVars, nameVars, fault>>
  BY DEF RemoveAlloc
<1>2. /\ TypeInv' /\ PhaseInv' /\ ForwardInv' /\ LiveInv' /\ PhiInv' /\ OperandsInv'
      /\ FramesInv' /\ VisitedInv' /\ StackInv' /\ PhiArgsInv' /\ ~ fault'
  BY <1>1, StillRunning
<1>3. prog \in Programs /\ Entry \in Blocks
  BY ProgramAssumption DEF Inv, TypeInv
<1>4. /\ r.block = Entry /\ r.ip = 1 /\ r.old = [id \in Ids |-> Undef]
      /\ r.mem = [v \in Vars |-> IF v \in Locals THEN Undef ELSE CHOOSE d \in Data : TRUE]
      /\ r.new = [id \in Ids \cup Phis |-> Undef]
      /\ DOMAIN r = {"block", "ip", "mem", "old", "new"}
  OBVIOUS
<1>5. RunShape(r)
  <2>1. 1 \in 1 .. End(prog, Entry)
    BY <1>3, PositionsFacts
  <2>2. QED
    BY <1>3, <1>4, <2>1 DEF RunShape
<1>6. \A v \in Locals : r.mem[v] = Undef
  BY <1>4 DEF Vars
<1> HIDE DEF r
<1>7. MemOk(r)
  <2>1. ASSUME NEW v \in Locals PROVE LastStore(prog, Entry, v, 1) = 0
    BY <1>3, LastStoreFirst
  <2>2. ASSUME NEW v \in Loaded(prog) PROVE NewOf(r, EntryVal(prog, phis, operand, v, Entry)) = Undef
    <3>1. Complete(prog, phis, v) /\ Entry \notin PhiBlocks(phis, v)
      BY <1>1, PlacedFacts
    <3>2. EntryVal(prog, phis, operand, v, Entry) = NULL
      BY <1>3, <3>1, EntryValAtEntry
    <3>3. QED
      BY <3>2 DEF NewOf
  <2>3. QED
    BY <1>4, <1>6, <2>1, <2>2 DEF MemOk
<1>8. ValuesOk(r)
  <2>1. \A k : k \notin 1 .. 1 - 1
    OBVIOUS
  <2>2. QED
    BY <1>4, <2>1 DEF ValuesOk
<1>9. RunInv'
  <2>1. UNCHANGED <<prog, phis, operand>>
    BY <1>1
  <2>2. UNCHANGED Ids
    BY <2>1 DEF Ids, Code
  <2>3. RunShape(run)'
    BY <1>1, <1>5, <2>1, <2>2 DEF RunShape, Phis
  <2>4. MemOk(run)'
    BY <1>1, <1>7, <2>1 DEF MemOk
  <2>5. ValuesOk(run)'
    BY <1>1, <1>8, <2>1 DEF ValuesOk
  <2>6. QED
    BY <2>3, <2>4, <2>5 DEF RunInv
<1>10. QED
  BY <1>2, <1>9 DEF Inv

(* What holds while the two programs run. *)
LEMMA RunFacts ==
  ASSUME Inv, pc = "run"
  PROVE  /\ prog \in Programs /\ allocas = {} /\ run.block \in Blocks
         /\ run.ip \in Nat \ {0} /\ run.ip <= End(prog, run.block) /\ End(prog, run.block) \in Nat \ {0}
         /\ RunShape(run) /\ MemOk(run) /\ ValuesOk(run)
         /\ \A b \in Blocks : /\ Reached(b) /\ Passed(b) /\ live[b] = Renamed(prog, b)
                              /\ UsesInv(prog, phis, operand, b, End(prog, b))
         /\ Code(run.block) = prog.code[run.block]
         /\ run.ip <= Len(Code(run.block)) <=> run.ip \in Positions(prog, run.block)
<1>1. RunShape(run) /\ MemOk(run) /\ ValuesOk(run)
  BY DEF Inv, RunInv
<1>2. /\ prog \in Programs /\ allocas = {} /\ frames = <<>> /\ visited = Blocks
  BY DEF Inv, TypeInv, PhaseInv
<1>3. run.block \in Blocks /\ run.ip \in 1 .. End(prog, run.block)
  BY <1>1 DEF RunShape
<1>4. ASSUME NEW b \in Blocks
      PROVE  /\ Reached(b) /\ Passed(b) /\ live[b] = Renamed(prog, b)
             /\ UsesInv(prog, phis, operand, b, End(prog, b))
  <2>1. Reached(b) /\ Passed(b) /\ Ip(b) = End(prog, b)
    BY <1>2 DEF Reached, Passed, Ip
  <2>2. \A n : n \notin 1 .. 0
    OBVIOUS
  <2>3. ~ InFrames(b)
    BY <1>2, <2>2 DEF InFrames
  <2>4. live[b] = Renamed(prog, b)
    BY <1>2, <2>3 DEF Inv, LiveInv
  <2>5. UsesInv(prog, phis, operand, b, Ip(b))
    BY DEF Inv, OperandsInv
  <2>6. QED
    BY <2>1, <2>4, <2>5
<1>5. End(prog, run.block) \in Nat \ {0}
  BY <1>2, <1>3, PositionsFacts
<1>6. run.ip \in Nat \ {0} /\ run.ip <= End(prog, run.block)
  BY <1>3, <1>5
<1>7. Code(run.block) = prog.code[run.block]
  BY DEF Code
<1>8. run.ip <= Len(Code(run.block)) <=> run.ip \in Positions(prog, run.block)
  <2>1. Len(prog.code[run.block]) \in Nat
    BY <1>2, <1>3, ProgramFacts
  <2>2. QED
    BY <1>6, <1>7, <2>1 DEF Positions
<1>9. QED
  BY <1>1, <1>2, <1>3, <1>4, <1>5, <1>6, <1>7, <1>8

(* What is in place has a value in the new program. *)
LEMMA InPlaceValue ==
  ASSUME prog \in Programs, NEW x, InPlace(prog, phis, x)
  PROVE  x \in Ids \cup Phis
<1>1. CASE x \in Phis
  BY <1>1
<1>2. CASE x \in Blocks \X Nat /\ Computes(prog, x[1], x[2])
  <2>1. x = <<x[1], x[2]>> /\ x[1] \in Blocks /\ x[2] \in Positions(prog, x[1])
    BY <1>2 DEF Computes
  <2>2. <<x[1], x[2]>> \in Ids
    BY <2>1, IdFacts
  <2>3. QED
    BY <2>1, <2>2
<1>3. QED
  BY <1>1, <1>2 DEF InPlace

(* The value of a local at a position comes from before it. *)
LEMMA ValueBefore ==
  ASSUME Inv, pc = "run", NEW b \in Blocks, NEW v \in Locals, NEW k \in Nat,
         v \in Loaded(prog) \/ LastStore(prog, b, v, k) # 0,
         ValueAt(prog, phis, operand, v, b, k) # NULL
  PROVE  /\ ValueAt(prog, phis, operand, v, b, k) \in Ids \cup Phis
         /\ \A n \in Nat : k <= n => ValueAt(prog, phis, operand, v, b, k) # <<b, n>>
<1> DEFINE x == ValueAt(prog, phis, operand, v, b, k)
           j == LastStore(prog, b, v, k)
<1>1. prog \in Programs /\ Reached(b) /\ Passed(b) /\ v \in Locals
  BY RunFacts DEF Loaded
<1>2. j \in Nat /\ (j # 0 => j \in Stores(prog, b, v) /\ j < k)
  BY <1>1, LastStoreFacts
<1>3. x = IF j # 0 THEN operand[<<b, j>>] ELSE EntryVal(prog, phis, operand, v, b)
  BY DEF ValueAt
<1> HIDE DEF x, j
<1>4. CASE j # 0
  <2>1. Available(prog, phis, x, b, j)
    BY <1>1, <1>2, <1>3, <1>4, PassedAvailable DEF StoresAvailable
  <2>2. x \in Ids \cup Phis
    BY <1>1, <2>1, InPlaceValue DEF Available
  <2>3. \A n \in Nat : k <= n => x # <<b, n>>
    <3>1. \A n \in Nat : x = <<b, n>> => n < j
      BY <2>1 DEF Available
    <3>2. QED
      BY <1>2, <1>4, <3>1
  <2>4. QED
    BY <2>2, <2>3 DEF x
<1>5. CASE j = 0
  <2>1. x # NULL /\ x = EntryVal(prog, phis, operand, v, b)
    BY <1>3, <1>5 DEF x
  <2>2. /\ \A n : Available(prog, phis, x, b, n)
        /\ b \notin PhiBlocks(phis, v) => x[1] # b
    BY <1>1, <1>5, <2>1, ReachedAvailable DEF j
  <2>3. x \in Ids \cup Phis
    BY <1>1, <2>2, InPlaceValue DEF Available
  <2>4. \A n \in Nat : x # <<b, n>>
    <3>1. CASE b \in PhiBlocks(phis, v)
      <4>1. x = <<b, v>>
        BY <2>1, <3>1 DEF EntryVal
      <4>2. QED
        BY <1>1, <4>1, ValueFacts
    <3>2. CASE b \notin PhiBlocks(phis, v)
      BY <2>2, <3>2
    <3>3. QED
      BY <3>1, <3>2
  <2>5. QED
    BY <2>3, <2>4 DEF x
<1>6. QED
  BY <1>2, <1>4, <1>5

(* A load before the end reads a value of its local. *)
LEMMA LoadRep ==
  ASSUME NEW p \in Programs, NEW ph, NEW op, NEW b \in Blocks, NEW k \in Positions(p, b), Computes(p, b, k)
  PROVE  LET v == p.code[b][k].var
             rep == Rep(p, ph, op, b, k, End(p, b)) IN
         /\ IsLocal(p, b, k, "load") => rep = ValueAt(p, ph, op, v, b, k)
         /\ ~ IsLocal(p, b, k, "load") => rep = <<b, k>>
         /\ IsLocal(p, b, k, "load") =>
              v \in Locals /\ (LastStore(p, b, v, k) = 0 => v \in Loaded(p))
<1> DEFINE v == p.code[b][k].var
<1>1. k < End(p, b) /\ k \in Nat
  BY PositionsFacts
<1>2. IsLocal(p, b, k, "load") => Rep(p, ph, op, b, k, End(p, b)) = ValueAt(p, ph, op, v, b, k)
  BY <1>1 DEF Rep, ValueAt
<1>3. ~ IsLocal(p, b, k, "load") => Rep(p, ph, op, b, k, End(p, b)) = <<b, k>>
  BY DEF Rep
<1>4. ASSUME IsLocal(p, b, k, "load"), LastStore(p, b, v, k) = 0
      PROVE  v \in Loaded(p)
  <2>1. p.code[b][k].op = "load" /\ v \in Locals
    BY <1>4 DEF IsLocal
  <2>2. ~ IsLocal(p, b, k, "store")
    BY <2>1 DEF IsLocal
  <2>3. k \in Kept(p, b)
    BY <1>4, <2>2 DEF Kept
  <2>4. k \in Loads(p, b, v)
    BY <2>1 DEF Loads, Positions
  <2>5. QED
    BY <2>1, <2>3, <2>4 DEF Loaded
<1>5. QED
  BY <1>2, <1>3, <1>4 DEF IsLocal

(* Memory holds what the new program has for a local, at every position.   *)
LEMMA MemoryIs ==
  ASSUME Inv, pc = "run", NEW v \in Locals,
         v \in Loaded(prog) \/ LastStore(prog, run.block, v, run.ip) # 0
  PROVE  run.mem[v] = NewOf(run, ValueAt(prog, phis, operand, v, run.block, run.ip))
<1> DEFINE b == run.block
           j == LastStore(prog, b, v, run.ip)
           a == prog.code[b][j].arg
<1>1. /\ prog \in Programs /\ b \in Blocks /\ run.ip \in Nat \ {0} /\ run.ip <= End(prog, b)
      /\ End(prog, b) \in Nat /\ MemOk(run) /\ ValuesOk(run)
      /\ UsesInv(prog, phis, operand, b, End(prog, b))
  BY RunFacts
<1>2. j \in Nat /\ (j # 0 => j \in Stores(prog, b, v) /\ j < run.ip)
  BY <1>1, LastStoreFacts
<1>3. IF j = 0 THEN v \in Loaded(prog) => run.mem[v] = NewOf(run, EntryVal(prog, phis, operand, v, b))
      ELSE run.mem[v] = run.old[<<b, a>>]
  BY <1>1 DEF MemOk
<1>4. ValueAt(prog, phis, operand, v, b, run.ip)
        = IF j # 0 THEN operand[<<b, j>>] ELSE EntryVal(prog, phis, operand, v, b)
  BY DEF ValueAt
<1>5. CASE j = 0
  BY <1>3, <1>4, <1>5
<1>6. CASE j # 0
  <2>1. j \in Positions(prog, b) /\ TakesOperand(prog, b, j)
    BY <1>1, <1>2, <1>6, StoresFacts DEF TakesOperand
  <2>2. a \in 1 .. j - 1 /\ Computes(prog, b, a)
    BY <1>1, <2>1, ProgramFacts
  <2>3. a \in 1 .. run.ip - 1
    <3>1. j < run.ip /\ j \in Nat /\ run.ip \in Nat
      BY <1>1, <1>2, <1>6, Zenon
    <3> HIDE DEF a, j
    <3>2. QED
      BY <2>2, <3>1
  <2>4. run.old[<<b, a>>] = NewOf(run, Rep(prog, phis, operand, b, a, End(prog, b)))
    BY <1>1, <2>2, <2>3 DEF ValuesOk
  <2>5. operand[<<b, j>>] = Rep(prog, phis, operand, b, a, End(prog, b))
    BY <1>1, <2>1 DEF UsesInv
  <2>6. QED
    BY <1>3, <1>4, <1>6, <2>4, <2>5
<1>7. QED
  BY <1>5, <1>6

(* A step of the two programs. *)
LEMMA RunsOn ==
  ASSUME Inv, pc = "run",
         UNCHANGED <<prog, dom_frontier, pc, irVars, scanVars, phiVars, nameVars, fault>>,
         NEW r, run' = r, RunShape(r), MemOk(r), ValuesOk(r)
  PROVE  Inv'
<1>1. UNCHANGED <<prog, dom_frontier, live, operand, phis, phi_args, scanVars, phiVars, nameVars, fault>>
  BY DEF irVars
<1>2. pc' = "run" /\ allocas' = {}
  BY RunFacts DEF irVars
<1>3. /\ TypeInv' /\ PhaseInv' /\ ForwardInv' /\ LiveInv' /\ PhiInv' /\ OperandsInv'
      /\ FramesInv' /\ VisitedInv' /\ StackInv' /\ PhiArgsInv' /\ ~ fault'
  BY <1>1, <1>2, StillRunning
<1>4. UNCHANGED <<prog, phis, operand>>
  BY <1>1
<1>5. UNCHANGED Ids
  BY <1>4 DEF Ids, Code
<1>6. RunShape(run)'
  BY <1>4, <1>5 DEF RunShape, Phis
<1>7. MemOk(run)'
  BY <1>4 DEF MemOk
<1>8. ValuesOk(run)'
  BY <1>4 DEF ValuesOk
<1>9. RunInv'
  BY <1>6, <1>7, <1>8 DEF RunInv
<1>10. QED
  BY <1>3, <1>9 DEF Inv

(* An instruction computes: o in the given program, n in the new one. *)
ComputeStep(r, o, n) ==
  /\ r.block = run.block /\ r.ip = run.ip + 1 /\ r.mem = run.mem
  /\ r.old = [run.old EXCEPT ![Here] = o] /\ r.new = [run.new EXCEPT ![Here] = n]
  /\ DOMAIN r = {"block", "ip", "mem", "old", "new"}
  /\ IF IsLocal(prog, run.block, run.ip, "load")
       THEN o = NewOf(run, ValueAt(prog, phis, operand, prog.code[run.block][run.ip].var, run.block, run.ip))
       ELSE o = n

(* No value that stands for a local is the one computed. *)
LEMMA ComputeKeeps ==
  ASSUME Inv, pc = "run", Computes(prog, run.block, run.ip), NEW r, NEW o, NEW n, ComputeStep(r, o, n)
  PROVE  RunShape(r) /\ MemOk(r) /\ ValuesOk(r)
<1> DEFINE b == run.block
           k == run.ip
<1>1. /\ prog \in Programs /\ b \in Blocks /\ k \in Nat \ {0} /\ End(prog, b) \in Nat \ {0}
      /\ RunShape(run) /\ MemOk(run) /\ ValuesOk(run)
  BY RunFacts
<1>2. k \in Positions(prog, b) /\ prog.code[b][k].op # "store"
  BY DEF Computes
<1>3. k < End(prog, b) /\ k + 1 \in 1 .. End(prog, b)
  <2>1. k < End(prog, b)
    BY <1>1, <1>2, PositionsFacts
  <2>2. QED
    BY <1>1, <2>1
<1>4. Here = <<b, k>> /\ Here \in Ids /\ Here # NULL
  BY <1>1, <1>2, IdFacts, ValueFacts DEF Here
<1>5. /\ DOMAIN run.mem = Vars /\ DOMAIN run.old = Ids /\ DOMAIN run.new = Ids \cup Phis
  BY <1>1 DEF RunShape
<1>6. /\ r.block = b /\ r.ip = k + 1 /\ r.mem = run.mem
      /\ DOMAIN r.old = Ids /\ r.old[Here] = o /\ \A x \in Ids : x # Here => r.old[x] = run.old[x]
      /\ DOMAIN r.new = Ids \cup Phis /\ r.new[Here] = n
      /\ \A x \in Ids \cup Phis : x # Here => r.new[x] = run.new[x]
      /\ DOMAIN r = {"block", "ip", "mem", "old", "new"}
  BY <1>4, <1>5 DEF ComputeStep
<1>7. /\ \A x : x = NULL \/ (x \in Ids \cup Phis /\ x # Here) => NewOf(r, x) = NewOf(run, x)
      /\ NewOf(r, Here) = n
  BY <1>4, <1>6 DEF NewOf
<1>8. \A m \in 1 .. k - 1 : <<b, m>> # Here /\ m \in Nat /\ m < k
  BY <1>1, <1>4
<1>9. ASSUME NEW v \in Locals, NEW m \in Nat, m <= k, v \in Loaded(prog) \/ LastStore(prog, b, v, m) # 0
      PROVE  NewOf(r, ValueAt(prog, phis, operand, v, b, m)) = NewOf(run, ValueAt(prog, phis, operand, v, b, m))
  <2>1. CASE ValueAt(prog, phis, operand, v, b, m) = NULL
    BY <1>7, <2>1
  <2>2. CASE ValueAt(prog, phis, operand, v, b, m) # NULL
    <3>1. /\ ValueAt(prog, phis, operand, v, b, m) \in Ids \cup Phis
          /\ ValueAt(prog, phis, operand, v, b, m) # <<b, k>>
      BY <1>1, <1>9, <2>2, ValueBefore
    <3>2. QED
      BY <1>4, <1>7, <3>1
  <2>3. QED
    BY <2>1, <2>2
<1>10. RunShape(r)
  BY <1>1, <1>3, <1>5, <1>6 DEF RunShape
<1>11. MemOk(r)
  <2> SUFFICES ASSUME NEW v \in Locals
               PROVE  IF LastStore(prog, b, v, k + 1) = 0
                        THEN v \in Loaded(prog) => run.mem[v] = NewOf(r, EntryVal(prog, phis, operand, v, b))
                        ELSE run.mem[v] = r.old[<<b, prog.code[b][LastStore(prog, b, v, k + 1)].arg>>]
    BY <1>6 DEF MemOk
  <2> DEFINE j == LastStore(prog, b, v, k)
  <2>1. LastStore(prog, b, v, k + 1) = j
    <3>1. k \notin Stores(prog, b, v)
      BY <1>2 DEF Stores
    <3>2. QED
      BY <1>1, <3>1, LastStoreNext
  <2>2. IF j = 0 THEN v \in Loaded(prog) => run.mem[v] = NewOf(run, EntryVal(prog, phis, operand, v, b))
        ELSE run.mem[v] = run.old[<<b, prog.code[b][j].arg>>]
    BY <1>1 DEF MemOk
  <2>3. CASE j = 0
    <3>1. ValueAt(prog, phis, operand, v, b, k) = EntryVal(prog, phis, operand, v, b)
      BY <2>3 DEF ValueAt
    <3>2. v \in Loaded(prog) =>
            NewOf(r, EntryVal(prog, phis, operand, v, b)) = NewOf(run, EntryVal(prog, phis, operand, v, b))
      <4>1. v \in Loaded(prog) => NewOf(r, ValueAt(prog, phis, operand, v, b, k))
                                    = NewOf(run, ValueAt(prog, phis, operand, v, b, k))
        BY <1>1, <1>9
      <4>2. QED
        BY <3>1, <4>1
    <3>3. QED
      BY <2>1, <2>2, <2>3, <3>2
  <2>4. CASE j # 0
    <3>1. j \in Stores(prog, b, v) /\ j < k /\ j \in Nat
      BY <1>1, <2>4, LastStoreFacts
    <3>2. TakesOperand(prog, b, j) /\ j \in Positions(prog, b)
      BY <1>1, <3>1, StoresFacts DEF TakesOperand
    <3>3. prog.code[b][j].arg \in 1 .. j - 1 /\ Computes(prog, b, prog.code[b][j].arg)
      BY <1>1, <3>2, ProgramFacts
    <3>4. <<b, prog.code[b][j].arg>> \in Ids
      BY <1>1, <3>3, IdFacts DEF Computes
    <3>5. <<b, prog.code[b][j].arg>> # Here
      BY <1>1, <1>8, <3>1, <3>3
    <3>6. QED
      BY <1>6, <2>1, <2>2, <2>4, <3>4, <3>5
  <2>5. QED
    BY <2>3, <2>4
<1>12. ValuesOk(r)
  <2> SUFFICES ASSUME NEW m \in 1 .. r.ip - 1, Computes(prog, r.block, m)
               PROVE  r.old[<<r.block, m>>]
                        = NewOf(r, Rep(prog, phis, operand, r.block, m, End(prog, r.block)))
    BY DEF ValuesOk
  <2>0. r.block = b /\ m \in 1 .. k /\ Computes(prog, b, m)
    BY <1>1, <1>6
  <2> SUFFICES r.old[<<b, m>>] = NewOf(r, Rep(prog, phis, operand, b, m, End(prog, b)))
    BY <2>0
  <2> DEFINE v == prog.code[b][m].var
  <2>1. m \in Positions(prog, b) /\ m \in Nat /\ m <= k /\ Computes(prog, b, m)
    BY <1>1, <2>0 DEF Computes
  <2>2. /\ IsLocal(prog, b, m, "load") =>
             Rep(prog, phis, operand, b, m, End(prog, b)) = ValueAt(prog, phis, operand, v, b, m)
        /\ ~ IsLocal(prog, b, m, "load") => Rep(prog, phis, operand, b, m, End(prog, b)) = <<b, m>>
        /\ IsLocal(prog, b, m, "load") =>
              v \in Locals /\ (LastStore(prog, b, v, m) = 0 => v \in Loaded(prog))
    BY <1>1, <2>1, LoadRep
  <2>3. <<b, m>> \in Ids
    BY <1>1, <2>1, IdFacts
  <2>4. CASE m # k
    <3>1. m \in 1 .. k - 1 /\ <<b, m>> # Here
      BY <1>1, <1>8, <2>1, <2>4
    <3>2. run.old[<<b, m>>] = NewOf(run, Rep(prog, phis, operand, b, m, End(prog, b)))
      BY <1>1, <2>1, <3>1 DEF ValuesOk
    <3>3. NewOf(r, Rep(prog, phis, operand, b, m, End(prog, b)))
            = NewOf(run, Rep(prog, phis, operand, b, m, End(prog, b)))
      <4>1. CASE IsLocal(prog, b, m, "load")
        <5>1. v \in Locals /\ (v \in Loaded(prog) \/ LastStore(prog, b, v, m) # 0)
          BY <2>2, <4>1
        <5>2. NewOf(r, ValueAt(prog, phis, operand, v, b, m)) = NewOf(run, ValueAt(prog, phis, operand, v, b, m))
          BY <1>9, <2>1, <5>1
        <5>3. QED
          BY <2>2, <4>1, <5>2
      <4>2. CASE ~ IsLocal(prog, b, m, "load")
        BY <1>7, <2>2, <2>3, <3>1, <4>2
      <4>3. QED
        BY <4>1, <4>2
    <3>4. QED
      BY <1>6, <2>3, <3>1, <3>2, <3>3
  <2>5. CASE m = k
    <3>1. r.old[<<b, m>>] = o
      BY <1>4, <1>6, <2>5
    <3>2. CASE IsLocal(prog, b, m, "load")
      <4>1. v \in Locals /\ (v \in Loaded(prog) \/ LastStore(prog, b, v, m) # 0)
        BY <2>2, <3>2
      <4>2. NewOf(r, ValueAt(prog, phis, operand, v, b, m)) = NewOf(run, ValueAt(prog, phis, operand, v, b, m))
        BY <1>9, <2>1, <4>1
      <4>3. o = NewOf(run, ValueAt(prog, phis, operand, v, b, m))
        BY <2>5, <3>2 DEF ComputeStep
      <4>4. QED
        BY <2>2, <3>1, <3>2, <4>2, <4>3
    <3>3. CASE ~ IsLocal(prog, b, m, "load")
      <4>1. o = n
        BY <2>5, <3>3 DEF ComputeStep
      <4>2. QED
        BY <1>4, <1>7, <2>2, <2>5, <3>1, <3>3, <4>1
    <3>4. QED
      BY <3>2, <3>3
  <2>6. QED
    BY <2>4, <2>5
<1>13. QED
  BY <1>10, <1>11, <1>12

(* Both programs compute the same datum. *)
LEMMA RunDefKeeps ==
  ASSUME Inv, NEW d \in Data, RunDef(d)
  PROVE  Inv'
<1> DEFINE r0 == [run EXCEPT !.old[Here] = d, !.new[Here] = d]
           r == [r0 EXCEPT !.ip = r0.ip + 1]
<1>1. /\ pc = "run" /\ run.ip <= Len(Code(run.block)) /\ Code(run.block)[run.ip].op = "def"
      /\ run' = r
      /\ UNCHANGED <<prog, dom_frontier, pc, irVars, scanVars, phiVars, nameVars, fault>>
  BY DEF RunDef, Running, Execute, Instr
<1>2. /\ run.ip \in Positions(prog, run.block) /\ prog.code[run.block][run.ip].op = "def"
      /\ DOMAIN run = {"block", "ip", "mem", "old", "new"}
  BY <1>1, RunFacts DEF RunShape
<1>3. /\ r.block = run.block /\ r.ip = run.ip + 1 /\ r.mem = run.mem
      /\ r.old = [run.old EXCEPT ![Here] = d] /\ r.new = [run.new EXCEPT ![Here] = d]
      /\ DOMAIN r = {"block", "ip", "mem", "old", "new"}
  BY <1>2
<1> HIDE DEF r
<1>4. Computes(prog, run.block, run.ip) /\ ~ IsLocal(prog, run.block, run.ip, "load")
  BY <1>2 DEF Computes, IsLocal
<1>5. ComputeStep(r, d, d)
  BY <1>3, <1>4 DEF ComputeStep
<1>6. RunShape(r) /\ MemOk(r) /\ ValuesOk(r)
  BY <1>1, <1>4, <1>5, ComputeKeeps
<1>7. QED
  BY <1>1, <1>6, RunsOn

(* A load of a local is gone from the new program, and what stands for it  *)
(* has the value it reads.                                                 *)
LEMMA RunLoadKeeps ==
  ASSUME Inv, RunLoad
  PROVE  Inv'
<1> DEFINE o == run.mem[Instr.var]
           n == IF run.ip \in live[run.block] THEN run.mem[Instr.var] ELSE Undef
           r0 == [run EXCEPT !.old[Here] = o, !.new[Here] = n]
           r == [r0 EXCEPT !.ip = r0.ip + 1]
           b == run.block
           k == run.ip
           v == prog.code[run.block][run.ip].var
<1>1. /\ pc = "run" /\ run.ip <= Len(Code(run.block)) /\ Instr.op = "load"
      /\ run' = r
      /\ UNCHANGED <<prog, dom_frontier, pc, irVars, scanVars, phiVars, nameVars, fault>>
  BY DEF RunLoad, Running, Execute
<1>2. /\ prog \in Programs /\ b \in Blocks /\ k \in Positions(prog, b) /\ Instr = prog.code[b][k]
      /\ prog.code[b][k].op = "load" /\ live[b] = Renamed(prog, b) /\ Here = <<b, k>>
      /\ DOMAIN run = {"block", "ip", "mem", "old", "new"}
  BY <1>1, RunFacts DEF RunShape, Instr, Here
<1> HIDE DEF o, n
<1>3. /\ r.block = run.block /\ r.ip = run.ip + 1 /\ r.mem = run.mem
      /\ r.old = [run.old EXCEPT ![Here] = o] /\ r.new = [run.new EXCEPT ![Here] = n]
      /\ DOMAIN r = {"block", "ip", "mem", "old", "new"}
  BY <1>2
<1> HIDE DEF r
<1>4. Computes(prog, b, k)
  BY <1>2, Zenon DEF Computes
<1>5. ASSUME IsLocal(prog, b, k, "load") PROVE ComputeStep(r, o, n)
  <2>1. v \in Locals /\ (v \in Loaded(prog) \/ LastStore(prog, b, v, k) # 0)
    BY <1>2, <1>4, <1>5, LoadRep
  <2>2. run.mem[v] = NewOf(run, ValueAt(prog, phis, operand, v, b, k))
    BY <1>1, <2>1, MemoryIs
  <2>3. o = run.mem[v]
    BY <1>2 DEF o
  <2>4. QED
    BY <1>3, <1>5, <2>2, <2>3 DEF ComputeStep
<1>6. ASSUME ~ IsLocal(prog, b, k, "load") PROVE ComputeStep(r, o, n)
  <2>1. k \in Kept(prog, b)
    BY <1>2, <1>6 DEF Kept, IsLocal
  <2>2. k \in Renamed(prog, b)
    BY <1>2, <1>6, <2>1 DEF Renamed, IsLocalOp, IsLocal
  <2>3. o = n
    BY <1>2, <2>2 DEF o, n
  <2>4. QED
    BY <1>3, <1>6, <2>3 DEF ComputeStep
<1>7. ComputeStep(r, o, n)
  BY <1>5, <1>6
<1>8. RunShape(r) /\ MemOk(r) /\ ValuesOk(r)
  BY <1>1, <1>4, <1>7, ComputeKeeps
<1>9. QED
  BY <1>1, <1>8, RunsOn

(* A store writes the same to the memory of both programs, or to a local.  *)
LEMMA RunStoreKeeps ==
  ASSUME Inv, RunStore
  PROVE  Inv'
<1> DEFINE b == run.block
           k == run.ip
           u == prog.code[run.block][run.ip].var
           a == prog.code[run.block][run.ip].arg
           r0 == [run EXCEPT !.mem[Instr.var] = run.old[<<run.block, Instr.arg>>]]
           r == [r0 EXCEPT !.ip = r0.ip + 1]
<1>1. /\ pc = "run" /\ run.ip <= Len(Code(run.block)) /\ Instr.op = "store"
      /\ run' = r
      /\ UNCHANGED <<prog, dom_frontier, pc, irVars, scanVars, phiVars, nameVars, fault>>
  BY DEF RunStore, Running, Execute
<1>2. /\ prog \in Programs /\ b \in Blocks /\ k \in Positions(prog, b) /\ Instr = prog.code[b][k]
      /\ k \in Nat \ {0} /\ End(prog, b) \in Nat \ {0}
      /\ prog.code[b][k].op = "store" /\ RunShape(run) /\ MemOk(run) /\ ValuesOk(run)
      /\ DOMAIN run = {"block", "ip", "mem", "old", "new"}
      /\ DOMAIN run.mem = Vars /\ DOMAIN run.old = Ids /\ DOMAIN run.new = Ids \cup Phis
  BY <1>1, RunFacts DEF RunShape, Instr
<1>3. /\ r.block = run.block /\ r.ip = run.ip + 1 /\ r.old = run.old /\ r.new = run.new
      /\ r.mem = [run.mem EXCEPT ![u] = run.old[<<run.block, a>>]]
      /\ DOMAIN r = {"block", "ip", "mem", "old", "new"}
  BY <1>2
<1> HIDE DEF r
<1>4. k + 1 \in 1 .. End(prog, b)
  <2>1. k < End(prog, b)
    BY <1>2, PositionsFacts
  <2>2. QED
    BY <1>2, <2>1
<1>5. RunShape(r)
  BY <1>2, <1>3, <1>4 DEF RunShape
<1>6. \A x : NewOf(r, x) = NewOf(run, x)
  BY <1>3 DEF NewOf
<1>7. MemOk(r)
  <2> SUFFICES ASSUME NEW v \in Locals
               PROVE  IF LastStore(prog, r.block, v, r.ip) = 0
                        THEN v \in Loaded(prog) => r.mem[v] = NewOf(r, EntryVal(prog, phis, operand, v, r.block))
                        ELSE r.mem[v]
                               = r.old[<<r.block, prog.code[r.block][LastStore(prog, r.block, v, r.ip)].arg>>]
    BY DEF MemOk
  <2>0. r.block = b /\ r.ip = k + 1 /\ r.old = run.old
    BY <1>3
  <2> SUFFICES IF LastStore(prog, b, v, k + 1) = 0
                 THEN v \in Loaded(prog) => r.mem[v] = NewOf(run, EntryVal(prog, phis, operand, v, b))
                 ELSE r.mem[v] = run.old[<<b, prog.code[b][LastStore(prog, b, v, k + 1)].arg>>]
    BY <1>6, <2>0
  <2>1. LastStore(prog, b, v, k + 1) = IF k \in Stores(prog, b, v) THEN k ELSE LastStore(prog, b, v, k)
    BY <1>2, LastStoreNext
  <2>2. k \in Stores(prog, b, v) <=> v = u
    BY <1>2 DEF Stores, Positions
  <2>3. IF LastStore(prog, b, v, k) = 0
          THEN v \in Loaded(prog) => run.mem[v] = NewOf(run, EntryVal(prog, phis, operand, v, b))
          ELSE run.mem[v] = run.old[<<b, prog.code[b][LastStore(prog, b, v, k)].arg>>]
    BY <1>2 DEF MemOk
  <2>4. v \in Vars
    BY DEF Vars
  <2>5. CASE v = u
    <3>1. r.mem[v] = run.old[<<b, a>>] /\ LastStore(prog, b, v, k + 1) = k /\ k # 0
      <4>1. r.mem[v] = run.old[<<b, a>>]
        BY <1>2, <1>3, <2>4, <2>5
      <4>2. LastStore(prog, b, v, k + 1) = k /\ k # 0
        BY <1>2, <2>1, <2>2, <2>5
      <4>3. QED
        BY <4>1, <4>2, Zenon
    <3>2. QED
      BY <3>1
  <2>6. CASE v # u
    <3>1. r.mem[v] = run.mem[v] /\ LastStore(prog, b, v, k + 1) = LastStore(prog, b, v, k)
      <4>1. r.mem[v] = run.mem[v]
        BY <1>2, <1>3, <2>4, <2>6
      <4>2. LastStore(prog, b, v, k + 1) = LastStore(prog, b, v, k)
        BY <2>1, <2>2, <2>6
      <4>3. QED
        BY <4>1, <4>2, Zenon
    <3>2. QED
      BY <2>3, <3>1
  <2>7. QED
    BY <2>5, <2>6
<1>8. ValuesOk(r)
  <2> SUFFICES ASSUME NEW m \in 1 .. r.ip - 1, Computes(prog, r.block, m)
               PROVE  r.old[<<r.block, m>>]
                        = NewOf(r, Rep(prog, phis, operand, r.block, m, End(prog, r.block)))
    BY DEF ValuesOk
  <2>1. r.block = b /\ m \in 1 .. k /\ Computes(prog, b, m)
    BY <1>2, <1>3
  <2>2. m # k
    BY <1>2, <2>1 DEF Computes
  <2>3. m \in 1 .. k - 1
    BY <1>2, <2>1, <2>2
  <2>4. run.old[<<b, m>>] = NewOf(run, Rep(prog, phis, operand, b, m, End(prog, b)))
    BY <1>2, <2>1, <2>3 DEF ValuesOk
  <2>5. QED
    BY <1>3, <1>6, <2>1, <2>4
<1>9. QED
  BY <1>1, <1>5, <1>7, <1>8, RunsOn

(* A use computes nothing. *)
LEMMA RunUseKeeps ==
  ASSUME Inv, RunUse
  PROVE  Inv'
<1> DEFINE b == run.block
           k == run.ip
           r == [run EXCEPT !.ip = run.ip + 1]
<1>1. /\ pc = "run" /\ run.ip <= Len(Code(run.block)) /\ Instr.op = "use"
      /\ run' = r
      /\ UNCHANGED <<prog, dom_frontier, pc, irVars, scanVars, phiVars, nameVars, fault>>
  BY DEF RunUse, Running, Execute
<1>2. /\ prog \in Programs /\ b \in Blocks /\ k \in Positions(prog, b) /\ Instr = prog.code[b][k]
      /\ k \in Nat \ {0} /\ End(prog, b) \in Nat \ {0}
      /\ prog.code[b][k].op = "use" /\ RunShape(run) /\ MemOk(run) /\ ValuesOk(run)
      /\ DOMAIN run = {"block", "ip", "mem", "old", "new"}
  BY <1>1, RunFacts DEF RunShape, Instr
<1>3. /\ r.block = run.block /\ r.ip = run.ip + 1 /\ r.old = run.old /\ r.new = run.new
      /\ r.mem = run.mem /\ DOMAIN r = {"block", "ip", "mem", "old", "new"}
  BY <1>2
<1> HIDE DEF r
<1>4. k + 1 \in 1 .. End(prog, b)
  <2>1. k < End(prog, b)
    BY <1>2, PositionsFacts
  <2>2. QED
    BY <1>2, <2>1
<1>5. RunShape(r)
  BY <1>2, <1>3, <1>4 DEF RunShape
<1>6. \A x : NewOf(r, x) = NewOf(run, x)
  BY <1>3 DEF NewOf
<1>7. MemOk(r)
  <2> SUFFICES ASSUME NEW v \in Locals
               PROVE  IF LastStore(prog, b, v, k + 1) = 0
                        THEN v \in Loaded(prog) => run.mem[v] = NewOf(run, EntryVal(prog, phis, operand, v, b))
                        ELSE run.mem[v] = run.old[<<b, prog.code[b][LastStore(prog, b, v, k + 1)].arg>>]
    BY <1>3, <1>6 DEF MemOk
  <2>1. k \notin Stores(prog, b, v)
    BY <1>2 DEF Stores
  <2>2. LastStore(prog, b, v, k + 1) = LastStore(prog, b, v, k)
    BY <1>2, <2>1, LastStoreNext
  <2>3. IF LastStore(prog, b, v, k) = 0
          THEN v \in Loaded(prog) => run.mem[v] = NewOf(run, EntryVal(prog, phis, operand, v, b))
          ELSE run.mem[v] = run.old[<<b, prog.code[b][LastStore(prog, b, v, k)].arg>>]
    BY <1>2 DEF MemOk
  <2>4. QED
    BY <2>2, <2>3
<1>8. ValuesOk(r)
  <2> SUFFICES ASSUME NEW m \in 1 .. r.ip - 1, Computes(prog, r.block, m)
               PROVE  r.old[<<r.block, m>>]
                        = NewOf(r, Rep(prog, phis, operand, r.block, m, End(prog, r.block)))
    BY DEF ValuesOk
  <2>1. r.block = b /\ m \in 1 .. k /\ Computes(prog, b, m)
    BY <1>2, <1>3
  <2>2. m # k
    BY <1>2, <2>1 DEF Computes
  <2>3. m \in 1 .. k - 1
    BY <1>2, <2>1, <2>2
  <2>4. run.old[<<b, m>>] = NewOf(run, Rep(prog, phis, operand, b, m, End(prog, b)))
    BY <1>2, <2>1, <2>3 DEF ValuesOk
  <2>5. QED
    BY <1>3, <1>6, <2>1, <2>4
<1>9. QED
  BY <1>1, <1>5, <1>7, <1>8, RunsOn

(* The phis of a successor take what the block is left with. *)
LEMMA PhiTakes ==
  ASSUME Inv, pc = "run", NEW s \in prog.cfg[run.block], NEW v \in Locals, s \in PhiBlocks(phis, v)
  PROVE  PhiValue(<<s, v>>, run.block)
           = NewOf(run, ValueAt(prog, phis, operand, v, run.block, End(prog, run.block)))
<1> DEFINE b == run.block
           args == phi_args[<<s, v>>]
           x == ValueAt(prog, phis, operand, v, b, End(prog, b))
           from == {k \in DOMAIN args : args[k][2] = b}
<1>1. prog \in Programs /\ b \in Blocks /\ Passed(b)
  BY RunFacts
<1>2. s \in Blocks /\ <<s, v>> \in Phis
  BY <1>1, ProgramFacts DEF Phis
<1>3. args \in Seq(Values \X Blocks)
  BY <1>2 DEF Inv, TypeInv
<1>4. DOMAIN args = 1 .. Len(args) /\ \A k \in 1 .. Len(args) : args[k] \in Values \X Blocks
  BY <1>3, TypedSequence, SequenceFacts1
<1>5. PhiArgsOf(s, v)
  BY <1>2 DEF Inv, PhiArgsInv
<1>6. \A k \in 1 .. Len(args) : args[k][2] = b => args[k][1] = x
  BY <1>1, <1>5 DEF PhiArgsOf
<1>7. x # NULL => \E k \in 1 .. Len(args) : args[k][2] = b
  BY <1>1, <1>5 DEF PhiArgsOf
<1>8. PhiValue(<<s, v>>, b) = IF from = {} THEN Undef ELSE run.new[args[CHOOSE k \in from : TRUE][1]]
  BY DEF PhiValue
<1> HIDE DEF x
<1>9. CASE from = {}
  <2>1. x = NULL
    BY <1>4, <1>7, <1>9
  <2>2. QED
    BY <1>8, <1>9, <2>1 DEF NewOf, x
<1>10. CASE from # {}
  <2>1. (CHOOSE k \in from : TRUE) \in from
    BY <1>10
  <2>2. args[CHOOSE k \in from : TRUE][1] = x /\ x \in Values
    BY <1>4, <1>6, <2>1
  <2>3. x # NULL
    BY <2>2, ValueFacts DEF Values
  <2>4. QED
    BY <1>8, <1>10, <2>2, <2>3 DEF NewOf, x
<1>11. QED
  BY <1>9, <1>10

(* A branch: what memory holds is what the block is left with, which is    *)
(* what the successor is entered with, by its phi or without one.          *)
LEMMA RunBranchKeeps ==
  ASSUME Inv, NEW s \in Blocks, RunBranch(s)
  PROVE  Inv'
<1> DEFINE b == run.block
           mine == {<<s, v>> : v \in ToSet(phis[s])}
           r == [run EXCEPT
                  !.block = s, !.ip = 1,
                  !.old = [id \in Ids |-> Undef],
                  !.new = [x \in DOMAIN run.new |->
                             IF x \in mine THEN PhiValue(x, run.block) ELSE run.new[x]]]
<1>1. /\ pc = "run" /\ run.ip > Len(Code(run.block)) /\ s \in prog.cfg[run.block]
      /\ run' = r
      /\ UNCHANGED <<prog, dom_frontier, pc, irVars, scanVars, phiVars, nameVars, fault>>
  BY DEF RunBranch
<1>2. /\ prog \in Programs /\ b \in Blocks /\ Reached(s)
      /\ run.ip \in Nat \ {0} /\ run.ip <= End(prog, b) /\ End(prog, b) \in Nat \ {0}
      /\ RunShape(run) /\ Code(b) = prog.code[b]
      /\ DOMAIN run = {"block", "ip", "mem", "old", "new"}
      /\ DOMAIN run.mem = Vars /\ DOMAIN run.new = Ids \cup Phis
  BY <1>1, RunFacts DEF RunShape
<1>3. run.ip = End(prog, b)
  <2>1. Len(prog.code[b]) \in Nat
    BY <1>2, ProgramFacts
  <2>2. QED
    BY <1>1, <1>2, <2>1 DEF End
<1>4. /\ r.block = s /\ r.ip = 1 /\ r.old = [id \in Ids |-> Undef] /\ r.mem = run.mem
      /\ r.new = [x \in DOMAIN run.new |-> IF x \in mine THEN PhiValue(x, run.block) ELSE run.new[x]]
      /\ DOMAIN r = {"block", "ip", "mem", "old", "new"}
  BY <1>2
<1> HIDE DEF r
<1>5. RunShape(r)
  <2>1. 1 \in 1 .. End(prog, s)
    BY <1>2, PositionsFacts
  <2>2. QED
    BY <1>2, <1>4, <2>1 DEF RunShape
<1>6. MemOk(r)
  <2>1. ASSUME NEW v \in Loaded(prog) PROVE run.mem[v] = NewOf(r, EntryVal(prog, phis, operand, v, s))
    <3> DEFINE x == ValueAt(prog, phis, operand, v, b, End(prog, b))
               e == EntryVal(prog, phis, operand, v, s)
    <3>1. v \in Locals /\ Complete(prog, phis, v)
      BY <1>1, PlacedFacts
    <3>2. run.mem[v] = NewOf(run, x)
      BY <1>1, <1>3, <3>1, MemoryIs
    <3>3. CASE s \in PhiBlocks(phis, v)
      <4>1. e = <<s, v>> /\ e \in mine /\ e \in Phis /\ e # NULL
        BY <3>1, <3>3, ValueFacts DEF EntryVal, PhiBlocks, Phis
      <4>2. PhiValue(<<s, v>>, b) = NewOf(run, x)
        BY <1>1, <3>1, <3>3, PhiTakes
      <4>3. r.new[e] = PhiValue(<<s, v>>, b)
        BY <1>2, <1>4, <4>1
      <4>4. QED
        BY <3>2, <4>1, <4>2, <4>3 DEF NewOf
    <3>4. CASE s \notin PhiBlocks(phis, v)
      <4>1. e = x
        BY <1>1, <1>2, <3>1, <3>4, EdgeValue
      <4>2. CASE e = NULL
        BY <3>2, <4>1, <4>2 DEF NewOf
      <4>3. CASE e # NULL
        <5>1. Available(prog, phis, e, s, 1) /\ e[1] # s
          BY <1>1, <1>2, <3>4, <4>3, ReachedAvailable
        <5>2. e \in Ids \cup Phis
          BY <1>2, <5>1, InPlaceValue DEF Available
        <5>3. e \notin mine
          <6>1. \A w \in mine : w[1] = s
            OBVIOUS
          <6>2. QED
            BY <5>1, <6>1
        <5>4. r.new[e] = run.new[e]
          BY <1>2, <1>4, <5>2, <5>3
        <5>5. QED
          BY <3>2, <4>1, <4>3, <5>4 DEF NewOf
      <4>4. QED
        BY <4>2, <4>3
    <3>5. QED
      BY <3>3, <3>4
  <2>2. \A v \in Locals : LastStore(prog, s, v, 1) = 0
    BY <1>2, LastStoreFirst
  <2>3. QED
    BY <1>4, <2>1, <2>2 DEF MemOk
<1>7. ValuesOk(r)
  <2>1. \A m : m \notin 1 .. 1 - 1
    OBVIOUS
  <2>2. QED
    BY <1>4, <2>1 DEF ValuesOk
<1>8. QED
  BY <1>1, <1>5, <1>6, <1>7, RunsOn

(* The pass starts with nothing done. *)
LEMMA InitKeeps ==
  ASSUME Init
  PROVE  Inv
<1>1. /\ prog \in Programs
      /\ dom_frontier = [b \in Blocks |-> Dom!DominanceFrontier(prog.cfg, b)]
      /\ pc = "forward" /\ live = [b \in Blocks |-> Positions(prog, b)]
      /\ operand = [id \in Ids |-> IF prog.code[id[1]][id[2]].op \in {"use", "store"}
                                   THEN <<id[1], prog.code[id[1]][id[2]].arg>> ELSE NULL]
      /\ phis = [b \in Blocks |-> <<>>] /\ phi_args = [ph \in Phis |-> <<>>]
      /\ allocas = Locals /\ at = 1 /\ i = 1
      /\ defined_list = [v \in Locals |-> 0] /\ new_value = [v \in Locals |-> NULL]
      /\ forward_list = [k \in {} |-> NULL] /\ delete_list = {}
      /\ todo = {} /\ var = NULL /\ queue = <<>>
      /\ define_var = [b \in Blocks |-> [v \in Locals |-> 0]]
      /\ value_status = [v \in Locals |-> <<>>]
      /\ visited = {} /\ frames = <<>> /\ fault = FALSE
  BY DEF Init, Code, Positions
<1>2. \A n : n \notin 1 .. 0
  OBVIOUS
<1>3. 1 \in 1 .. Len(BlockList) /\ \A n \in 1 .. Len(BlockList) : BlockList[n] \in Blocks /\ ~ (n < 1)
  BY BlockListFacts
<1>4. ASSUME NEW b \in Blocks, NEW k \in Positions(prog, b)
      PROVE  /\ <<b, k>> \in Ids
             /\ TakesOperand(prog, b, k) =>
                  /\ operand[<<b, k>>] = <<b, prog.code[b][k].arg>>
                  /\ operand[<<b, k>>] \in Ids /\ operand[<<b, k>>] # NULL
             /\ ~ TakesOperand(prog, b, k) => operand[<<b, k>>] = NULL
  <2>1. <<b, k>> \in Ids
    BY <1>1, IdFacts
  <2>2. operand[<<b, k>>] = IF prog.code[b][k].op \in {"use", "store"}
                            THEN <<b, prog.code[b][k].arg>> ELSE NULL
    BY <1>1, <2>1
  <2>3. ~ TakesOperand(prog, b, k) => operand[<<b, k>>] = NULL
    BY <2>2 DEF TakesOperand
  <2>4. TakesOperand(prog, b, k) =>
          operand[<<b, k>>] = <<b, prog.code[b][k].arg>> /\ <<b, prog.code[b][k].arg>> \in Ids
    <3> SUFFICES ASSUME TakesOperand(prog, b, k)
                 PROVE  operand[<<b, k>>] = <<b, prog.code[b][k].arg>> /\ <<b, prog.code[b][k].arg>> \in Ids
      OBVIOUS
    <3>1. Computes(prog, b, prog.code[b][k].arg)
      BY <1>1, ProgramFacts
    <3>2. <<b, prog.code[b][k].arg>> \in Ids
      BY <1>1, <3>1, IdFacts, Zenon DEF Computes
    <3>3. QED
      BY <2>2, <3>2 DEF TakesOperand
  <2>5. QED
    BY <2>1, <2>3, <2>4, ValueFacts
<1>5. TypeInv
  <2>1. operand \in [Ids -> Ids \cup Phis \cup {NULL}]
    <3>1. ASSUME NEW x \in Ids PROVE operand[x] \in Ids \cup Phis \cup {NULL}
      <4>1. x = <<x[1], x[2]>> /\ x[1] \in Blocks /\ x[2] \in Positions(prog, x[1])
        BY <1>1, IdFacts
      <4>2. operand[<<x[1], x[2]>>] \in Ids \/ operand[<<x[1], x[2]>>] = NULL
        BY <1>4, <4>1
      <4>3. QED
        BY <4>1, <4>2
    <3>2. QED
      BY <1>1, <3>1
  <2>2. \A b \in Blocks : \A k \in Positions(prog, b) :
          operand[<<b, k>>] = NULL <=> ~ TakesOperand(prog, b, k)
    BY <1>4, Zenon
  <2>3. live \in [Blocks -> SUBSET Nat]
    BY <1>1, PositionsFacts
  <2>4. \A S : <<>> \in Seq(S)
    OBVIOUS
  <2>5. /\ phis \in [Blocks -> Seq(Locals)] /\ phi_args \in [Phis -> Seq(Values \X Blocks)]
        /\ queue \in Seq(Blocks) /\ value_status \in [Locals -> Seq(Values)] /\ frames \in Seq(FrameT)
    BY <1>1, <2>4
  <2>6. /\ defined_list \in [Locals -> Nat] /\ new_value \in [Locals -> Values \cup {NULL}]
        /\ define_var \in [Blocks -> [Locals -> Nat]]
        /\ todo \in SUBSET Locals /\ var \in Locals \cup {NULL}
        /\ visited \in SUBSET Blocks /\ fault \in BOOLEAN /\ i \in Nat \ {0}
    <3>1. defined_list \in [Locals -> Nat] /\ new_value \in [Locals -> Values \cup {NULL}]
      BY <1>1
    <3>2. define_var \in [Blocks -> [Locals -> Nat]]
      BY <1>1
    <3>3. /\ todo \in SUBSET Locals /\ var \in Locals \cup {NULL}
          /\ visited \in SUBSET Blocks
      BY <1>1
    <3>4. fault \in BOOLEAN
      BY <1>1, Zenon
    <3>5. i \in Nat \ {0}
      BY <1>1
    <3>6. QED
      BY <3>1, <3>2, <3>3, <3>4, <3>5
  <2>7. /\ pc \in {"forward", "collect", "genphi", "rename", "remove", "run"}
        /\ at \in 1 .. Len(BlockList)
    BY <1>1, <1>3
  <2>8. QED
    BY <1>1, <2>1, <2>2, <2>3, <2>5, <2>6, <2>7 DEF TypeInv
<1>6. PhaseInv
  BY <1>1 DEF PhaseInv
<1>7. ForwardInv
  <2>1. Block \in Blocks /\ Block = BlockList[1]
    BY <1>1, <1>3 DEF Block
  <2>2. 1 \in 1 .. End(prog, Block)
    BY <1>1, <2>1, PositionsFacts
  <2>3. \A v \in Locals : LastStore(prog, Block, v, 1) = 0
    BY <1>1, <2>1, LastStoreFirst
  <2>4. /\ DOMAIN forward_list = {} /\ 1 - 1 = 0 /\ i = 1
    BY <1>1
  <2>5. \A n \in 1 .. Len(BlockList) : \A j \in Positions(prog, BlockList[n]) :
          TakesOperand(prog, BlockList[n], j) =>
            operand[<<BlockList[n], j>>] = <<BlockList[n], prog.code[BlockList[n]][j].arg>>
    BY <1>3, <1>4
  <2>6. \A v \in Locals :
          /\ defined_list[v] = LastStore(prog, Block, v, i)
          /\ new_value[v] = IF defined_list[v] = 0 THEN NULL
                            ELSE Seen(forward_list, Block, operand[<<Block, defined_list[v]>>])
    BY <1>1, <2>3
  <2>7. /\ DOMAIN forward_list =
             {k \in 1 .. i - 1 : /\ IsLocal(prog, Block, k, "load")
                                 /\ LastStore(prog, Block, prog.code[Block][k].var, k) # 0}
        /\ delete_list =
             {k \in 1 .. i - 1 : /\ IsLocal(prog, Block, k, "store")
                                 /\ \E j \in Stores(prog, Block, prog.code[Block][k].var) : k < j /\ j < i}
    BY <1>1, <1>2, <2>4
  <2>8. ASSUME NEW n \in 1 .. Len(BlockList)
        PROVE  IF n < at
                 THEN UsesInv(prog, phis, operand, BlockList[n], 1)
                 ELSE \A j \in Positions(prog, BlockList[n]) : TakesOperand(prog, BlockList[n], j) =>
                        operand[<<BlockList[n], j>>] = <<BlockList[n], prog.code[BlockList[n]][j].arg>>
    <3>1. ~ (n < at)
      BY <1>1, <1>3
    <3>2. QED
      BY <2>5, <3>1
  <2>9. i \in 1 .. End(prog, Block) /\ \A k : k \notin DOMAIN forward_list
    BY <2>2, <2>4
  <2>10. QED
    BY <2>6, <2>7, <2>8, <2>9 DEF ForwardInv
<1>8. LiveInv
  BY <1>1, <1>3 DEF LiveInv
<1>9. PhiInv /\ OperandsInv /\ StackInv /\ PhiArgsInv /\ RunInv
  BY <1>1 DEF PhiInv, OperandsInv, StackInv, PhiArgsInv, RunInv
<1>10. FramesInv
  BY <1>1, <1>2 DEF FramesInv
<1>11. VisitedInv
  BY <1>1 DEF VisitedInv, Reached
<1>12. QED
  BY <1>1, <1>5, <1>6, <1>7, <1>8, <1>9, <1>10, <1>11 DEF Inv

(* A step of something else. *)
LEMMA StutterKeeps ==
  ASSUME Inv, UNCHANGED vars
  PROVE  Inv'
<1>1. /\ UNCHANGED <<prog, dom_frontier, pc, live, operand, phis, phi_args, allocas>>
      /\ UNCHANGED <<at, i, defined_list, new_value, forward_list, delete_list, todo, var, queue>>
      /\ UNCHANGED <<define_var, value_status, visited, frames, fault, run>>
  BY DEF vars, irVars, scanVars, phiVars, nameVars
<1>2. UNCHANGED <<Ids, Phis, Values, Block, Frame, bb>>
  BY <1>1 DEF Ids, Code, Phis, Values, Block, Frame, bb
<1>3. /\ \A b : Passed(b)' <=> Passed(b)
      /\ \A b : Reached(b)' <=> Reached(b)
      /\ \A b : InFrames(b)' <=> InFrames(b)
      /\ \A b : Ip(b)' = Ip(b)
      /\ \A v : Current(v)' = Current(v)
  BY <1>1, <1>2 DEF Passed, Reached, InFrames, Ip, Current
<1>4. TypeInv'
  BY <1>1, <1>2 DEF Inv, TypeInv
<1>5. PhaseInv'
  BY <1>1 DEF Inv, PhaseInv
<1>6. ForwardInv'
  BY <1>1, <1>2, Zenon DEF Inv, ForwardInv
<1>7. LiveInv'
  BY <1>1, <1>3, Zenon DEF Inv, LiveInv
<1>8. PhiInv'
  BY <1>1, Zenon DEF Inv, PhiInv
<1>9. OperandsInv'
  BY <1>1, <1>3, Zenon DEF Inv, OperandsInv
<1>10. FramesInv' /\ VisitedInv'
  BY <1>1, <1>3 DEF Inv, FramesInv, VisitedInv
<1>11. StackInv'
  <2>1. ASSUME NEW v, NEW h, Stacked(v, h) PROVE Stacked(v, h)'
    BY <1>1, <1>2, <1>3, <2>1, Zenon DEF Stacked
  <2>2. QED
    BY <1>1, <2>1 DEF Inv, StackInv
<1>12. PhiArgsInv'
  <2>1. ASSUME NEW s \in Blocks, NEW v \in Locals, PhiArgsOf(s, v) PROVE PhiArgsOf(s, v)'
    BY <1>1, <1>3, <2>1 DEF PhiArgsOf
  <2>2. QED
    BY <1>1, <2>1 DEF Inv, PhiArgsInv
<1>13. RunInv'
  BY <1>1, <1>2, Zenon DEF Inv, RunInv, RunShape, MemOk, ValuesOk
<1>14. ~ fault'
  BY <1>1 DEF Inv
<1>15. QED
  BY <1>4, <1>5, <1>6, <1>7, <1>8, <1>9, <1>10, <1>11, <1>12, <1>13, <1>14 DEF Inv

(* Every step of the pass, and of the runs after it. *)
LEMMA NextKeeps ==
  ASSUME Inv, Next
  PROVE  Inv'
<1>1. CASE ForwardStore
  BY <1>1, ForwardStoreKeeps
<1>2. CASE ForwardLoad
  BY <1>2, ForwardLoadKeeps
<1>3. CASE SkipInstr
  BY <1>3, SkipInstrKeeps
<1>4. CASE EndForwardBlock
  BY <1>4, EndForwardBlockKeeps
<1>5. CASE CollectLoaded
  BY <1>5, CollectLoadedKeeps
<1>6. ASSUME NEW v \in Locals, StartVar(v) PROVE Inv'
  BY <1>6, StartVarKeeps
<1>7. CASE PlacePhis
  BY <1>7, PlacePhisKeeps
<1>8. CASE EndVar
  BY <1>8, EndVarKeeps
<1>9. CASE ValueDefineCounting
  BY <1>9, ValueDefineCountingKeeps
<1>10. CASE PushPhis
  BY <1>10, PushPhisKeeps
<1>11. CASE RenameLoad
  BY <1>11, RenameLoadKeeps
<1>12. CASE RenameStore
  BY <1>12, RenameStoreKeeps
<1>13. CASE RenameOther
  BY <1>13, RenameOtherKeeps
<1>14. CASE FillPhiOperands
  BY <1>14, FillPhiOperandsKeeps
<1>15. ASSUME NEW s \in Blocks, VisitSucc(s) PROVE Inv'
  BY <1>15, VisitSuccKeeps
<1>16. CASE LeaveBlock
  BY <1>16, LeaveBlockKeeps
<1>17. CASE RemoveAlloc
  BY <1>17, RemoveAllocKeeps
<1>18. ASSUME NEW d \in Data, RunDef(d) PROVE Inv'
  BY <1>18, RunDefKeeps
<1>19. CASE RunLoad
  BY <1>19, RunLoadKeeps
<1>20. CASE RunStore
  BY <1>20, RunStoreKeeps
<1>21. CASE RunUse
  BY <1>21, RunUseKeeps
<1>22. ASSUME NEW s \in Blocks, RunBranch(s) PROVE Inv'
  BY <1>22, RunBranchKeeps
<1>23. QED
  BY <1>1, <1>2, <1>3, <1>4, <1>5, <1>6, <1>7, <1>8, <1>9, <1>10, <1>11, <1>12, <1>13, <1>14, <1>15,
     <1>16, <1>17, <1>18, <1>19, <1>20, <1>21, <1>22 DEF Next

-----------------------------------------------------------------------------
(***************************************************************************)
(* What follows from the invariant                                         *)
(***************************************************************************)
(* What is left of a block at any time. *)
LEMMA LiveBounds ==
  ASSUME Inv, NEW b \in Blocks
  PROVE  prog \in Programs /\ Renamed(prog, b) \subseteq live[b] /\ live[b] \subseteq Positions(prog, b)
<1>1. prog \in Programs
  BY DEF Inv, TypeInv
<1>2. live[b] \in {Renamed(prog, b), Kept(prog, b), Positions(prog, b)}
  <2>1. CASE pc = "forward"
    <3>1. PICK n \in 1 .. Len(BlockList) : BlockList[n] = b
      BY BlockListFacts
    <3>2. QED
      BY <2>1, <3>1 DEF Inv, LiveInv
  <2>2. CASE pc # "forward"
    BY <2>2 DEF Inv, LiveInv
  <2>3. QED
    BY <2>1, <2>2
<1>3. Renamed(prog, b) \subseteq Kept(prog, b) /\ Kept(prog, b) \subseteq Positions(prog, b)
  BY DEF Renamed, Kept
<1>4. QED
  BY <1>1, <1>2, <1>3

(* Every variable has its type. *)
LEMMA TypesFollow ==
  ASSUME Inv
  PROVE  TypeOK
<1>1. TypeInv /\ PhaseInv /\ ForwardInv
  BY DEF Inv
<1>2. \A b \in Blocks : live[b] \subseteq 1 .. Len(Code(b))
  BY LiveBounds DEF Positions, Code
<1>3. operand \in [Ids -> Values \cup {NULL}]
  BY <1>1 DEF TypeInv, Values
<1>4. ASSUME NEW ph \in Phis, NEW k \in DOMAIN phi_args[ph]
      PROVE  phi_args[ph][k] \in (Values \cup {NULL}) \X Blocks
  <2>1. phi_args[ph] \in Seq(Values \X Blocks)
    BY <1>1 DEF TypeInv
  <2>2. phi_args[ph][k] \in Values \X Blocks
    BY <1>4, <2>1
  <2>3. QED
    BY <2>2
<1>5. allocas \subseteq Locals
  BY <1>1 DEF PhaseInv
<1>6. DOMAIN forward_list \cup delete_list \subseteq 1 .. Len(Code(Block))
  <2>1. CASE pc = "forward"
    <3>1. i \in 1 .. End(prog, Block) /\ prog \in Programs /\ Block \in Blocks
      BY <2>1, ScanFacts
    <3>2. /\ \A k \in DOMAIN forward_list : k \in 1 .. i - 1
          /\ \A k \in delete_list : k \in 1 .. i - 1
      BY <1>1, <2>1 DEF ForwardInv
    <3>3. Len(prog.code[Block]) \in Nat
      BY <3>1, ProgramFacts
    <3>4. \A k \in 1 .. i - 1 : k \in 1 .. Len(prog.code[Block])
      BY <3>1, <3>3 DEF End
    <3>5. QED
      BY <3>2, <3>4 DEF Code
  <2>2. CASE pc # "forward"
    BY <1>1, <2>2 DEF PhaseInv
  <2>3. QED
    BY <2>1, <2>2
<1>7. \A v \in Locals : value_status[v] \in Seq(Values)
  BY <1>1 DEF TypeInv
<1>8. QED
  BY <1>1, <1>2, <1>3, <1>4, <1>5, <1>6, <1>7 DEF TypeInv, TypeOK

(* What stays in the new function is in its place by now. *)
LEMMA InPlacePlaced ==
  ASSUME Inv, NEW x, InPlace(prog, phis, x)
  PROVE  Placed(x)
<1>1. CASE x \in Phis /\ x[2] \in ToSet(phis[x[1]])
  <2>1. x[2] \in Locals
    BY <1>1 DEF Phis
  <2>2. QED
    BY <1>1, <2>1 DEF Placed, HasPhi
<1>2. CASE /\ x \in Blocks \X Nat /\ Computes(prog, x[1], x[2])
           /\ ~ IsLocal(prog, x[1], x[2], "load")
  <2>1. x[1] \in Blocks /\ x[2] \in Nat /\ x[2] \notin Locals
    BY <1>2, ValueFacts
  <2>2. x[2] \in Renamed(prog, x[1])
    BY <1>2 DEF Renamed, Kept, Computes, IsLocalOp, IsLocal
  <2>3. x[2] \in live[x[1]]
    BY <2>1, <2>2, LiveBounds
  <2>4. QED
    BY <2>1, <2>3 DEF Placed
<1>3. QED
  BY <1>1, <1>2 DEF InPlace

(* A position that is left of a block is named rightly. *)
LEMMA LivePlaced ==
  ASSUME Inv, NEW b \in Blocks, NEW m \in live[b]
  PROVE  Placed(<<b, m>>)
<1>1. m \in Nat
  BY LiveBounds, PositionsFacts
<1>2. m \notin Locals
  BY <1>1, ValueFacts
<1>3. QED
  BY <1>2 DEF Placed

(* No operand of an instruction names what is gone. *)
LEMMA OperandsPlaced ==
  ASSUME Inv, NEW b \in Blocks, NEW k \in live[b], operand[<<b, k>>] # NULL
  PROVE  Placed(operand[<<b, k>>])
<1>1. prog \in Programs /\ k \in Positions(prog, b)
  BY LiveBounds
<1>2. TakesOperand(prog, b, k)
  BY <1>1 DEF Inv, TypeInv
<1>3. ASSUME NEW n, UsesInv(prog, phis, operand, b, n),
             \A m \in n .. k - 1 : m \in Kept(prog, b) => m \in live[b]
      PROVE  Placed(operand[<<b, k>>])
  <2>1. Located(prog, phis, operand, b, k, n)
    BY <1>1, <1>2, <1>3 DEF UsesInv
  <2>2. CASE Available(prog, phis, operand[<<b, k>>], b, k)
    BY <2>2, InPlacePlaced DEF Available
  <2>3. CASE \E m \in n .. k - 1 : operand[<<b, k>>] = <<b, m>> /\ m \in Kept(prog, b)
    BY <1>3, <2>3, LivePlaced
  <2>4. QED
    BY <2>1, <2>2, <2>3 DEF Located
<1>4. CASE pc = "forward"
  <2>1. PICK n \in 1 .. Len(BlockList) : BlockList[n] = b
    BY BlockListFacts
  <2>2. CASE n < at
    <3>1. UsesInv(prog, phis, operand, b, 1) /\ live[b] = Kept(prog, b)
      BY <1>4, <2>1, <2>2 DEF Inv, ForwardInv, LiveInv
    <3>2. QED
      BY <1>3, <3>1
  <2>3. CASE ~ (n < at)
    <3>1. operand[<<b, k>>] = <<b, prog.code[b][k].arg>> /\ live[b] = Positions(prog, b)
      BY <1>1, <1>2, <1>4, <2>1, <2>3 DEF Inv, ForwardInv, LiveInv
    <3>2. prog.code[b][k].arg \in live[b]
      BY <1>1, <1>2, <3>1, ProgramFacts DEF Computes
    <3>3. QED
      BY <3>1, <3>2, LivePlaced
  <2>4. QED
    BY <2>2, <2>3
<1>5. CASE pc # "forward"
  <2>1. UsesInv(prog, phis, operand, b, Ip(b))
    BY <1>5 DEF Inv, OperandsInv
  <2>2. live[b] = IF b \in visited /\ ~ InFrames(b) THEN Renamed(prog, b) ELSE Kept(prog, b)
    BY <1>5 DEF Inv, LiveInv
  <2>3. CASE ~ (b \in visited /\ ~ InFrames(b))
    BY <1>3, <2>1, <2>2, <2>3
  <2>4. CASE b \in visited /\ ~ InFrames(b)
    <3>1. ~ (frames # <<>> /\ b = Frame.bb)
      <4> SUFFICES ASSUME frames # <<>>, b = Frame.bb PROVE FALSE
        OBVIOUS
      <4>1. pc = "rename"
        BY DEF Inv, PhaseInv
      <4>2. InFrames(Frame.bb)
        BY <4>1, FrameFacts
      <4>3. QED
        BY <2>4, <4>2
    <3>2. Ip(b) = End(prog, b)
      BY <2>4, <3>1 DEF Ip
    <3>3. \A m : m \notin End(prog, b) .. k - 1
      BY <1>1, PositionsFacts
    <3>4. QED
      BY <1>3, <2>1, <3>2, <3>3
  <2>5. QED
    BY <2>3, <2>4
<1>6. QED
  BY <1>4, <1>5

(* An operand of a phi is what stays in the new function, ... *)
LEMMA PhiOperandsInPlace ==
  ASSUME Inv, NEW ph \in Phis, NEW k \in DOMAIN phi_args[ph]
  PROVE  InPlace(prog, phis, phi_args[ph][k][1])
<1> DEFINE s == ph[1]
           v == ph[2]
           x == phi_args[ph][k][1]
           b == phi_args[ph][k][2]
<1>1. s \in Blocks /\ v \in Locals /\ ph = <<s, v>>
  BY DEF Phis
<1>2. phi_args[ph] \in Seq(Values \X Blocks)
  BY DEF Inv, TypeInv
<1>3. k \in 1 .. Len(phi_args[ph]) /\ x \in Values /\ b \in Blocks /\ phi_args[ph] # <<>>
  <2>1. k \in 1 .. Len(phi_args[ph]) /\ phi_args[ph][k] \in Values \X Blocks
    BY <1>2, TypedSequence, SequenceFacts1
  <2>2. phi_args[ph] # <<>>
    OBVIOUS
  <2>3. QED
    BY <2>1, <2>2
<1>4. pc \in {"rename", "remove", "run"} /\ prog \in Programs
  BY <1>3 DEF Inv, TypeInv, PhaseInv
<1>5. PhiArgsOf(s, v)
  BY <1>1, <1>4 DEF Inv, PhiArgsInv
<1>6. /\ s \in PhiBlocks(phis, v) /\ Passed(b)
      /\ x = ValueAt(prog, phis, operand, v, b, End(prog, b))
  BY <1>1, <1>3, <1>5 DEF PhiArgsOf
<1>7. v \in Loaded(prog) /\ Reached(b) /\ x # NULL
  BY <1>1, <1>3, <1>4, <1>6, PlacedFacts, ValueFacts DEF Passed, Reached, Values
<1> HIDE DEF x, b
<1>8. CASE LastStore(prog, b, v, End(prog, b)) # 0
  <2>1. LastStore(prog, b, v, End(prog, b)) \in Stores(prog, b, v)
    BY <1>3, <1>4, <1>8, PositionsFacts, LastStoreFacts
  <2>2. Available(prog, phis, x, b, LastStore(prog, b, v, End(prog, b)))
    BY <1>1, <1>3, <1>4, <1>6, <1>8, <2>1, PassedAvailable DEF StoresAvailable, ValueAt
  <2>3. QED
    BY <2>2 DEF Available, x
<1>9. CASE LastStore(prog, b, v, End(prog, b)) = 0
  <2>1. x = EntryVal(prog, phis, operand, v, b)
    BY <1>6, <1>9 DEF ValueAt
  <2>2. Available(prog, phis, x, b, 1)
    BY <1>3, <1>4, <1>7, <2>1, ReachedAvailable
  <2>3. QED
    BY <2>2 DEF Available, x
<1>10. QED
  BY <1>8, <1>9

(* ... so it does not name what is gone either. *)
LEMMA PhiOperandsPlaced ==
  ASSUME Inv, NEW ph \in Phis, NEW k \in DOMAIN phi_args[ph]
  PROVE  Placed(phi_args[ph][k][1])
BY PhiOperandsInPlace, InPlacePlaced

(* When the allocas are gone, so are the loads and stores of locals. *)
LEMMA NoLocalOps ==
  ASSUME Inv, allocas = {}, NEW b \in Blocks
  PROVE  LocalOps(b, "load") \cup LocalOps(b, "store") = {}
<1>1. CASE pc = "run"
  <2>1. live[b] = Renamed(prog, b)
    BY <1>1, RunFacts
  <2>2. \A k \in live[b] : ~ isLocalVarOp(b, k)
    BY <2>1 DEF Renamed, IsLocalOp, IsLocal, isLocalVarOp, Code
  <2>3. QED
    BY <2>2 DEF LocalOps
<1>2. CASE pc # "run"
  <2>1. Locals = {}
    BY <1>2 DEF Inv, PhaseInv
  <2>2. QED
    BY <2>1 DEF LocalOps, isLocalVarOp
<1>3. QED
  BY <1>1, <1>2

(* The three together. *)
LEMMA PlacesFollow ==
  ASSUME Inv
  PROVE  OperandsInPlace
BY OperandsPlaced, PhiOperandsPlaced, NoLocalOps DEF OperandsInPlace

(* Where a value is used, both programs have the same. *)
LEMMA AgreementFollows ==
  ASSUME Inv
  PROVE  ProgramsAgree
<1> SUFFICES ASSUME pc = "run", run.ip <= Len(Code(run.block)), ~ isLocalVarOp(run.block, run.ip)
             PROVE  /\ run.ip \in live[run.block]
                    /\ Instr.op \in {"use", "store"} =>
                         run.new[operand[Here]] = run.old[<<run.block, Instr.arg>>]
  BY DEF ProgramsAgree
<1> DEFINE b == run.block
           k == run.ip
<1>1. /\ prog \in Programs /\ b \in Blocks /\ k \in Positions(prog, b) /\ k \in Nat \ {0}
      /\ live[b] = Renamed(prog, b) /\ Code(b) = prog.code[b] /\ ValuesOk(run)
      /\ UsesInv(prog, phis, operand, b, End(prog, b))
  BY RunFacts
<1>2. Instr = prog.code[b][k] /\ Here = <<b, k>>
  BY <1>1 DEF Instr, Here
<1>3. ~ IsLocal(prog, b, k, "load") /\ ~ IsLocal(prog, b, k, "store")
  BY <1>1 DEF isLocalVarOp, IsLocal
<1>4. k \in live[b]
  BY <1>1, <1>3 DEF Renamed, Kept, IsLocalOp
<1>5. ASSUME Instr.op \in {"use", "store"}
      PROVE  run.new[operand[Here]] = run.old[<<b, Instr.arg>>]
  <2> DEFINE a == prog.code[b][k].arg
             rep == Rep(prog, phis, operand, b, a, End(prog, b))
  <2>1. TakesOperand(prog, b, k)
    BY <1>1, <1>2, <1>5 DEF TakesOperand
  <2>2. a \in 1 .. k - 1 /\ Computes(prog, b, a)
    BY <1>1, <2>1, ProgramFacts
  <2>3. run.old[<<b, a>>] = NewOf(run, rep)
    BY <1>1, <2>2 DEF ValuesOk
  <2>4. operand[<<b, k>>] = rep
    BY <1>1, <2>1 DEF UsesInv
  <2>5. operand[<<b, k>>] # NULL
    BY <1>1, <2>1 DEF Inv, TypeInv
  <2>6. QED
    BY <1>2, <2>3, <2>4, <2>5 DEF NewOf
<1>6. QED
  BY <1>4, <1>5


-----------------------------------------------------------------------------
(***************************************************************************)
(* The pass in the compiler: before it there is nothing to print that it   *)
(* has left half done, and each name is given without touching the IR.     *)
(***************************************************************************)
StageInv ==
  /\ stage = "emitted" => pc = "forward"
  /\ stage = "print" => pc \in {"forward", "run"}
  /\ stage = "named" => pc = "run"

CompileInv == Inv /\ StageInv

(* A phi has an operand when the pass is done: it is placed where a        *)
(* definition's frontier is, and that definition's value gets there.       *)
LEMMA PhisHaveOperands ==
  ASSUME Inv, pc \in {"forward", "run"}, NEW b \in Blocks, NEW v \in ToSet(phis[b])
  PROVE  phi_args[<<b, v>>] # <<>>
<1>1. CASE pc = "forward"
  <2>1. phis[b] = <<>>
    BY <1>1 DEF Inv, PhaseInv
  <2>2. QED
    BY <2>1 DEF ToSet
<1>2. CASE pc = "run"
  <2>1. phis[b] \in Seq(Locals)
    BY DEF Inv, TypeInv
  <2>2. v \in Locals
    BY <2>1 DEF ToSet
  <2>3. b \in PhiBlocks(phis, v)
    BY DEF PhiBlocks
  <2>4. v \in Loaded(prog) /\ prog \in Programs /\ Complete(prog, phis, v)
    BY <1>2, <2>2, <2>3, PlacedFacts
  <2>5. PICK d \in Defs(prog, phis, v) : b \in T!DominanceFrontier(prog.cfg, d)
    BY <1>2, <2>2, <2>3, PlacedFacts
  <2>6. \A e \in Blocks : \A j \in Stores(prog, e, v) : operand[<<e, j>>] # NULL
    BY <1>2, <2>2, PlacedFacts
  <2>7. PICK x \in Blocks : /\ b \in prog.cfg[x]
                            /\ ValueAt(prog, phis, operand, v, x, End(prog, x)) # NULL
    BY <2>2, <2>4, <2>5, <2>6, FrontierDefined
  <2>8. Passed(x)
    BY <1>2, RunFacts
  <2>9. PhiArgsOf(b, v)
    BY <1>2, <2>2 DEF Inv, PhiArgsInv
  <2>10. PICK k \in 1 .. Len(phi_args[<<b, v>>]) : phi_args[<<b, v>>][k][2] = x
    BY <2>3, <2>7, <2>8, <2>9 DEF PhiArgsOf
  <2>11. Len(<<>>) = 0 /\ \A n : n \notin 1 .. 0
    OBVIOUS
  <2>12. QED
    BY <2>10, <2>11
<1>3. QED
  BY <1>1, <1>2

(* The function is emitted, and no pass has run. *)
LEMMA CompileInitKeeps ==
  ASSUME CompileInit
  PROVE  CompileInv
<1>1. Inv
  BY InitKeeps DEF CompileInit
<1>2. pc = "forward" /\ stage = "emitted"
  BY DEF CompileInit, Init
<1>3. QED
  BY <1>1, <1>2 DEF CompileInv, StageInv

(* A step of the pass happens among the passes, a run after the printing. *)
LEMMA PassKeeps ==
  ASSUME CompileInv, Inv', \/ stage = "passes" /\ stage' = stage
                           \/ stage' = "running"
  PROVE  CompileInv'
BY DEF CompileInv, StageInv

(* What names or prints leaves the IR alone. *)
LEMMA NamingKeeps ==
  ASSUME CompileInv, UNCHANGED vars, StageInv'
  PROVE  CompileInv'
BY StutterKeeps DEF CompileInv

(* Printing reads the first operand of each phi, and there is one. *)
LEMMA PrintFunctionKeeps ==
  ASSUME CompileInv, PrintFunction
  PROVE  CompileInv'
<1>1. /\ stage = "print" /\ stage' = "printed"
      /\ fault' = (fault \/ \E b \in Blocks : \E v \in ToSet(phis[b]) : phi_args[<<b, v>>] = <<>>)
      /\ UNCHANGED <<prog, dom_frontier, pc, irVars, scanVars, phiVars, nameVars, run>>
  BY DEF PrintFunction
<1>2. Inv /\ pc \in {"forward", "run"}
  BY <1>1 DEF CompileInv, StageInv
<1>3. ASSUME NEW b \in Blocks, NEW v \in ToSet(phis[b]) PROVE phi_args[<<b, v>>] # <<>>
  BY <1>2, PhisHaveOperands
<1>4. fault' = fault
  BY <1>1, <1>2, <1>3, Zenon DEF Inv, TypeInv
<1>5. UNCHANGED vars
  BY <1>1, <1>4 DEF vars
<1>6. StageInv'
  BY <1>1 DEF StageInv
<1>7. QED
  BY <1>5, <1>6, NamingKeeps

(* Every step of the compiler. *)
LEMMA CompileNextKeeps ==
  ASSUME CompileInv, CompileNext
  PROVE  CompileInv'
<1> USE DEF InPass, Executing
<1>1. Inv
  BY DEF CompileInv
<1>2. ASSUME (stage = "passes" /\ stage' = stage) \/ stage' = "running", Next PROVE CompileInv'
  BY <1>1, <1>2, NextKeeps, PassKeeps
<1>3. CASE NameEmitted
  <2>1. /\ stage = "emitted" /\ stage' \in {"passes", "print"} /\ UNCHANGED vars
    BY <1>3 DEF NameEmitted
  <2>2. pc' = "forward"
    BY <2>1 DEF vars, CompileInv, StageInv
  <2>3. QED
    BY <2>1, <2>2, NamingKeeps DEF StageInv
<1>4. CASE NameAndCount
  BY <1>2, <1>4 DEF NameAndCount, Next
<1>5. CASE LiveVar
  <2>1. pc' = "run" /\ stage' = "named" /\ UNCHANGED vars
    BY <1>5 DEF LiveVar, vars
  <2>2. QED
    BY <2>1, NamingKeeps DEF StageInv
<1>6. CASE NameOptimized
  <2>1. (stage = "named" \/ pc = "run") /\ stage' = "print" /\ UNCHANGED vars
    BY <1>6 DEF NameOptimized
  <2>2. pc' = "run"
    BY <2>1 DEF vars, CompileInv, StageInv
  <2>3. QED
    BY <2>1, <2>2, NamingKeeps DEF StageInv
<1>7. CASE PrintFunction
  BY <1>7, PrintFunctionKeeps
<1>8. CASE \/ InPass(ForwardStore) \/ InPass(ForwardLoad) \/ InPass(SkipInstr)
           \/ InPass(EndForwardBlock) \/ InPass(CollectLoaded) \/ InPass(PlacePhis) \/ InPass(EndVar)
  BY <1>2, <1>8 DEF Next
<1>9. CASE \/ InPass(PushPhis) \/ InPass(RenameLoad) \/ InPass(RenameStore) \/ InPass(RenameOther)
           \/ InPass(FillPhiOperands) \/ InPass(LeaveBlock) \/ InPass(RemoveAlloc)
  BY <1>2, <1>9 DEF Next
<1>10. ASSUME NEW v \in Locals, InPass(StartVar(v)) PROVE CompileInv'
  BY <1>2, <1>10 DEF Next
<1>11. ASSUME NEW s \in Blocks, InPass(VisitSucc(s)) PROVE CompileInv'
  BY <1>2, <1>11 DEF Next
<1>12. CASE Executing(RunLoad) \/ Executing(RunStore) \/ Executing(RunUse)
  BY <1>2, <1>12 DEF Next
<1>13. ASSUME NEW d \in Data, Executing(RunDef(d)) PROVE CompileInv'
  BY <1>2, <1>13 DEF Next
<1>14. ASSUME NEW s \in Blocks, Executing(RunBranch(s)) PROVE CompileInv'
  BY <1>2, <1>14 DEF Next
<1> HIDE DEF InPass, Executing
<1>15. QED
  BY <1>3, <1>4, <1>5, <1>6, <1>7, <1>8, <1>9, <1>10, <1>11, <1>12, <1>13, <1>14 DEF CompileNext

(* Nothing changes while nothing happens. *)
LEMMA CompileStutter ==
  ASSUME CompileInv, UNCHANGED compileVars
  PROVE  CompileInv'
<1>1. UNCHANGED vars /\ UNCHANGED stage
  BY DEF compileVars
<1>2. StageInv'
  BY <1>1 DEF CompileInv, StageInv, vars
<1>3. QED
  BY <1>1, <1>2, NamingKeeps

(* The invariant holds throughout a compilation, and the runs after it. *)
LEMMA CompileInvariant == CompileSpec => []CompileInv
<1>1. CompileInit => CompileInv
  BY CompileInitKeeps
<1>2. CompileInv /\ [CompileNext]_compileVars => CompileInv'
  <2> SUFFICES ASSUME CompileInv, [CompileNext]_compileVars
               PROVE  CompileInv'
    OBVIOUS
  <2>1. CASE CompileNext
    BY <2>1, CompileNextKeeps
  <2>2. CASE UNCHANGED compileVars
    BY <2>2, CompileStutter
  <2>3. QED
    BY <2>1, <2>2
<1>3. QED
  BY <1>1, <1>2, PTL DEF CompileSpec

-----------------------------------------------------------------------------
(***************************************************************************)
(* Naming and printing.  Naming goes through the values of the function in *)
(* an order in which each has its own turn; those without a name get the   *)
(* numbers that follow seq_cnt_, so no name is given twice (NameInv).      *)
(* What is printed is the function as it is, all of it named, and not      *)
(* half-way through a pass (PrintedInv); its operands are among what is    *)
(* printed because Mem2Reg leaves no other.                                *)
(***************************************************************************)
(* A set in some order. *)
LEMMA SetToSeqFacts ==
  ASSUME NEW S, IsFiniteSet(S)
  PROVE  /\ Sequence(SetToSeq(S)) /\ ToSet(SetToSeq(S)) = S
         /\ \A j, k \in 1 .. Len(SetToSeq(S)) : SetToSeq(S)[j] = SetToSeq(S)[k] => j = k
<1>1. PICK f \in [1 .. Cardinality(S) -> S] : IsInjective(f)
  BY FS_CardinalityType, Zenon DEF ExistsBijection, Bijection, Injection
<1>2. SetToSeq(S) \in [1 .. Cardinality(S) -> S] /\ IsInjective(SetToSeq(S))
  BY <1>1 DEF SetToSeq
<1>3. SetToSeq(S) \in SetToSeqs(S)
  <2>1. DOMAIN SetToSeq(S) = 1 .. Cardinality(S)
    BY <1>2
  <2>2. \A j, k \in 1 .. Cardinality(S) : j # k => SetToSeq(S)[j] # SetToSeq(S)[k]
    BY <1>2, <2>1 DEF IsInjective
  <2>3. QED
    BY <1>2, <2>2, Zenon DEF SetToSeqs
<1>4. QED
  BY <1>3, SetToSeqsFacts

(* Arguments, blocks, variables and instructions are not mistaken for one  *)
(* another.                                                                *)
LEMMA KindFacts ==
  /\ \A x \in ToSet(Arguments) : /\ x \notin Blocks /\ x \notin Locals /\ x \notin Globals
                                 /\ x \notin Ids /\ x \notin Phis
  /\ \A x \in Blocks : x \notin Locals /\ x \notin Globals /\ x \notin Ids /\ x \notin Phis
  /\ \A x \in Locals : x \notin Globals /\ x \notin Ids /\ x \notin Phis
  /\ \A x \in Globals : x \notin Ids /\ x \notin Phis
  /\ \A x \in Ids : x \notin Phis
<1>1. Ids \subseteq Blocks \X (Nat \cup Locals) /\ Phis \subseteq Blocks \X (Nat \cup Locals)
      /\ Ids \cap Phis = {}
  BY ValueFacts DEF Phis
<1>2. /\ ToSet(Arguments) \cap (Locals \cup Globals \cup Blocks \cup {NULL}) = {}
      /\ (Locals \cup Globals) \cap Blocks = {}
      /\ (ToSet(Arguments) \cup (Locals \cup Globals) \cup Blocks) \cap (Blocks \X (Nat \cup Locals)) = {}
  BY ArgumentAssumption DEF Vars
<1>3. Locals \cap (Globals \cup Nat) = {}
  BY ProgramAssumption
<1> HIDE DEF Ids, Phis
<1>4. QED
  BY <1>1, <1>2, <1>3

(* The instructions of a block: its phis, ... *)
LEMMA PhiIdsFacts ==
  ASSUME Inv, NEW b \in Blocks
  PROVE  /\ Sequence(PhiIds(b))
         /\ \A j, k \in 1 .. Len(PhiIds(b)) : PhiIds(b)[j] = PhiIds(b)[k] => j = k
         /\ \A x : x \in ToSet(PhiIds(b)) <=> x \in Phis /\ x[1] = b /\ HasPhi(b, x[2])
<1> DEFINE ids == PhiIds(b)
           n == Len(phis[b])
<1>1. phis[b] \in Seq(Locals) /\ DOMAIN phis[b] = 1 .. n /\ n \in Nat
      /\ (\A k \in 1 .. n : phis[b][k] \in Locals)
      /\ \A v : v \in ToSet(phis[b]) <=> \E k \in 1 .. n : phis[b][k] = v
  <2>1. phis[b] \in Seq(Locals)
    BY DEF Inv, TypeInv
  <2>2. QED
    BY <2>1, TypedSequence, SequenceFacts1
<1>2. \A j, k \in 1 .. n : phis[b][j] = phis[b][k] => j = k
  <2>1. CASE pc \in {"forward", "collect"}
    <3>1. phis[b] = <<>>
      BY <2>1 DEF Inv, PhaseInv
    <3>2. n = 0 /\ \A k : k \notin 1 .. 0
      BY <3>1
    <3>3. QED
      BY <3>2
  <2>2. CASE pc \notin {"forward", "collect"}
    BY <2>2 DEF Inv, PhiInv
  <2>3. QED
    BY <2>1, <2>2
<1>3. ids = [k \in 1 .. n |-> <<b, phis[b][k]>>]
  BY <1>1 DEF PhiIds
<1>4. ids \in [1 .. n -> {b} \X Locals] /\ \A k \in 1 .. n : ids[k] = <<b, phis[b][k]>>
  BY <1>1, <1>3
<1> HIDE DEF ids, n
<1>5. Sequence(ids) /\ Len(ids) = n /\ \A x : x \in ToSet(ids) <=> \E k \in 1 .. n : ids[k] = x
  <2> DEFINE D == {b} \X Locals
  <2> HIDE DEF D
  <2>1. n \in Nat /\ ids \in [1 .. n -> D]
    BY <1>1, <1>4 DEF D
  <2>2. \A x : x \in ToSet(ids) <=> \E k \in 1 .. n : ids[k] = x
    BY <2>1, FunctionSequence
  <2>3. Sequence(ids) /\ Len(ids) = n
    BY <2>1, FunctionSequence
  <2>4. QED
    BY <2>2, <2>3
<1>6. \A j, k \in 1 .. n : ids[j] = ids[k] => j = k
  BY <1>2, <1>4
<1>7. ASSUME NEW x \in ToSet(ids) PROVE x \in Phis /\ x[1] = b /\ HasPhi(b, x[2])
  <2>1. PICK k \in 1 .. n : x = <<b, phis[b][k]>>
    BY <1>4, <1>5
  <2>2. QED
    BY <1>1, <2>1 DEF Phis, HasPhi
<1>8. ASSUME NEW x \in Phis, x[1] = b, HasPhi(b, x[2]) PROVE x \in ToSet(ids)
  <2>1. PICK k \in 1 .. n : phis[b][k] = x[2]
    BY <1>1, <1>8 DEF HasPhi
  <2>2. x = <<b, x[2]>>
    BY <1>8 DEF Phis
  <2>3. ids[k] = x
    BY <1>4, <2>1, <2>2
  <2>4. QED
    BY <1>5, <2>3
<1>9. QED
  BY <1>5, <1>6, <1>7, <1>8 DEF ids

(* ... its code as far as it is left, ... *)
LEMMA InstrIdsFacts ==
  ASSUME Inv, NEW b \in Blocks
  PROVE  /\ Sequence(InstrIds(b))
         /\ \A j, k \in 1 .. Len(InstrIds(b)) : InstrIds(b)[j] = InstrIds(b)[k] => j = k
         /\ \A x : x \in ToSet(InstrIds(b)) <=> x \in Ids /\ x[1] = b /\ x[2] \in live[b]
<1> DEFINE S == live[b]
           c == Cardinality(S)
           nth(n) == CHOOSE k \in S : Cardinality({j \in S : j <= k}) = n
           ids == InstrIds(b)
<1>1. prog \in Programs /\ S \subseteq Positions(prog, b)
  BY LiveBounds
<1>2. S \subseteq Nat /\ IsFiniteSet(S)
  <2>1. Len(prog.code[b]) \in Nat
    BY <1>1, ProgramFacts
  <2>2. IsFiniteSet(1 .. Len(prog.code[b])) /\ 1 .. Len(prog.code[b]) \subseteq Nat
    BY <2>1, FS_Interval
  <2>3. QED
    BY <1>1, <2>2, FS_Subset DEF Positions
<1>3. ids = [n \in 1 .. c |-> <<b, nth(n)>>]
  BY DEF InstrIds
<1>4. /\ c \in Nat
      /\ \A n \in 1 .. c : nth(n) \in S
      /\ \A m, n \in 1 .. c : nth(m) = nth(n) => m = n
      /\ \A k \in S : \E n \in 1 .. c : nth(n) = k
  BY <1>2, RankFacts
<1> HIDE DEF S, c, nth, ids
<1>5. ids \in [1 .. c -> {b} \X S] /\ \A n \in 1 .. c : ids[n] = <<b, nth(n)>>
  BY <1>3, <1>4
<1>6. Sequence(ids) /\ Len(ids) = c /\ \A x : x \in ToSet(ids) <=> \E k \in 1 .. c : ids[k] = x
  <2> DEFINE D == {b} \X S
  <2> HIDE DEF D
  <2>1. c \in Nat /\ ids \in [1 .. c -> D]
    BY <1>4, <1>5 DEF D
  <2>2. QED
    BY <2>1, FunctionSequence
<1>7. \A j, k \in 1 .. c : ids[j] = ids[k] => j = k
  BY <1>4, <1>5
<1>8. ASSUME NEW x \in ToSet(ids) PROVE x \in Ids /\ x[1] = b /\ x[2] \in S
  <2>1. PICK n \in 1 .. c : x = <<b, nth(n)>>
    BY <1>5, <1>6
  <2>2. x \in Ids
    BY <1>1, <1>4, <2>1, IdFacts
  <2>3. QED
    BY <1>4, <2>1, <2>2
<1>9. ASSUME NEW x \in Ids, x[1] = b, x[2] \in S PROVE x \in ToSet(ids)
  <2>1. PICK n \in 1 .. c : nth(n) = x[2]
    BY <1>4, <1>9
  <2>2. x = <<b, x[2]>>
    BY <1>1, <1>9, IdFacts
  <2>3. ids[n] = x
    BY <1>5, <2>1, <2>2
  <2>4. QED
    BY <1>6, <2>3
<1>10. QED
  BY <1>6, <1>7, <1>8, <1>9 DEF ids, S

(* ... and the allocas between them. *)
LEMMA AllocasFacts ==
  ASSUME Inv, NEW b
  PROVE  /\ Sequence(Allocas(b))
         /\ \A j, k \in 1 .. Len(Allocas(b)) : Allocas(b)[j] = Allocas(b)[k] => j = k
         /\ \A x : x \in ToSet(Allocas(b)) <=> b = Entry /\ x \in allocas
         /\ allocas \subseteq Locals
<1>1. allocas \subseteq Locals /\ IsFiniteSet(allocas)
  <2>1. allocas \in SUBSET Locals
    BY DEF Inv, PhaseInv
  <2>2. QED
    BY <2>1, ArgumentAssumption, FS_Subset
<1>2. CASE b = Entry
  BY <1>1, <1>2, SetToSeqFacts DEF Allocas
<1>3. CASE b # Entry
  <2>1. Allocas(b) = <<>>
    BY <1>3 DEF Allocas
  <2>2. Sequence(<<>>) /\ Len(<<>>) = 0 /\ (\A k : k \notin 1 .. 0) /\ \A x : x \notin ToSet(<<>>)
    BY ShortSequences, SequenceFacts1
  <2>3. QED
    BY <1>1, <1>3, <2>1, <2>2
<1>4. QED
  BY <1>2, <1>3

(* A block's list names each of its instructions, once. *)
LEMMA InstrListFacts ==
  ASSUME Inv, NEW b \in Blocks
  PROVE  /\ Sequence(InstrList(b)) /\ Len(InstrList(b)) \in Nat
         /\ DOMAIN InstrList(b) = 1 .. Len(InstrList(b))
         /\ \A j, k \in 1 .. Len(InstrList(b)) : InstrList(b)[j] = InstrList(b)[k] => j = k
         /\ \A x : x \in InList(b) <=> \E k \in 1 .. Len(InstrList(b)) : InstrList(b)[k] = x
         /\ \A x : x \in InList(b) <=>
              \/ x \in Phis /\ x[1] = b /\ HasPhi(b, x[2])
              \/ b = Entry /\ x \in allocas
              \/ x \in Ids /\ x[1] = b /\ x[2] \in live[b]
         /\ \A x \in InList(b) : /\ Home(x) = b /\ x \notin Blocks /\ x \notin Globals
                                 /\ x \notin ToSet(Arguments) /\ x \in Values \cup Locals
<1> DEFINE ps == PhiIds(b)
           as == Allocas(b)
           cs == InstrIds(b)
           isPhi(x) == x \in Phis /\ x[1] = b /\ HasPhi(b, x[2])
           isAlloca(x) == b = Entry /\ x \in allocas
           isCode(x) == x \in Ids /\ x[1] = b /\ x[2] \in live[b]
<1>1. Sequence(ps) /\ (\A j, k \in 1 .. Len(ps) : ps[j] = ps[k] => j = k)
      /\ \A x : x \in ToSet(ps) <=> isPhi(x)
  BY PhiIdsFacts
<1>2. Sequence(as) /\ (\A j, k \in 1 .. Len(as) : as[j] = as[k] => j = k)
      /\ \A x : x \in ToSet(as) <=> isAlloca(x)
  BY AllocasFacts
<1>3. Sequence(cs) /\ (\A j, k \in 1 .. Len(cs) : cs[j] = cs[k] => j = k)
      /\ \A x : x \in ToSet(cs) <=> isCode(x)
  BY InstrIdsFacts
<1>4. \A x : /\ isPhi(x) => x \in Phis /\ x[1] = b
             /\ isAlloca(x) => b = Entry /\ x \in Locals
             /\ isCode(x) => x \in Ids /\ x[1] = b
  BY AllocasFacts
<1> HIDE DEF ps, as, cs, isPhi, isAlloca, isCode
<1>5. /\ ToSet(ps) \cap ToSet(as) = {} /\ ToSet(ps) \cap ToSet(cs) = {}
      /\ ToSet(as) \cap ToSet(cs) = {}
  BY <1>1, <1>2, <1>3, <1>4, KindFacts
<1>6. /\ Sequence(ps \o as) /\ ToSet(ps \o as) = ToSet(ps) \cup ToSet(as)
      /\ \A j, k \in 1 .. Len(ps \o as) : (ps \o as)[j] = (ps \o as)[k] => j = k
  BY <1>1, <1>2, <1>5, ConcatDistinct
<1>7. ToSet(ps \o as) \cap ToSet(cs) = {}
  BY <1>5, <1>6
<1> DEFINE pas == ps \o as
<1> HIDE DEF pas
<1>8. /\ Sequence(pas \o cs) /\ ToSet(pas \o cs) = ToSet(pas) \cup ToSet(cs)
      /\ \A j, k \in 1 .. Len(pas \o cs) : (pas \o cs)[j] = (pas \o cs)[k] => j = k
  BY <1>3, <1>6, <1>7, ConcatDistinct DEF pas
<1>9. InstrList(b) = pas \o cs
  BY DEF InstrList, pas, ps, as, cs
<1>10. InList(b) = ToSet(ps) \cup ToSet(as) \cup ToSet(cs)
  BY <1>6, <1>8, <1>9 DEF InList, pas
<1>11. \A x : x \in InList(b) <=> isPhi(x) \/ isAlloca(x) \/ isCode(x)
  BY <1>1, <1>2, <1>3, <1>10
<1>12. ASSUME NEW x \in InList(b)
       PROVE  /\ Home(x) = b /\ x \notin Blocks /\ x \notin Globals
              /\ x \notin ToSet(Arguments) /\ x \in Values \cup Locals
  <2>1. CASE isPhi(x) \/ isCode(x)
    <3>1. (x \in Phis \/ x \in Ids) /\ x[1] = b
      BY <1>4, <2>1
    <3>2. x \notin Locals /\ x \notin Blocks /\ x \notin Globals /\ x \notin ToSet(Arguments)
      BY <3>1, KindFacts
    <3>3. QED
      BY <3>1, <3>2 DEF Home, Values
  <2>2. CASE isAlloca(x)
    <3>1. x \in Locals /\ b = Entry
      BY <1>4, <2>2
    <3>2. QED
      BY <3>1, KindFacts DEF Home
  <2>3. QED
    BY <1>11, <2>1, <2>2
<1>13. /\ Len(InstrList(b)) \in Nat /\ DOMAIN InstrList(b) = 1 .. Len(InstrList(b))
       /\ \A x : x \in InList(b) <=> \E k \in 1 .. Len(InstrList(b)) : InstrList(b)[k] = x
  BY <1>8, <1>9, SequenceFacts1 DEF InList
<1>14. QED
  BY <1>8, <1>9, <1>11, <1>12, <1>13 DEF isPhi, isAlloca, isCode

(* The arguments, in order. *)
LEMMA ArgumentsFacts ==
  /\ Sequence(Arguments) /\ Len(Arguments) \in Nat /\ DOMAIN Arguments = 1 .. Len(Arguments)
  /\ \A j, k \in 1 .. Len(Arguments) : Arguments[j] = Arguments[k] => j = k
  /\ \A x : x \in ToSet(Arguments) <=> \E k \in 1 .. Len(Arguments) : Arguments[k] = x
<1>1. Sequence(Arguments) /\ IsInjective(Arguments)
  BY ArgumentAssumption DEF Sequence
<1>2. /\ Len(Arguments) \in Nat /\ DOMAIN Arguments = 1 .. Len(Arguments)
      /\ \A x : x \in ToSet(Arguments) <=> \E k \in 1 .. Len(Arguments) : Arguments[k] = x
  BY <1>1, SequenceFacts1
<1>3. QED
  BY <1>1, <1>2 DEF IsInjective

(* A block is at its index in the list, ... *)
LEMMA BlockIndexFacts ==
  /\ \A n \in 1 .. Len(BlockList) : BlockIndex(BlockList[n]) = n
  /\ \A b \in Blocks : /\ BlockIndex(b) \in 1 .. Len(BlockList) /\ BlockIndex(b) \in Nat \ {0}
                       /\ BlockList[BlockIndex(b)] = b
<1>1. ASSUME NEW n \in 1 .. Len(BlockList) PROVE BlockIndex(BlockList[n]) = n
  <2> DEFINE I == {k \in 1 .. Len(BlockList) : BlockList[k] = BlockList[n]}
  <2>1. n \in Nat /\ I = {n}
    BY BlockListFacts
  <2>2. BlockIndex(BlockList[n]) = IF I # {} THEN Min(I) ELSE 0
    BY Zenon DEF BlockIndex, SelectInSeq
  <2>3. Min(I) = n
    BY <2>1 DEF Min
  <2>4. QED
    BY <2>1, <2>2, <2>3
<1>2. ASSUME NEW b \in Blocks
      PROVE  /\ BlockIndex(b) \in 1 .. Len(BlockList) /\ BlockIndex(b) \in Nat \ {0}
             /\ BlockList[BlockIndex(b)] = b
  <2>1. PICK n \in 1 .. Len(BlockList) : BlockList[n] = b
    BY BlockListFacts
  <2>2. BlockIndex(b) = n
    BY <1>1, <2>1
  <2>3. n \in Nat \ {0}
    BY BlockListFacts
  <2>4. QED
    BY <2>1, <2>2, <2>3
<1>3. QED
  BY <1>1, <1>2

(* ... and an instruction in its block's. *)
LEMMA IndexInFacts ==
  ASSUME Inv, NEW b \in Blocks
  PROVE  /\ \A n \in 1 .. Len(InstrList(b)) : IndexIn(InstrList(b)[n]) = n
         /\ \A x \in InList(b) : /\ IndexIn(x) \in 1 .. Len(InstrList(b)) /\ IndexIn(x) \in Nat \ {0}
                                 /\ InstrList(b)[IndexIn(x)] = x
<1> DEFINE s == InstrList(b)
<1>1. /\ Len(s) \in Nat
      /\ \A j, k \in 1 .. Len(s) : s[j] = s[k] => j = k
      /\ \A x : x \in InList(b) <=> \E k \in 1 .. Len(s) : s[k] = x
      /\ \A x \in InList(b) : Home(x) = b
  BY InstrListFacts
<1>2. ASSUME NEW n \in 1 .. Len(s) PROVE IndexIn(s[n]) = n
  <2> DEFINE I == {k \in 1 .. Len(s) : s[k] = s[n]}
  <2>1. n \in Nat /\ I = {n} /\ Home(s[n]) = b
    BY <1>1
  <2>2. IndexIn(s[n]) = IF I # {} THEN Min(I) ELSE 0
    BY <2>1, Zenon DEF IndexIn, SelectInSeq
  <2>3. Min(I) = n
    BY <2>1 DEF Min
  <2>4. QED
    BY <2>1, <2>2, <2>3
<1>3. ASSUME NEW x \in InList(b)
      PROVE  IndexIn(x) \in 1 .. Len(s) /\ IndexIn(x) \in Nat \ {0} /\ s[IndexIn(x)] = x
  <2>1. PICK n \in 1 .. Len(s) : s[n] = x
    BY <1>1
  <2>2. IndexIn(x) = n
    BY <1>2, <2>1
  <2>3. n \in Nat \ {0}
    BY <1>1
  <2>4. QED
    BY <2>1, <2>2, <2>3
<1>4. QED
  BY <1>2, <1>3

(* The values that are named: arguments, blocks, and instructions that     *)
(* compute something.                                                      *)
Result(x) == x \in UNION {InList(b) : b \in Blocks} /\ ~ is_void(x)

LEMMA ListedFacts ==
  ASSUME Inv
  PROVE  /\ \A x : x \in Listed <=> x \in ToSet(Arguments) \/ x \in Blocks \/ Result(x)
         /\ \A x : Result(x) => /\ Home(x) \in Blocks /\ x \in InList(Home(x)) /\ ~ is_void(x)
                                /\ x \notin Blocks /\ x \notin Globals
                                /\ x \notin ToSet(Arguments) /\ x \in Values \cup Locals
         /\ \A b \in Blocks : \A x \in InList(b) : ~ is_void(x) => Result(x)
<1>1. \A x : x \in Listed <=> x \in ToSet(Arguments) \/ x \in Blocks \/ Result(x)
  BY DEF Listed, Result
<1>2. ASSUME NEW x, Result(x)
      PROVE  /\ Home(x) \in Blocks /\ x \in InList(Home(x)) /\ ~ is_void(x)
             /\ x \notin Blocks /\ x \notin Globals
             /\ x \notin ToSet(Arguments) /\ x \in Values \cup Locals
  <2>1. PICK b \in Blocks : x \in InList(b)
    BY <1>2 DEF Result
  <2>2. QED
    BY <1>2, <2>1, InstrListFacts DEF Result
<1>3. \A b \in Blocks : \A x \in InList(b) : ~ is_void(x) => Result(x)
  BY DEF Result
<1>4. QED
  BY <1>1, <1>2, <1>3

(* Each has a turn of its own. *)
LEMMA TurnFacts ==
  ASSUME Inv, NEW x \in Listed
  PROVE  /\ \/ /\ x \in ToSet(Arguments) /\ Turn(x)[1] = 0
               /\ Turn(x)[2] \in 1 .. Len(Arguments) /\ Arguments[Turn(x)[2]] = x
            \/ /\ x \in Blocks /\ Turn(x)[1] \in Nat \ {0} /\ Turn(x)[2] = 0
               /\ BlockList[Turn(x)[1]] = x
            \/ /\ Result(x) /\ Turn(x)[1] \in Nat \ {0} /\ Turn(x)[2] \in Nat \ {0}
               /\ InstrList(BlockList[Turn(x)[1]])[Turn(x)[2]] = x
         /\ Turn(x) \in Nat \X Nat
<1>1. CASE x \in ToSet(Arguments)
  <2>1. Turn(x) = <<0, CHOOSE k \in 1 .. Len(Arguments) : Arguments[k] = x>>
    BY <1>1, ArgumentsFacts DEF Turn
  <2>2. \E k \in 1 .. Len(Arguments) : Arguments[k] = x
    BY <1>1, ArgumentsFacts
  <2>3. Turn(x)[1] = 0 /\ Turn(x)[2] \in 1 .. Len(Arguments) /\ Arguments[Turn(x)[2]] = x
    BY <2>1, <2>2
  <2>4. Turn(x) \in Nat \X Nat
    BY <2>1, <2>3
  <2>5. QED
    BY <1>1, <2>3, <2>4
<1>2. CASE x \in Blocks
  <2>1. Turn(x) = <<BlockIndex(x), 0>>
    BY <1>2, KindFacts DEF Turn
  <2>2. QED
    BY <1>2, <2>1, BlockIndexFacts
<1>3. CASE Result(x)
  <2>1. /\ Home(x) \in Blocks /\ x \in InList(Home(x)) /\ x \notin Blocks /\ x \notin ToSet(Arguments)
    BY <1>3, ListedFacts
  <2>2. Turn(x) = <<BlockIndex(Home(x)), IndexIn(x)>>
    BY <2>1 DEF Turn
  <2>3. BlockIndex(Home(x)) \in Nat \ {0} /\ BlockList[BlockIndex(Home(x))] = Home(x)
    BY <2>1, BlockIndexFacts
  <2>4. IndexIn(x) \in Nat \ {0} /\ InstrList(Home(x))[IndexIn(x)] = x
    BY <2>1, IndexInFacts
  <2>5. QED
    BY <1>3, <2>2, <2>3, <2>4
<1>4. QED
  BY <1>1, <1>2, <1>3, ListedFacts

(* No two have the same turn. *)
LEMMA TurnDistinct ==
  ASSUME Inv, NEW x \in Listed, NEW y \in Listed, Turn(x) = Turn(y)
  PROVE  x = y
BY TurnFacts, 0 \notin 1 .. Len(Arguments)

(* Turns come one after the other. *)
LEMMA EarlierFacts ==
  /\ \A t \in Nat \X Nat : ~ Earlier(t, t)
  /\ \A t, u \in Nat \X Nat : t = u \/ Earlier(t, u) \/ Earlier(u, t)
  /\ \A t, u, w \in Nat \X Nat : Earlier(t, u) /\ Earlier(u, w) => Earlier(t, w)
<1>1. ASSUME NEW t \in Nat \X Nat PROVE t = <<t[1], t[2]>> /\ t[1] \in Nat /\ t[2] \in Nat
  OBVIOUS
<1>2. \A t \in Nat \X Nat : ~ Earlier(t, t)
  BY <1>1 DEF Earlier
<1>3. ASSUME NEW t \in Nat \X Nat, NEW u \in Nat \X Nat PROVE t = u \/ Earlier(t, u) \/ Earlier(u, t)
  <2>1. t[1] = u[1] /\ t[2] = u[2] => t = u
    BY <1>1
  <2>2. QED
    BY <1>1, <2>1 DEF Earlier
<1>4. ASSUME NEW t \in Nat \X Nat, NEW u \in Nat \X Nat, NEW w \in Nat \X Nat,
             Earlier(t, u), Earlier(u, w)
      PROVE  Earlier(t, w)
  BY <1>1, <1>4 DEF Earlier
<1>5. QED
  BY <1>2, <1>3, <1>4

(* There are finitely many to name. *)
LEMMA ListedFinite ==
  ASSUME Inv
  PROVE  IsFiniteSet(Listed)
<1>1. IsFiniteSet(ToSet(Arguments))
  BY ArgumentsFacts, DistinctLength
<1>2. IsFiniteSet(Blocks)
  BY BlocksFinite
<1>3. IsFiniteSet(UNION {InList(b) : b \in Blocks})
  <2> DEFINE f == [b \in Blocks |-> InList(b)]
             S == {f[b] : b \in Blocks}
  <2>1. DOMAIN f = Blocks /\ \A b \in Blocks : f[b] = InList(b)
    OBVIOUS
  <2>2. \A b \in Blocks : IsFiniteSet(InList(b))
    BY InstrListFacts, DistinctLength DEF InList
  <2>3. S = {InList(b) : b \in Blocks}
    BY <2>1
  <2> HIDE DEF f
  <2>4. IsFiniteSet(S)
    BY <1>2, <2>1, ImageFinite
  <2>5. \A t \in S : IsFiniteSet(t)
    BY <2>1, <2>2
  <2>6. IsFiniteSet(UNION S)
    BY <2>4, <2>5, FS_UNION
  <2>7. QED
    BY <2>3, <2>6
<1>4. {v \in UNION {InList(b) : b \in Blocks} : ~ is_void(v)} \in SUBSET UNION {InList(b) : b \in Blocks}
  OBVIOUS
<1>5. IsFiniteSet({v \in UNION {InList(b) : b \in Blocks} : ~ is_void(v)})
  BY <1>3, <1>4, FS_Subset
<1>6. QED
  BY <1>1, <1>2, <1>5, FS_Union DEF Listed

(* The values without a name, and how many of them come before one.        *)
Nameless == {x \in Listed : name[x] = NoName}
Rank(x) == Cardinality(Before(Unnamed, x))

LEMMA UnnamedFacts ==
  ASSUME Inv
  PROVE  /\ {p[1] : p \in Unnamed} = Nameless
         /\ Cardinality(Unnamed) \in Nat
         /\ \A x \in Nameless : Rank(x) \in Nat /\ Rank(x) < Cardinality(Unnamed)
         /\ \A x, y \in Nameless : Rank(x) = Rank(y) => x = y
<1> DEFINE U == Unnamed
           entry(x) == <<x, Turn(x)>>
           before(x) == Before(U, x)
<1>1. U = {entry(x) : x \in Nameless}
  BY DEF Unnamed, Nameless
<1>2. {p[1] : p \in U} = Nameless
  <2>1. ASSUME NEW x \in Nameless PROVE x \in {p[1] : p \in U}
    <3>1. entry(x) \in U /\ entry(x)[1] = x
      BY <1>1
    <3> HIDE DEF entry
    <3>2. QED
      BY <3>1
  <2>2. ASSUME NEW p \in U PROVE p[1] \in Nameless
    BY <1>1
  <2> HIDE DEF U
  <2>3. QED
    BY <2>1, <2>2
<1>3. IsFiniteSet(U) /\ Cardinality(U) \in Nat
  <2> DEFINE f == [x \in Nameless |-> entry(x)]
  <2>1. DOMAIN f = Nameless /\ \A x \in Nameless : f[x] = entry(x)
    OBVIOUS
  <2>2. IsFiniteSet(Nameless)
    BY ListedFinite, FS_Subset DEF Nameless
  <2> HIDE DEF f
  <2>3. IsFiniteSet({f[x] : x \in Nameless})
    BY <2>1, <2>2, ImageFinite
  <2>4. U = {f[x] : x \in Nameless}
    BY <1>1, <2>1
  <2>5. QED
    BY <2>3, <2>4, FS_CardinalityType
<1>4. \A x \in Nameless : Turn(x) \in Nat \X Nat
  BY TurnFacts DEF Nameless
<1>5. ASSUME NEW x \in Nameless, NEW y \in Nameless
      PROVE  entry(y) \in before(x) <=> Earlier(Turn(y), Turn(x))
  <2>1. \A q \in U : q[1] = x => q[2] = Turn(x)
    BY <1>1
  <2>2. entry(x) \in U /\ entry(x)[1] = x /\ entry(x)[2] = Turn(x)
        /\ entry(y) \in U /\ entry(y)[2] = Turn(y)
    BY <1>1
  <2>3. QED
    BY <2>1, <2>2 DEF Before
<1>6. \A x : before(x) \subseteq U
  BY DEF Before
<1> HIDE DEF U, before, entry
<1>7. \A x : IsFiniteSet(before(x)) /\ Cardinality(before(x)) \in Nat
             /\ Cardinality(before(x)) <= Cardinality(U)
  BY <1>3, <1>6, FS_Subset, FS_CardinalityType
<1>8. ASSUME NEW x \in Nameless PROVE Cardinality(before(x)) < Cardinality(U)
  <2>1. entry(x) \in U /\ entry(x) \notin before(x)
    BY <1>1, <1>4, <1>5, EarlierFacts
  <2>2. Cardinality(before(x)) # Cardinality(U)
    BY <1>3, <1>6, <2>1, FS_Subset
  <2>3. QED
    BY <1>3, <1>7, <2>2
<1>9. ASSUME NEW x \in Nameless, NEW y \in Nameless, Earlier(Turn(x), Turn(y))
      PROVE  Cardinality(before(x)) # Cardinality(before(y))
  <2>1. entry(x) \in before(y) /\ entry(x) \notin before(x)
    BY <1>4, <1>5, <1>9, EarlierFacts
  <2>2. ASSUME NEW p \in before(x) PROVE p \in before(y)
    <3>1. PICK z \in Nameless : p = entry(z)
      BY <1>1, <1>6
    <3>2. Earlier(Turn(z), Turn(x))
      BY <1>5, <2>2, <3>1
    <3>3. Earlier(Turn(z), Turn(y))
      BY <1>4, <1>9, <3>2, EarlierFacts
    <3>4. QED
      BY <1>5, <3>1, <3>3
  <2>3. before(x) \in SUBSET before(y)
    BY <2>2
  <2>4. QED
    BY <1>7, <2>1, <2>3, FS_Subset
<1>10. ASSUME NEW x \in Nameless, NEW y \in Nameless, Cardinality(before(x)) = Cardinality(before(y))
       PROVE  x = y
  <2>1. Turn(x) = Turn(y)
    BY <1>4, <1>9, <1>10, EarlierFacts
  <2>2. QED
    BY <2>1, TurnDistinct DEF Nameless
<1>11. QED
  BY <1>2, <1>3, <1>7, <1>8, <1>10 DEF Rank, U, before

-----------------------------------------------------------------------------
(***************************************************************************)
(* The names                                                               *)
(***************************************************************************)
Nameable == ToSet(Arguments) \cup Blocks \cup Values \cup Locals

(* A name is none, one of the two a block is made with, or one of those    *)
(* numbered so far; no two values have the same.                           *)
NameInv ==
  /\ DOMAIN name = Nameable /\ seq_cnt_ \in Nat
  /\ \A x \in Nameable :
       \/ name[x] = NoName
       \/ name[x] \in {Name("entry", 0), Name("ret", 0)}
       \/ \E n \in 0 .. seq_cnt_ - 1 : name[x] = Name(Prefix(x), n)
  /\ \A x, y \in Nameable : name[x] = name[y] /\ name[x] # NoName => x = y

(* What is named can be. *)
LEMMA ListedNameable ==
  ASSUME Inv
  PROVE  Listed \subseteq Nameable
BY ListedFacts DEF Nameable

(* The texts names start with. *)
LEMMA PrefixFacts ==
  /\ \A x : Prefix(x) \in {"arg", "label", "op"}
  /\ \A x, n : Name(Prefix(x), n) \notin {NoName, Name("entry", 0), Name("ret", 0)}
  /\ \A p, q, m, n : Name(p, m) = Name(q, n) => m = n
<1>1. \A x : Prefix(x) \in {"arg", "label", "op"}
  BY DEF Prefix
<1>2. ASSUME NEW p, NEW q, NEW m, NEW n, Name(p, m) = Name(q, n) PROVE p = q /\ m = n
  <2>1. Name(p, m).prefix = p /\ Name(q, n).prefix = q /\ Name(p, m).number = m /\ Name(q, n).number = n
    BY DEF Name
  <2>2. QED
    BY <1>2, <2>1
<1>3. NoName = Name("", 0)
  BY DEF NoName, Name
<1>4. \A x : Prefix(x) \notin {"", "entry", "ret"}
  BY <1>1
<1>5. ASSUME NEW x, NEW n
      PROVE  Name(Prefix(x), n) \notin {NoName, Name("entry", 0), Name("ret", 0)}
  <2>1. Prefix(x) # "" /\ Prefix(x) # "entry" /\ Prefix(x) # "ret"
    BY <1>4
  <2>2. Name(Prefix(x), n) # NoName
    BY <1>2, <1>3, <2>1
  <2>3. Name(Prefix(x), n) # Name("entry", 0) /\ Name(Prefix(x), n) # Name("ret", 0)
    BY <1>2, <2>1
  <2>4. QED
    BY <2>2, <2>3
<1>6. QED
  BY <1>1, <1>2, <1>5

(* Naming names what is listed, and changes no name given before. *)
LEMMA NamingNames ==
  ASSUME Inv, NameInv, SetInstrName
  PROVE  /\ DOMAIN name' = Nameable /\ seq_cnt_' \in Nat /\ seq_cnt_ <= seq_cnt_'
         /\ \A x \in Nameable : name[x] # NoName => name'[x] = name[x]
         /\ \A x \in Nameable : x \notin Listed => name'[x] = name[x]
         /\ \A x \in Listed : name'[x] # NoName
         /\ \A x \in Nameless : /\ name'[x] = Name(Prefix(x), seq_cnt_ + Rank(x))
                                /\ seq_cnt_ + Rank(x) \in seq_cnt_ .. seq_cnt_' - 1
<1> DEFINE n == Cardinality(Unnamed)
<1>1. /\ name' = [x \in Nameable |->
              IF x \in Nameless THEN Name(Prefix(x), seq_cnt_ + Rank(x)) ELSE name[x]]
      /\ seq_cnt_' = seq_cnt_ + n
  <2>1. {p[1] : p \in Unnamed} = Nameless
    BY UnnamedFacts
  <2>2. DOMAIN name = Nameable
    BY DEF NameInv
  <2>3. /\ name' = [x \in DOMAIN name |->
              IF x \in {p[1] : p \in Unnamed} THEN Name(Prefix(x), seq_cnt_ + Rank(x)) ELSE name[x]]
        /\ seq_cnt_' = seq_cnt_ + n
    BY DEF SetInstrName, Rank
  <2>4. QED
    BY <2>1, <2>2, <2>3
<1>2. seq_cnt_ \in Nat /\ n \in Nat
  BY UnnamedFacts DEF NameInv
<1>3. Nameless \subseteq Listed /\ Listed \subseteq Nameable
  BY ListedNameable DEF Nameless
<1>4. \A x \in Listed : x \notin Nameless => name[x] # NoName
  BY DEF Nameless
<1>5. \A x \in Nameless : Rank(x) \in Nat /\ Rank(x) < n /\ name[x] = NoName
  BY UnnamedFacts DEF Nameless
<1> HIDE DEF n
<1>6. DOMAIN name' = Nameable /\ seq_cnt_' \in Nat /\ seq_cnt_ <= seq_cnt_'
  BY <1>1, <1>2
<1>7. \A x \in Nameable : name'[x] = IF x \in Nameless THEN Name(Prefix(x), seq_cnt_ + Rank(x)) ELSE name[x]
  BY <1>1
<1>8. \A x \in Nameless : seq_cnt_ + Rank(x) \in seq_cnt_ .. seq_cnt_' - 1
  BY <1>1, <1>2, <1>5
<1>9. QED
  BY <1>3, <1>4, <1>5, <1>6, <1>7, <1>8, PrefixFacts

(* A number that was given out is still below the count later. *)
LEMMA MoreNumbers ==
  \A m, n \in Nat : m <= n => \A k \in 0 .. m - 1 : k \in 0 .. n - 1
OBVIOUS

(* Each naming leaves the names distinct: those it gives are new. *)
LEMMA NamingKeepsNames ==
  ASSUME Inv, NameInv, SetInstrName, UNCHANGED prog
  PROVE  NameInv'
<1>1. Nameable' = Nameable
  BY DEF Nameable, Values, Ids, Phis, Code
<1>2. /\ DOMAIN name' = Nameable /\ seq_cnt_' \in Nat /\ seq_cnt_ <= seq_cnt_' /\ seq_cnt_ \in Nat
      /\ Nameless \subseteq Nameable
      /\ \A x \in Nameable : x \notin Nameless => name'[x] = name[x]
      /\ \A x \in Nameless : /\ name'[x] = Name(Prefix(x), seq_cnt_ + Rank(x))
                             /\ seq_cnt_ + Rank(x) \in seq_cnt_ .. seq_cnt_' - 1
      /\ \A x \in Nameless : Rank(x) \in Nat
  BY NamingNames, ListedNameable, UnnamedFacts DEF NameInv, Nameless
<1>3. ASSUME NEW x \in Nameable
      PROVE  \/ name'[x] = NoName
             \/ name'[x] \in {Name("entry", 0), Name("ret", 0)}
             \/ \E n \in 0 .. seq_cnt_' - 1 : name'[x] = Name(Prefix(x), n)
  <2>1. CASE x \in Nameless
    <3>1. seq_cnt_ + Rank(x) \in 0 .. seq_cnt_' - 1 /\ name'[x] = Name(Prefix(x), seq_cnt_ + Rank(x))
      BY <1>2, <2>1
    <3>2. QED
      BY <3>1
  <2>2. CASE x \notin Nameless
    <3>1. name'[x] = name[x]
      BY <1>2, <2>2
    <3>2. seq_cnt_ \in Nat /\ seq_cnt_' \in Nat /\ seq_cnt_ <= seq_cnt_'
      BY <1>2
    <3>3. \A n \in 0 .. seq_cnt_ - 1 : n \in 0 .. seq_cnt_' - 1
      BY <3>2, MoreNumbers
    <3>4. QED
      BY <3>1, <3>3 DEF NameInv
  <2>3. QED
    BY <2>1, <2>2
<1>4. ASSUME NEW x \in Nameless, NEW y \in Nameable, y \notin Nameless
      PROVE  name'[x] # name'[y]
  <2> DEFINE k == seq_cnt_ + Rank(x)
  <2>1. name'[y] = name[y] /\ name'[x] = Name(Prefix(x), k) /\ k \notin 0 .. seq_cnt_ - 1
    BY <1>2, <1>4
  <2> HIDE DEF k
  <2>2. \/ name[y] \in {NoName, Name("entry", 0), Name("ret", 0)}
        \/ \E n \in 0 .. seq_cnt_ - 1 : name[y] = Name(Prefix(y), n)
    BY DEF NameInv
  <2>3. QED
    BY <2>1, <2>2, PrefixFacts
<1>5. ASSUME NEW x \in Nameless, NEW y \in Nameless, name'[x] = name'[y]
      PROVE  x = y
  <2>1. seq_cnt_ + Rank(x) = seq_cnt_ + Rank(y)
    BY <1>2, <1>5, PrefixFacts
  <2>2. Rank(x) = Rank(y)
    BY <1>2, <2>1
  <2>3. QED
    BY <2>2, UnnamedFacts
<1>6. ASSUME NEW x \in Nameable, NEW y \in Nameable, name'[x] = name'[y], name'[x] # NoName
      PROVE  x = y
  <2>1. CASE x \in Nameless \/ y \in Nameless
    BY <1>4, <1>5, <1>6, <2>1
  <2>2. CASE x \notin Nameless /\ y \notin Nameless
    BY <1>2, <1>6, <2>2 DEF NameInv
  <2>3. QED
    BY <2>1, <2>2
<1>7. QED
  BY <1>1, <1>2, <1>3, <1>6 DEF NameInv

(* The labels that are dumped are names, and stay.                         *)
DumpInv == dump # NULL =>
  /\ DOMAIN dump = DOMAIN BlockList
  /\ \A k \in DOMAIN BlockList : dump[k] = name[BlockList[k]] /\ dump[k] # NoName

(* A phi has one pair for a predecessor.                                   *)
PhiArgsOnce == \A ph \in Phis : \A j, k \in 1 .. Len(phi_args[ph]) :
  phi_args[ph][j][2] = phi_args[ph][k][2] => j = k

(* A function that no pass has touched is as it was emitted.               *)
StartInv == stage = "emitted" \/ (stage = "print" /\ pc = "forward") => at = 1 /\ i = 1

TextInv == NameInv /\ DumpInv /\ PhiArgsOnce /\ StartInv

(* The function that is compiled stays the same one. *)
LEMMA ProgFixed == Next => UNCHANGED prog
<1> USE DEF Execute
<1>1. ForwardStore \/ ForwardLoad \/ SkipInstr \/ EndForwardBlock \/ CollectLoaded => UNCHANGED prog
  BY DEF ForwardStore, ForwardLoad, SkipInstr, EndForwardBlock, CollectLoaded
<1>2. (\E v \in Locals : StartVar(v)) \/ PlacePhis \/ EndVar \/ ValueDefineCounting => UNCHANGED prog
  BY DEF StartVar, PlacePhis, EndVar, ValueDefineCounting
<1>3. PushPhis \/ RenameLoad \/ RenameStore \/ RenameOther \/ FillPhiOperands => UNCHANGED prog
  BY DEF PushPhis, RenameLoad, RenameStore, RenameOther, FillPhiOperands
<1>4. (\E s \in Blocks : VisitSucc(s)) \/ LeaveBlock \/ RemoveAlloc => UNCHANGED prog
  BY DEF VisitSucc, LeaveBlock, RemoveAlloc
<1>5. (\E d \in Data : RunDef(d)) \/ RunLoad \/ RunStore \/ RunUse \/ (\E s \in Blocks : RunBranch(s))
      => UNCHANGED prog
  BY DEF RunDef, RunLoad, RunStore, RunUse, RunBranch
<1>6. QED
  BY <1>1, <1>2, <1>3, <1>4, <1>5 DEF Next

(* A renamed load changes what a phi takes, not from where, ... *)
LEMMA RenameLoadOnce ==
  ASSUME Inv, PhiArgsOnce, RenameLoad
  PROVE  PhiArgsOnce'
<1> DEFINE new(x) == IF x = <<bb, Frame.ip>> THEN Current(Code(bb)[Frame.ip].var) ELSE x
<1>1. phi_args' = [ph \in Phis |->
        [k \in DOMAIN phi_args[ph] |-> <<new(phi_args[ph][k][1]), phi_args[ph][k][2]>>]]
  BY DEF RenameLoad
<1> HIDE DEF new
<1>2. ASSUME NEW ph \in Phis
      PROVE  /\ Len(phi_args'[ph]) = Len(phi_args[ph])
             /\ \A k \in 1 .. Len(phi_args[ph]) : phi_args'[ph][k][2] = phi_args[ph][k][2]
  <2>1. DOMAIN phi_args[ph] = 1 .. Len(phi_args[ph]) /\ Len(phi_args[ph]) \in Nat
    <3>1. phi_args[ph] \in Seq(Values \X Blocks)
      BY DEF Inv, TypeInv
    <3>2. QED
      BY <3>1, TypedSequence, SequenceFacts1
  <2>2. phi_args'[ph] = [k \in 1 .. Len(phi_args[ph]) |->
                           <<new(phi_args[ph][k][1]), phi_args[ph][k][2]>>]
    BY <1>1, <2>1
  <2>3. QED
    BY <2>1, <2>2
<1>3. QED
  BY <1>2 DEF PhiArgsOnce, Phis

(* ... and a block gives its operands when it has not given them before.   *)
LEMMA FillPhiOperandsOnce ==
  ASSUME Inv, PhiArgsOnce, FillPhiOperands
  PROVE  PhiArgsOnce'
<1>1. /\ pc = "rename" /\ Frame.stage = "instrs"
      /\ phi_args' = [ph \in Phis |->
           IF ph[1] \in Frame.succs /\ HasPhi(ph[1], ph[2]) /\ value_status[ph[2]] # <<>>
             THEN Append(phi_args[ph], <<Current(ph[2]), bb>>) ELSE phi_args[ph]]
  BY DEF FillPhiOperands, InStage
<1>2. frames # <<>> /\ bb = Frame.bb /\ bb \in Blocks
  BY <1>1, FrameFacts
<1>3. ~ Passed(bb)
  BY <1>1, <1>2 DEF Passed
<1>4. ASSUME NEW ph \in Phis
      PROVE  \A j, k \in 1 .. Len(phi_args'[ph]) : phi_args'[ph][j][2] = phi_args'[ph][k][2] => j = k
  <2> DEFINE s == phi_args[ph]
             e == <<Current(ph[2]), bb>>
  <2>1. /\ Sequence(s) /\ Len(s) \in Nat
        /\ \A j, k \in 1 .. Len(s) : s[j][2] = s[k][2] => j = k
    <3>1. s \in Seq(Values \X Blocks)
      BY DEF Inv, TypeInv
    <3>2. QED
      BY <3>1, TypedSequence, SequenceFacts1 DEF PhiArgsOnce
  <2>2. \A k \in 1 .. Len(s) : s[k][2] # bb
    <3>1. ph[1] \in Blocks /\ ph[2] \in Locals /\ ph = <<ph[1], ph[2]>>
      BY DEF Phis
    <3>2. PhiArgsOf(ph[1], ph[2])
      BY <1>1, <3>1 DEF Inv, PhiArgsInv
    <3>3. QED
      BY <1>2, <1>3, <3>1, <3>2 DEF PhiArgsOf
  <2>3. phi_args'[ph] = s \/ phi_args'[ph] = Append(s, e)
    BY <1>1
  <2>4. e[2] = bb
    OBVIOUS
  <2> HIDE DEF s, e
  <2>5. /\ Len(Append(s, e)) = Len(s) + 1
        /\ \A k \in 1 .. Len(s) : Append(s, e)[k] = s[k]
        /\ Append(s, e)[Len(s) + 1] = e
    BY <2>1, AppendSequence
  <2>6. ASSUME NEW j \in 1 .. Len(s) + 1, NEW k \in 1 .. Len(s) + 1,
               Append(s, e)[j][2] = Append(s, e)[k][2]
        PROVE  j = k
    <3>1. \A m \in 1 .. Len(s) + 1 : m \in 1 .. Len(s) \/ m = Len(s) + 1
      BY <2>1
    <3>2. QED
      BY <2>1, <2>2, <2>4, <2>5, <2>6, <3>1
  <2>7. QED
    BY <2>1, <2>3, <2>5, <2>6
<1>5. QED
  BY <1>4 DEF PhiArgsOnce, Phis

(* No other step changes what phis take. *)
LEMMA PhiArgsOnceKept ==
  ASSUME Inv, PhiArgsOnce, Next
  PROVE  PhiArgsOnce'
<1>1. UNCHANGED phi_args => PhiArgsOnce'
  BY DEF PhiArgsOnce, Phis
<1> USE DEF Execute, irVars, phiVars
<1>2. ForwardStore \/ ForwardLoad \/ SkipInstr \/ EndForwardBlock \/ CollectLoaded => UNCHANGED phi_args
  BY DEF ForwardStore, ForwardLoad, SkipInstr, EndForwardBlock, CollectLoaded
<1>3. (\E v \in Locals : StartVar(v)) \/ PlacePhis \/ EndVar \/ ValueDefineCounting => UNCHANGED phi_args
  BY DEF StartVar, PlacePhis, EndVar, ValueDefineCounting
<1>4. PushPhis \/ RenameStore \/ RenameOther => UNCHANGED phi_args
  BY DEF PushPhis, RenameStore, RenameOther
<1>5. (\E s \in Blocks : VisitSucc(s)) \/ LeaveBlock \/ RemoveAlloc => UNCHANGED phi_args
  BY DEF VisitSucc, LeaveBlock, RemoveAlloc
<1>6. (\E d \in Data : RunDef(d)) \/ RunLoad \/ RunStore \/ RunUse \/ (\E s \in Blocks : RunBranch(s))
      => UNCHANGED phi_args
  BY DEF RunDef, RunLoad, RunStore, RunUse, RunBranch
<1>7. QED
  BY <1>1, <1>2, <1>3, <1>4, <1>5, <1>6, RenameLoadOnce, FillPhiOperandsOnce DEF Next

(* When a function is emitted, the entry and the block that returns have   *)
(* names.                                                                  *)
LEMMA TextInit ==
  ASSUME CompileInit
  PROVE  TextInv
<1>1. Inv /\ prog \in Programs
  BY InitKeeps DEF CompileInit, Inv, TypeInv
<1>2. /\ name = [v \in Nameable |->
              IF v = Entry THEN Name("entry", 0)
              ELSE IF v \in Blocks /\ prog.cfg[v] = {} THEN Name("ret", 0)
              ELSE NoName]
      /\ seq_cnt_ = 0 /\ dump = NULL /\ stage = "emitted"
  BY DEF CompileInit, Nameable
<1>3. \A b, c \in Blocks : prog.cfg[b] = {} /\ prog.cfg[c] = {} => b = c
  BY <1>1, ArgumentAssumption
<1>4. Name("entry", 0) # Name("ret", 0)
  <2>1. Name("entry", 0).prefix = "entry" /\ Name("ret", 0).prefix = "ret"
    BY DEF Name
  <2>2. QED
    BY <2>1
<1>5. NameInv
  <2>1. DOMAIN name = Nameable /\ seq_cnt_ \in Nat
    BY <1>2
  <2>2. \A x \in Nameable : name[x] \in {NoName, Name("entry", 0), Name("ret", 0)}
    BY <1>2
  <2>3. \A x, y \in Nameable : name[x] = name[y] /\ name[x] # NoName => x = y
    BY <1>2, <1>3, <1>4
  <2>4. QED
    BY <2>1, <2>2, <2>3 DEF NameInv
<1>6. DumpInv
  BY <1>2 DEF DumpInv
<1>7. PhiArgsOnce
  <2>1. \A ph \in Phis : phi_args[ph] = <<>>
    BY DEF CompileInit, Init
  <2>2. Len(<<>>) = 0 /\ \A k : k \notin 1 .. 0
    OBVIOUS
  <2>3. QED
    BY <2>1, <2>2 DEF PhiArgsOnce
<1>8. StartInv
  BY DEF CompileInit, Init, StartInv
<1>9. QED
  BY <1>5, <1>6, <1>7, <1>8 DEF TextInv

(* Dumped labels outlast a naming. *)
LEMMA DumpKept ==
  ASSUME Inv, NameInv, DumpInv, UNCHANGED dump, SetInstrName \/ UNCHANGED name
  PROVE  DumpInv'
<1>1. ASSUME SetInstrName PROVE \A x \in Blocks : name[x] # NoName => name'[x] = name[x]
  BY <1>1, NamingNames DEF Nameable
<1>2. \A k \in DOMAIN BlockList : BlockList[k] \in Blocks
  <2>1. DOMAIN BlockList = 1 .. Len(BlockList)
    BY ProgramAssumption, LenProperties
  <2>2. QED
    BY <2>1, BlockListFacts
<1>3. QED
  BY <1>1, <1>2 DEF DumpInv

(* Names and dump outlast a step that does not dump. *)
LEMMA TextKept ==
  ASSUME CompileInv, TextInv, UNCHANGED prog, UNCHANGED dump,
         SetInstrName \/ UNCHANGED namingVars,
         PhiArgsOnce', StartInv'
  PROVE  TextInv'
<1>1. Inv
  BY DEF CompileInv
<1>2. DumpInv'
  BY <1>1, DumpKept DEF TextInv, namingVars
<1>3. CASE SetInstrName
  BY <1>1, <1>2, <1>3, NamingKeepsNames DEF TextInv
<1>4. CASE UNCHANGED namingVars
  <2>1. Nameable' = Nameable
    BY DEF Nameable, Values, Ids, Phis, Code
  <2>2. NameInv'
    BY <1>4, <2>1 DEF TextInv, NameInv, namingVars
  <2>3. QED
    BY <1>2, <2>2 DEF TextInv
<1>5. QED
  BY <1>3, <1>4

(* LiveVar dumps names it has just made sure of. *)
LEMMA LiveVarText ==
  ASSUME CompileInv, TextInv, LiveVar
  PROVE  TextInv'
<1>1. /\ Inv /\ NameInv /\ SetInstrName /\ stage' = "named" /\ UNCHANGED vars
      /\ dump' = [k \in DOMAIN BlockList |-> name'[BlockList[k]]]
  BY DEF CompileInv, TextInv, LiveVar
<1>2. NameInv'
  BY <1>1, NamingKeepsNames DEF vars
<1>3. DumpInv'
  <2>1. DOMAIN BlockList = 1 .. Len(BlockList)
    BY ProgramAssumption, LenProperties
  <2>2. \A k \in DOMAIN BlockList : name'[BlockList[k]] # NoName
    BY <1>1, <2>1, BlockListFacts, ListedFacts, NamingNames
  <2>3. QED
    BY <1>1, <2>2 DEF DumpInv
<1>4. PhiArgsOnce'
  BY <1>1 DEF vars, irVars, TextInv, PhiArgsOnce, Phis
<1>5. StartInv'
  BY <1>1 DEF StartInv
<1>6. QED
  BY <1>2, <1>3, <1>4, <1>5 DEF TextInv

(* Every step of the compiler. *)
LEMMA TextNextKeeps ==
  ASSUME CompileInv, TextInv, CompileNext
  PROVE  TextInv'
<1> USE DEF InPass, Executing
<1>1. Inv /\ PhiArgsOnce
  BY DEF CompileInv, TextInv
<1>2. ASSUME Next, (stage = "passes" /\ stage' = stage) \/ stage' = "running", UNCHANGED dump,
             SetInstrName \/ UNCHANGED namingVars
      PROVE  TextInv'
  <2>1. UNCHANGED prog /\ PhiArgsOnce'
    BY <1>1, <1>2, ProgFixed, PhiArgsOnceKept
  <2>2. StartInv'
    BY <1>2 DEF StartInv
  <2>3. QED
    BY <1>2, <2>1, <2>2, TextKept
<1>3. ASSUME UNCHANGED prog, UNCHANGED phi_args, UNCHANGED dump, SetInstrName, StartInv'
      PROVE  TextInv'
  <2>1. PhiArgsOnce'
    BY <1>1, <1>3 DEF PhiArgsOnce, Phis
  <2>2. QED
    BY <1>3, <2>1, TextKept
<1>4. CASE NameEmitted
  <2>1. SetInstrName /\ UNCHANGED vars /\ UNCHANGED dump /\ stage = "emitted"
    BY <1>4 DEF NameEmitted, outputVars
  <2>2. StartInv'
    BY <2>1 DEF TextInv, StartInv, vars, scanVars
  <2>3. QED
    BY <1>3, <2>1, <2>2 DEF vars, irVars
<1>5. CASE NameAndCount
  BY <1>2, <1>5 DEF NameAndCount, Next, outputVars
<1>6. CASE LiveVar
  BY <1>6, LiveVarText
<1>7. CASE NameOptimized
  <2>1. SetInstrName /\ UNCHANGED vars /\ UNCHANGED dump /\ (stage = "named" \/ pc = "run")
    BY <1>7 DEF NameOptimized, outputVars
  <2>2. pc' = "run" /\ stage' = "print"
    BY <1>7, <2>1 DEF NameOptimized, vars, CompileInv, StageInv
  <2>3. StartInv'
    BY <2>2 DEF StartInv
  <2>4. QED
    BY <1>3, <2>1, <2>3 DEF vars, irVars
<1>8. CASE PrintFunction
  <2>1. /\ SetInstrName /\ UNCHANGED dump /\ stage' = "printed" /\ UNCHANGED prog /\ UNCHANGED phi_args
    BY <1>8 DEF PrintFunction, irVars
  <2>2. StartInv'
    BY <2>1 DEF StartInv
  <2>3. QED
    BY <1>3, <2>1, <2>2
<1> USE DEF outputVars
<1>9. CASE \/ InPass(ForwardStore) \/ InPass(ForwardLoad) \/ InPass(SkipInstr)
           \/ InPass(EndForwardBlock) \/ InPass(CollectLoaded) \/ InPass(PlacePhis) \/ InPass(EndVar)
  BY <1>2, <1>9 DEF Next
<1>10. CASE \/ InPass(PushPhis) \/ InPass(RenameLoad) \/ InPass(RenameStore) \/ InPass(RenameOther)
            \/ InPass(FillPhiOperands) \/ InPass(LeaveBlock) \/ InPass(RemoveAlloc)
  BY <1>2, <1>10 DEF Next
<1>11. ASSUME NEW v \in Locals, InPass(StartVar(v)) PROVE TextInv'
  BY <1>2, <1>11 DEF Next
<1>12. ASSUME NEW s \in Blocks, InPass(VisitSucc(s)) PROVE TextInv'
  BY <1>2, <1>12 DEF Next
<1>13. CASE Executing(RunLoad) \/ Executing(RunStore) \/ Executing(RunUse)
  BY <1>2, <1>13 DEF Next
<1>14. ASSUME NEW d \in Data, Executing(RunDef(d)) PROVE TextInv'
  BY <1>2, <1>14 DEF Next
<1>15. ASSUME NEW s \in Blocks, Executing(RunBranch(s)) PROVE TextInv'
  BY <1>2, <1>15 DEF Next
<1> HIDE DEF InPass, Executing, outputVars
<1>16. QED
  BY <1>4, <1>5, <1>6, <1>7, <1>8, <1>9, <1>10, <1>11, <1>12, <1>13, <1>14, <1>15 DEF CompileNext

(* Nothing changes while nothing happens. *)
LEMMA TextStutter ==
  ASSUME TextInv, UNCHANGED compileVars
  PROVE  TextInv'
BY DEF TextInv, NameInv, DumpInv, PhiArgsOnce, StartInv, Nameable, Values, Ids, Phis, Code, Prefix,
       compileVars, vars, irVars, scanVars, namingVars, outputVars

(* What is printed, and what is known of the function then.                *)
PrintedInv == stage = "printed" =>
  /\ text = [args   |-> [k \in DOMAIN Arguments |-> name[Arguments[k]]],
             blocks |-> [k \in DOMAIN BlockList |-> PrintBlock(name, BlockList[k])]]
  /\ \A x \in Listed : name[x] # NoName
  /\ pc = "run" \/ (pc = "forward" /\ at = 1 /\ i = 1)

(* The function is printed as it is. *)
LEMMA PrintedAsIs ==
  ASSUME UNCHANGED irVars, UNCHANGED prog, NEW b \in Blocks
  PROVE  PrintBlock(name, b)' = PrintBlock(name', b)
<1>1. /\ Code(b)' = Code(b) /\ Ids' = Ids
      /\ PhiIds(b)' = PhiIds(b) /\ Allocas(b)' = Allocas(b) /\ InstrIds(b)' = InstrIds(b)
  BY DEF Code, Ids, PhiIds, Allocas, InstrIds, irVars
<1>2. InstrList(b)' = InstrList(b)
  BY <1>1 DEF InstrList
<1>3. PrintTerminator(name, b)' = PrintTerminator(name', b)
  BY DEF PrintTerminator, print_as_op
<1>4. ASSUME NEW v PROVE PrintInstr(name, v)' = PrintInstr(name', v)
  <2>1. Phis' = Phis
    BY DEF Phis
  <2>2. Operands(v)' = Operands(v) /\ (is_void(v)' <=> is_void(v))
    BY <1>1 DEF Operands, is_void, Code, irVars
  <2>3. PrintPhi(name, v)' = PrintPhi(name', v)
    BY DEF PrintPhi, print_as_op, PreBasicBlocks, irVars
  <2>4. QED
    BY <2>1, <2>2, <2>3 DEF PrintInstr, print_as_op, Code
<1>5. QED
  BY <1>2, <1>3, <1>4 DEF PrintBlock

(* The values to name are those of the function. *)
LEMMA ListedKept ==
  ASSUME UNCHANGED irVars, UNCHANGED prog
  PROVE  Listed' = Listed
<1>1. \A b : PhiIds(b)' = PhiIds(b) /\ Allocas(b)' = Allocas(b) /\ InstrIds(b)' = InstrIds(b)
  BY DEF PhiIds, Allocas, InstrIds, irVars
<1>2. \A b : InList(b)' = InList(b)
  BY <1>1 DEF InList, InstrList
<1>3. \A v : is_void(v)' <=> is_void(v)
  BY DEF is_void, Ids, Code
<1>4. QED
  BY <1>2, <1>3 DEF Listed

(* Function::print prints names only. *)
LEMMA PrintFunctionPrints ==
  ASSUME CompileInv, TextInv, PrintFunction
  PROVE  PrintedInv'
<1>1. /\ Inv /\ NameInv /\ SetInstrName /\ stage = "print"
      /\ UNCHANGED prog /\ UNCHANGED irVars /\ UNCHANGED pc /\ UNCHANGED at /\ UNCHANGED i
      /\ text' = [args   |-> [k \in DOMAIN Arguments |-> name'[Arguments[k]]],
                  blocks |-> [k \in DOMAIN BlockList |-> PrintBlock(name', BlockList[k])]]
  BY DEF CompileInv, TextInv, PrintFunction, scanVars
<1>2. \A k \in DOMAIN BlockList : BlockList[k] \in Blocks
  <2>1. DOMAIN BlockList = 1 .. Len(BlockList)
    BY ProgramAssumption, LenProperties
  <2>2. QED
    BY <2>1, BlockListFacts
<1>3. \A k \in DOMAIN BlockList : PrintBlock(name, BlockList[k])' = PrintBlock(name', BlockList[k])
  BY <1>1, <1>2, PrintedAsIs
<1>4. Listed' = Listed
  BY <1>1, ListedKept
<1>5. \A x \in Listed : name'[x] # NoName
  BY <1>1, NamingNames
<1>6. pc = "run" \/ (pc = "forward" /\ at = 1 /\ i = 1)
  BY <1>1 DEF CompileInv, StageInv, TextInv, StartInv
<1>7. QED
  BY <1>1, <1>3, <1>4, <1>5, <1>6 DEF PrintedInv

(* Nothing else makes the text. *)
LEMMA PrintedNextKeeps ==
  ASSUME CompileInv, TextInv, CompileNext
  PROVE  PrintedInv'
<1>1. CASE PrintFunction
  BY <1>1, PrintFunctionPrints
<1>2. CASE ~ PrintFunction
  <2>1. stage' # "printed"
    <3> USE DEF InPass, Executing
    <3>1. NameEmitted \/ NameAndCount \/ LiveVar \/ NameOptimized => stage' # "printed"
      BY DEF NameEmitted, NameAndCount, LiveVar, NameOptimized
    <3>2. CompileNext =>
            \/ NameEmitted \/ NameAndCount \/ LiveVar \/ NameOptimized \/ PrintFunction
            \/ stage = "passes" /\ stage' = stage
            \/ stage' = "running"
      BY DEF CompileNext
    <3>3. QED
      BY <1>2, <3>1, <3>2
  <2>2. QED
    BY <2>1 DEF PrintedInv
<1>3. QED
  BY <1>1, <1>2

(***************************************************************************)
(* Reading the printed text                                                *)
(***************************************************************************)
Printed == Inv /\ NameInv /\ PrintedInv /\ stage = "printed"

Lines(b) == text.blocks[BlockIndex(b)].code

(* The lines of the text. *)
LEMMA TextShape ==
  ASSUME Printed
  PROVE  /\ DOMAIN text.args = 1 .. Len(Arguments)
         /\ \A k \in 1 .. Len(Arguments) : text.args[k] = name[Arguments[k]]
         /\ DOMAIN text.blocks = 1 .. Len(BlockList)
         /\ \A b \in Blocks :
              /\ text.blocks[BlockIndex(b)].label = name[b]
              /\ DOMAIN Lines(b) = 1 .. Len(InstrList(b)) + 1
              /\ \A j \in 1 .. Len(InstrList(b)) : Lines(b)[j] = PrintInstr(name, InstrList(b)[j])
              /\ Lines(b)[Len(InstrList(b)) + 1] = PrintTerminator(name, b)
              /\ Last(Lines(b)) = PrintTerminator(name, b)
<1>1. text = [args   |-> [k \in DOMAIN Arguments |-> name[Arguments[k]]],
              blocks |-> [k \in DOMAIN BlockList |-> PrintBlock(name, BlockList[k])]]
  BY DEF Printed, PrintedInv
<1>2. DOMAIN Arguments = 1 .. Len(Arguments) /\ DOMAIN BlockList = 1 .. Len(BlockList)
  BY ArgumentsFacts, ProgramAssumption, LenProperties
<1>3. text.args = [k \in 1 .. Len(Arguments) |-> name[Arguments[k]]]
      /\ text.blocks = [k \in 1 .. Len(BlockList) |-> PrintBlock(name, BlockList[k])]
  BY <1>1, <1>2
<1>4. ASSUME NEW b \in Blocks
      PROVE  /\ text.blocks[BlockIndex(b)].label = name[b]
             /\ DOMAIN Lines(b) = 1 .. Len(InstrList(b)) + 1
             /\ \A j \in 1 .. Len(InstrList(b)) : Lines(b)[j] = PrintInstr(name, InstrList(b)[j])
             /\ Lines(b)[Len(InstrList(b)) + 1] = PrintTerminator(name, b)
             /\ Last(Lines(b)) = PrintTerminator(name, b)
  <2> DEFINE n == Len(InstrList(b))
             s == [k \in DOMAIN InstrList(b) |-> PrintInstr(name, InstrList(b)[k])]
             e == PrintTerminator(name, b)
             u == s \o <<e>>
  <2>1. text.blocks[BlockIndex(b)] = PrintBlock(name, b)
    BY <1>3, BlockIndexFacts
  <2>2. text.blocks[BlockIndex(b)].label = name[b] /\ Lines(b) = u
    BY <2>1 DEF PrintBlock, Lines
  <2>3. n \in Nat /\ DOMAIN InstrList(b) = 1 .. n
    BY InstrListFacts DEF Printed
  <2>4. Sequence(s) /\ Len(s) = n /\ \A j \in 1 .. n : s[j] = PrintInstr(name, InstrList(b)[j])
    <3> DEFINE D == {PrintInstr(name, InstrList(b)[k]) : k \in 1 .. n}
    <3>1. s \in [1 .. n -> D] /\ \A j \in 1 .. n : s[j] = PrintInstr(name, InstrList(b)[j])
      BY <2>3
    <3> HIDE DEF D, s, n
    <3>2. QED
      BY <2>3, <3>1, FunctionSequence
  <2> HIDE DEF s, e, n
  <2>5. Sequence(<<e>>) /\ Len(<<e>>) = 1 /\ <<e>>[1] = e
    BY ShortSequences
  <2>6. /\ Sequence(u) /\ Len(u) = n + 1
        /\ \A k \in 1 .. n : u[k] = s[k]
        /\ u[n + 1] = e
    BY <2>3, <2>4, <2>5, ConcatSequence
  <2> HIDE DEF u
  <2>7. DOMAIN u = 1 .. n + 1 /\ Last(u) = e
    BY <2>6, SequenceFacts1 DEF Last
  <2>8. QED
    BY <2>2, <2>4, <2>6, <2>7 DEF n, e
<1>5. QED
  BY <1>3, <1>4

(* Where each value that is named stands in it. *)
PlaceAt(x) == IF x \in ToSet(Arguments) THEN <<"arg", Turn(x)[2], 0>> ELSE PlaceOf(x)

LEMMA PlaceFacts ==
  ASSUME Inv
  PROVE  /\ \A k \in 1 .. Len(Arguments) : /\ Arguments[k] \in Listed
                                           /\ PlaceAt(Arguments[k]) = <<"arg", k, 0>>
         /\ \A b \in Blocks : /\ b \in Listed /\ PlaceAt(b) = PlaceOf(b)
                              /\ PlaceOf(b) = <<"label", BlockIndex(b), 0>>
         /\ \A b \in Blocks : \A j \in 1 .. Len(InstrList(b)) :
              /\ InstrList(b)[j] \in InList(b)
              /\ PlaceOf(InstrList(b)[j]) = <<"line", BlockIndex(b), j>>
              /\ ~ is_void(InstrList(b)[j]) =>
                   /\ InstrList(b)[j] \in Listed
                   /\ PlaceAt(InstrList(b)[j]) = PlaceOf(InstrList(b)[j])
         /\ \A x \in Listed : \/ \E k \in 1 .. Len(Arguments) : x = Arguments[k]
                              \/ x \in Blocks
                              \/ \E b \in Blocks : \E j \in 1 .. Len(InstrList(b)) :
                                   x = InstrList(b)[j] /\ ~ is_void(x)
<1>1. ASSUME NEW k \in 1 .. Len(Arguments)
      PROVE  Arguments[k] \in Listed /\ PlaceAt(Arguments[k]) = <<"arg", k, 0>>
  <2> DEFINE x == Arguments[k]
  <2>1. x \in ToSet(Arguments) /\ x \in Listed
    BY ArgumentsFacts, ListedFacts
  <2>2. Turn(x)[2] \in 1 .. Len(Arguments) /\ Arguments[Turn(x)[2]] = x
    BY <2>1, TurnFacts, ListedFacts, KindFacts
  <2>3. Turn(x)[2] = k
    BY <2>2, ArgumentsFacts
  <2>4. QED
    BY <2>1, <2>3 DEF PlaceAt
<1>2. ASSUME NEW b \in Blocks
      PROVE  b \in Listed /\ PlaceAt(b) = PlaceOf(b) /\ PlaceOf(b) = <<"label", BlockIndex(b), 0>>
  BY ListedFacts, KindFacts DEF PlaceAt, PlaceOf
<1>3. ASSUME NEW b \in Blocks, NEW j \in 1 .. Len(InstrList(b))
      PROVE  /\ InstrList(b)[j] \in InList(b)
             /\ PlaceOf(InstrList(b)[j]) = <<"line", BlockIndex(b), j>>
             /\ ~ is_void(InstrList(b)[j]) => /\ InstrList(b)[j] \in Listed
                                              /\ PlaceAt(InstrList(b)[j]) = PlaceOf(InstrList(b)[j])
  <2> DEFINE x == InstrList(b)[j]
  <2>1. x \in InList(b) /\ Home(x) = b /\ x \notin Blocks /\ x \notin ToSet(Arguments)
    BY InstrListFacts
  <2>2. IndexIn(x) = j
    BY IndexInFacts
  <2> HIDE DEF x
  <2>3. PlaceOf(x) = <<"line", BlockIndex(b), j>> /\ PlaceAt(x) = PlaceOf(x)
    BY <2>1, <2>2 DEF PlaceOf, PlaceAt
  <2>4. ~ is_void(x) => x \in Listed
    BY <2>1, ListedFacts
  <2>5. QED
    BY <2>1, <2>3, <2>4 DEF x
<1>4. ASSUME NEW x \in Listed
      PROVE  \/ \E k \in 1 .. Len(Arguments) : x = Arguments[k]
             \/ x \in Blocks
             \/ \E b \in Blocks : \E j \in 1 .. Len(InstrList(b)) :
                  x = InstrList(b)[j] /\ ~ is_void(x)
  <2>1. CASE x \in ToSet(Arguments)
    BY <2>1, ArgumentsFacts
  <2>2. CASE Result(x)
    <3>1. Home(x) \in Blocks /\ x \in InList(Home(x)) /\ ~ is_void(x)
      BY <2>2, ListedFacts
    <3>2. PICK j \in 1 .. Len(InstrList(Home(x))) : InstrList(Home(x))[j] = x
      BY <3>1, InstrListFacts
    <3>3. QED
      BY <3>1, <3>2
  <2>3. QED
    BY <2>1, <2>2, ListedFacts
<1>5. QED
  BY <1>1, <1>2, <1>3, <1>4

(* What a line defines. *)
LEMMA LineDefines ==
  ASSUME Printed, NEW b \in Blocks, NEW j \in 1 .. Len(InstrList(b))
  PROVE  Lines(b)[j].def = IF is_void(InstrList(b)[j]) THEN NoName ELSE name[InstrList(b)[j]]
<1> DEFINE v == InstrList(b)[j]
<1>1. Lines(b)[j] = PrintInstr(name, v)
  BY TextShape
<1>2. v \in Phis => ~ is_void(v)
  BY KindFacts DEF is_void
<1> HIDE DEF v
<1>3. PrintInstr(name, v).def = IF is_void(v) THEN NoName ELSE name[v]
  BY <1>2 DEF PrintInstr
<1>4. QED
  BY <1>1, <1>3 DEF v

(* Each place that defines a name is that of a value with the name ...     *)
LEMMA PlaceDefines ==
  ASSUME Printed, NEW p \in Places(text), DefinedAt(text, p) # NoName
  PROVE  \E x \in Listed : p = PlaceAt(x) /\ DefinedAt(text, p) = name[x]
<1>0. Inv
  BY DEF Printed
<1>1. CASE \E k \in DOMAIN text.args : p = <<"arg", k, 0>>
  <2>1. PICK k \in DOMAIN text.args : p = <<"arg", k, 0>>
    BY <1>1
  <2>2. k \in 1 .. Len(Arguments) /\ text.args[k] = name[Arguments[k]]
    BY <2>1, TextShape
  <2>3. DefinedAt(text, p) = text.args[k]
    BY <2>1 DEF DefinedAt
  <2>4. QED
    BY <1>0, <2>1, <2>2, <2>3, PlaceFacts
<1>2. CASE \E k \in DOMAIN text.blocks : p = <<"label", k, 0>>
  <2>1. PICK k \in DOMAIN text.blocks : p = <<"label", k, 0>>
    BY <1>2
  <2>2. k \in 1 .. Len(BlockList)
    BY <2>1, TextShape
  <2>3. BlockList[k] \in Blocks /\ BlockIndex(BlockList[k]) = k
    BY <2>2, BlockListFacts, BlockIndexFacts
  <2>4. DefinedAt(text, p) = text.blocks[k].label
    BY <2>1 DEF DefinedAt
  <2>5. text.blocks[k].label = name[BlockList[k]]
    BY <2>3, TextShape
  <2>6. QED
    BY <1>0, <2>1, <2>3, <2>4, <2>5, PlaceFacts
<1>3. CASE \E k \in DOMAIN text.blocks : \E j \in DOMAIN text.blocks[k].code : p = <<"line", k, j>>
  <2>1. PICK k \in DOMAIN text.blocks : \E j \in DOMAIN text.blocks[k].code : p = <<"line", k, j>>
    BY <1>3
  <2>2. PICK j \in DOMAIN text.blocks[k].code : p = <<"line", k, j>>
    BY <2>1
  <2>3. k \in 1 .. Len(BlockList)
    BY <2>1, TextShape
  <2> DEFINE b == BlockList[k]
  <2>4. b \in Blocks /\ BlockIndex(b) = k
    BY <2>3, BlockListFacts, BlockIndexFacts
  <2>5. Lines(b) = text.blocks[k].code
    BY <2>4 DEF Lines
  <2>6. DefinedAt(text, p) = Lines(b)[j].def
    BY <2>2, <2>5 DEF DefinedAt
  <2> HIDE DEF b
  <2>7. j \in 1 .. Len(InstrList(b)) + 1 /\ Len(InstrList(b)) \in Nat
    BY <1>0, <2>2, <2>4, <2>5, TextShape, InstrListFacts
  <2>8. j # Len(InstrList(b)) + 1
    <3>1. Lines(b)[Len(InstrList(b)) + 1].def = NoName
      <4>1. Lines(b)[Len(InstrList(b)) + 1] = PrintTerminator(name, b)
        BY <2>4, TextShape
      <4>2. PrintTerminator(name, b).def = NoName
        BY DEF PrintTerminator
      <4>3. QED
        BY <4>1, <4>2
    <3>2. QED
      BY <2>6, <3>1
  <2>9. j \in 1 .. Len(InstrList(b))
    BY <2>7, <2>8
  <2>10. ~ is_void(InstrList(b)[j]) /\ DefinedAt(text, p) = name[InstrList(b)[j]]
    BY <2>4, <2>6, <2>9, LineDefines
  <2>11. InstrList(b)[j] \in Listed /\ PlaceAt(InstrList(b)[j]) = <<"line", k, j>>
    BY <1>0, <2>4, <2>9, <2>10, PlaceFacts
  <2>12. QED
    BY <2>2, <2>10, <2>11
<1>4. QED
  BY <1>1, <1>2, <1>3 DEF Places

(* ... and each value's place defines its name.                            *)
LEMMA DefinesPlace ==
  ASSUME Printed, NEW x \in Listed
  PROVE  PlaceAt(x) \in Places(text) /\ DefinedAt(text, PlaceAt(x)) = name[x]
<1>0. Inv
  BY DEF Printed
<1>1. ASSUME NEW k \in 1 .. Len(Arguments), x = Arguments[k]
      PROVE  PlaceAt(x) \in Places(text) /\ DefinedAt(text, PlaceAt(x)) = name[x]
  <2>1. k \in DOMAIN text.args /\ text.args[k] = name[x] /\ PlaceAt(x) = <<"arg", k, 0>>
    BY <1>0, <1>1, TextShape, PlaceFacts
  <2>2. QED
    BY <2>1 DEF Places, DefinedAt
<1>2. ASSUME x \in Blocks
      PROVE  PlaceAt(x) \in Places(text) /\ DefinedAt(text, PlaceAt(x)) = name[x]
  <2>1. /\ BlockIndex(x) \in DOMAIN text.blocks /\ text.blocks[BlockIndex(x)].label = name[x]
        /\ PlaceAt(x) = <<"label", BlockIndex(x), 0>>
    BY <1>0, <1>2, TextShape, PlaceFacts, BlockIndexFacts
  <2>2. QED
    BY <2>1 DEF Places, DefinedAt
<1>3. ASSUME NEW b \in Blocks, NEW j \in 1 .. Len(InstrList(b)), x = InstrList(b)[j], ~ is_void(x)
      PROVE  PlaceAt(x) \in Places(text) /\ DefinedAt(text, PlaceAt(x)) = name[x]
  <2>1. PlaceAt(x) = <<"line", BlockIndex(b), j>>
    BY <1>0, <1>3, PlaceFacts
  <2>2. Lines(b)[j].def = name[x]
    BY <1>3, LineDefines
  <2>3. BlockIndex(b) \in DOMAIN text.blocks /\ j \in DOMAIN Lines(b)
    <3>1. Len(InstrList(b)) \in Nat
      BY <1>0, InstrListFacts
    <3>2. DOMAIN Lines(b) = 1 .. Len(InstrList(b)) + 1 /\ DOMAIN text.blocks = 1 .. Len(BlockList)
      BY TextShape
    <3>3. QED
      BY <3>1, <3>2, BlockIndexFacts
  <2>4. PlaceAt(x) \in Places(text)
    BY <2>1, <2>3 DEF Places, Lines
  <2>5. DefinedAt(text, PlaceAt(x)) = name[x]
    BY <2>1, <2>2 DEF DefinedAt, Lines
  <2>6. QED
    BY <2>4, <2>5
<1>4. QED
  BY <1>0, <1>1, <1>2, <1>3, PlaceFacts

(* So what has the name of a value resolves to it. *)
LEMMA NameResolves ==
  ASSUME Printed, NEW x \in Listed, NEW r, r.of = name[x]
  PROVE  Resolve(text, r) = PlaceAt(x)
<1> DEFINE here == {p \in Places(text) : r.of # NoName /\ DefinedAt(text, p) = r.of}
<1>1. name[x] # NoName
  BY DEF Printed, PrintedInv
<1>2. PlaceAt(x) \in here
  BY <1>1, DefinesPlace
<1>3. ASSUME NEW p \in here PROVE p = PlaceAt(x)
  <2>1. PICK y \in Listed : p = PlaceAt(y) /\ DefinedAt(text, p) = name[y]
    BY PlaceDefines
  <2>2. name[y] = name[x]
    BY <2>1
  <2>3. x \in Nameable /\ y \in Nameable
    BY ListedNameable DEF Printed
  <2>4. y = x
    BY <1>1, <2>2, <2>3 DEF Printed, NameInv
  <2>5. QED
    BY <2>1, <2>4
<1> HIDE DEF here
<1>4. here = {PlaceAt(x)}
  BY <1>2, <1>3
<1>5. Cardinality(here) = 1 /\ (CHOOSE p \in here : TRUE) = PlaceAt(x)
  BY <1>4, FS_Singleton
<1>6. QED
  BY <1>5 DEF Resolve, here

(***************************************************************************)
(* What the operands of the text name                                      *)
(***************************************************************************)
(* What is left of the code and computes something is named, ... *)
LEMMA ComputedListed ==
  ASSUME Inv, NEW b \in Blocks, NEW m \in live[b], Computes(prog, b, m)
  PROVE  <<b, m>> \in Listed /\ Result(<<b, m>>)
<1>1. prog \in Programs
  BY DEF Inv, TypeInv
<1>2. m \in Positions(prog, b) /\ <<b, m>> \in Ids
  BY <1>1, IdFacts DEF Computes
<1>3. <<b, m>> \in InList(b)
  BY <1>2, InstrListFacts
<1>4. ~ is_void(<<b, m>>)
  BY DEF is_void, Computes, Code
<1>5. QED
  BY <1>3, <1>4, ListedFacts

(* ... and so are the phis and the instructions that stay.                 *)
LEMMA InPlaceListed ==
  ASSUME Inv, NEW x, InPlace(prog, phis, x)
  PROVE  x \in Listed /\ Result(x)
<1>1. CASE x \in Phis /\ x[2] \in ToSet(phis[x[1]])
  <2>1. x[1] \in Blocks
    BY <1>1 DEF Phis
  <2>2. x \in InList(x[1])
    BY <1>1, <2>1, InstrListFacts DEF HasPhi
  <2>3. ~ is_void(x)
    BY <1>1, KindFacts DEF is_void
  <2>4. QED
    BY <2>1, <2>2, <2>3, ListedFacts
<1>2. CASE /\ x \in Blocks \X Nat /\ Computes(prog, x[1], x[2])
           /\ ~ IsLocal(prog, x[1], x[2], "load")
  <2>1. x = <<x[1], x[2]>> /\ x[1] \in Blocks
    BY <1>2
  <2>2. x[2] \in Renamed(prog, x[1])
    BY <1>2 DEF Renamed, Kept, Computes, IsLocalOp, IsLocal
  <2>3. x[2] \in live[x[1]]
    BY <2>1, <2>2, LiveBounds
  <2>4. <<x[1], x[2]>> \in Listed /\ Result(<<x[1], x[2]>>)
    BY <1>2, <2>1, <2>3, ComputedListed
  <2>5. QED
    BY <2>1, <2>4
<1>3. QED
  BY <1>1, <1>2 DEF InPlace

(* So is the operand of each instruction of a printed function. *)
LEMMA OperandListed ==
  ASSUME Printed, NEW b \in Blocks, NEW k \in live[b], TakesOperand(prog, b, k)
  PROVE  operand[<<b, k>>] \in Listed /\ Result(operand[<<b, k>>])
<1>1. Inv /\ prog \in Programs /\ (pc = "run" \/ (pc = "forward" /\ at = 1 /\ i = 1))
  BY DEF Printed, PrintedInv, Inv, TypeInv
<1>2. k \in Positions(prog, b)
  BY DEF TakesOperand
<1>3. CASE pc = "run"
  <2>1. UsesInv(prog, phis, operand, b, End(prog, b))
    BY <1>1, <1>3, RunFacts
  <2>2. Located(prog, phis, operand, b, k, End(prog, b))
    BY <1>2, <2>1 DEF UsesInv
  <2>3. \A m : m \notin End(prog, b) .. k - 1
    BY <1>1, <1>2, PositionsFacts
  <2>4. InPlace(prog, phis, operand[<<b, k>>])
    BY <2>2, <2>3 DEF Located, Available
  <2>5. QED
    BY <1>1, <2>4, InPlaceListed
<1>4. CASE pc = "forward" /\ at = 1
  <2>1. PICK n \in 1 .. Len(BlockList) : BlockList[n] = b
    BY BlockListFacts
  <2>2. ~ (n < at)
    BY <1>4, BlockListFacts
  <2>3. operand[<<b, k>>] = <<b, prog.code[b][k].arg>> /\ live[b] = Positions(prog, b)
    BY <1>1, <1>2, <1>4, <2>1, <2>2 DEF Inv, ForwardInv, LiveInv
  <2>4. Computes(prog, b, prog.code[b][k].arg) /\ prog.code[b][k].arg \in live[b]
    BY <1>1, <1>2, <2>3, ProgramFacts DEF Computes
  <2>5. QED
    BY <1>1, <2>3, <2>4, ComputedListed
<1>5. QED
  BY <1>1, <1>3, <1>4

(* The variable of a load or store that is printed is a global, or there   *)
(* is an alloca for it.                                                    *)
LEMMA VariableListed ==
  ASSUME Printed, NEW b \in Blocks, NEW k \in live[b], prog.code[b][k].op \in {"load", "store"},
         prog.code[b][k].var \notin Globals
  PROVE  prog.code[b][k].var \in Listed /\ Result(prog.code[b][k].var)
<1> DEFINE v == prog.code[b][k].var
<1>1. Inv /\ prog \in Programs /\ Entry \in Blocks /\ (pc = "run" \/ pc = "forward")
  BY ProgramAssumption DEF Printed, PrintedInv, Inv, TypeInv
<1>2. v \in Locals
  <2>1. k \in Positions(prog, b)
    BY <1>1, LiveBounds
  <2>2. QED
    BY <1>1, <2>1, ProgramFacts DEF Vars
<1>3. allocas # {}
  <2>1. isLocalVarOp(b, k)
    BY <1>2 DEF isLocalVarOp, Code
  <2>2. k \in LocalOps(b, "load") \cup LocalOps(b, "store")
    BY <2>1 DEF LocalOps, Code
  <2>3. QED
    BY <1>1, <2>2, NoLocalOps
<1>4. v \in allocas
  BY <1>1, <1>2, <1>3 DEF Inv, PhaseInv
<1> HIDE DEF v
<1>5. v \in InList(Entry) /\ ~ is_void(v)
  BY <1>1, <1>2, <1>4, InstrListFacts, KindFacts DEF is_void
<1>6. v \in Listed /\ Result(v)
  BY <1>1, <1>5, ListedFacts
<1>7. QED
  BY <1>6 DEF v

(* A value prints as what resolves to it, ... *)
LEMMA PrintsSame ==
  ASSUME Printed, NEW x, x \in Globals \/ Result(x)
  PROVE  SamePlace(text, print_as_op(name, x), x)
<1>1. CASE x \in Globals
  BY <1>1 DEF SamePlace, print_as_op
<1>2. CASE x \notin Globals
  <2>1. x \in Listed /\ x \notin ToSet(Arguments)
    BY <1>2, ListedFacts DEF Printed
  <2>2. print_as_op(name, x).of = name[x] /\ print_as_op(name, x).sigil = "%"
    BY <1>2 DEF print_as_op
  <2>3. Resolve(text, print_as_op(name, x)) = PlaceOf(x)
    BY <2>1, <2>2, NameResolves DEF PlaceAt
  <2>4. QED
    BY <1>2, <2>2, <2>3 DEF SamePlace
<1>3. QED
  BY <1>1, <1>2

(* ... and a block as its label. *)
LEMMA LabelResolves ==
  ASSUME Printed, NEW b \in Blocks
  PROVE  Resolve(text, print_as_op(name, b)) = PlaceOf(b)
<1>1. b \in Listed /\ PlaceAt(b) = PlaceOf(b)
  BY PlaceFacts DEF Printed
<1>2. print_as_op(name, b).of = name[b]
  BY KindFacts DEF print_as_op
<1>3. QED
  BY <1>1, <1>2, NameResolves

(* The operands of an instruction that is no phi. *)
LEMMA OperandsRead ==
  ASSUME Printed, NEW b \in Blocks, NEW j \in 1 .. Len(InstrList(b)), InstrList(b)[j] \notin Phis
  PROVE  \A k \in DOMAIN Operands(InstrList(b)[j]) :
           SamePlace(text, Lines(b)[j].args[k], Operands(InstrList(b)[j])[k])
<1> DEFINE v == InstrList(b)[j]
<1>1. Inv /\ prog \in Programs
  BY DEF Printed, Inv, TypeInv
<1>2. Lines(b)[j] = PrintInstr(name, v) /\ v \in InList(b)
  BY <1>1, TextShape, InstrListFacts
<1> HIDE DEF v
<1>3. PrintInstr(name, v).args = [k \in DOMAIN Operands(v) |-> print_as_op(name, Operands(v)[k])]
  BY DEF PrintInstr, v
<1>4. ASSUME NEW k \in DOMAIN Operands(v)
      PROVE  Operands(v)[k] \in Globals \/ Result(Operands(v)[k])
  <2>1. CASE v \in Locals
    <3>1. Operands(v) = <<>>
      BY <2>1 DEF Operands
    <3>2. DOMAIN <<>> = {}
      OBVIOUS
    <3>3. QED
      BY <1>4, <3>1, <3>2
  <2>2. CASE v \notin Locals
    <3>1. v \in Ids /\ v[1] = b /\ v[2] \in live[b]
      BY <1>1, <1>2, <2>2, InstrListFacts, AllocasFacts DEF v
    <3> DEFINE m == v[2]
               c == prog.code[b][m]
    <3>2. v = <<b, m>> /\ m \in Positions(prog, b)
      BY <1>1, <3>1, IdFacts
    <3>3. c.op \in {"def", "load", "store", "use"}
      <4>1. prog.code[b] \in Seq(Instrs) /\ Len(prog.code[b]) \in Nat
        BY <1>1, ProgramFacts
      <4>2. \A l \in 1 .. Len(prog.code[b]) : prog.code[b][l] \in Instrs
        BY <4>1, TypedSequence
      <4>3. c \in Instrs
        BY <3>2, <4>2 DEF Positions
      <4> HIDE DEF c
      <4>4. QED
        BY <4>3 DEF Instrs
    <3>4. /\ c.op = "def" => Operands(v) = <<>>
          /\ c.op = "load" => Operands(v) = <<c.var>>
          /\ c.op = "store" => Operands(v) = <<operand[v], c.var>>
          /\ c.op = "use" => Operands(v) = <<operand[v]>>
      BY <2>2, <3>1, Zenon DEF Operands, Code
    <3>5. c.op \in {"use", "store"} => Result(operand[v])
      BY <1>1, <3>1, <3>2, OperandListed DEF TakesOperand
    <3>6. c.op \in {"load", "store"} => c.var \in Globals \/ Result(c.var)
      BY <3>1, VariableListed
    <3> HIDE DEF c
    <3>7. CASE c.op = "def"
      <4>1. DOMAIN <<>> = {}
        OBVIOUS
      <4>2. QED
        BY <1>4, <3>4, <3>7, <4>1
    <3>8. CASE c.op = "load"
      <4>1. k = 1 /\ Operands(v)[k] = c.var
        BY <1>4, <3>4, <3>8
      <4>2. QED
        BY <3>6, <3>8, <4>1
    <3>9. CASE c.op = "store"
      <4>1. Operands(v)[k] \in {operand[v], c.var}
        <5>1. k \in {1, 2} /\ Operands(v) = <<operand[v], c.var>>
          BY <1>4, <3>4, <3>9
        <5>2. QED
          BY <5>1
      <4>2. QED
        BY <3>5, <3>6, <3>9, <4>1
    <3>10. CASE c.op = "use"
      <4>1. k = 1 /\ Operands(v)[k] = operand[v]
        BY <1>4, <3>4, <3>10
      <4>2. QED
        BY <3>5, <3>10, <4>1
    <3>11. QED
      BY <3>3, <3>7, <3>8, <3>9, <3>10
  <2>3. QED
    BY <2>1, <2>2
<1>5. \A k \in DOMAIN Operands(v) : SamePlace(text, PrintInstr(name, v).args[k], Operands(v)[k])
  BY <1>3, <1>4, PrintsSame
<1>6. QED
  BY <1>2, <1>5 DEF v

(* A branch names its targets. *)
LEMMA TerminatorRead ==
  ASSUME Printed, NEW b \in Blocks
  PROVE  {Resolve(text, Last(Lines(b)).args[k]) : k \in DOMAIN Last(Lines(b)).args}
           = {PlaceOf(s) : s \in prog.cfg[b]}
<1> DEFINE to == SetToSeq(prog.cfg[b])
           args == Last(Lines(b)).args
<1>1. prog \in Programs /\ prog.cfg[b] \in SUBSET Blocks
  BY ProgramFacts DEF Printed, Inv, TypeInv
<1>2. Sequence(to) /\ ToSet(to) = prog.cfg[b]
  BY <1>1, BlocksFinite, SetToSeqFacts
<1>3. Last(Lines(b)) = PrintTerminator(name, b)
  BY TextShape
<1>4. args = [k \in DOMAIN to |-> print_as_op(name, to[k])]
  BY <1>3 DEF PrintTerminator
<1> HIDE DEF args, to
<1>5. DOMAIN args = DOMAIN to /\ \A k \in DOMAIN to : args[k] = print_as_op(name, to[k])
  BY <1>4
<1>6. \A s : s \in prog.cfg[b] <=> \E k \in DOMAIN to : to[k] = s
  BY <1>2 DEF ToSet
<1>7. \A k \in DOMAIN to : Resolve(text, args[k]) = PlaceOf(to[k])
  BY <1>1, <1>5, <1>6, LabelResolves
<1>8. {Resolve(text, args[k]) : k \in DOMAIN args} = {PlaceOf(s) : s \in prog.cfg[b]}
  BY <1>5, <1>6, <1>7
<1>9. QED
  BY <1>8 DEF args

(* A phi names its operands, each with the predecessor it comes from, and  *)
(* then the predecessors it has no operand from: all of them, once.        *)
LEMMA PhiRead ==
  ASSUME Printed, PhiArgsOnce, NEW b \in Blocks, NEW j \in 1 .. Len(InstrList(b)),
         InstrList(b)[j] \in Phis
  PROVE  LET v == InstrList(b)[j]
             out == Lines(b)[j].args
         IN  /\ \A k \in DOMAIN phi_args[v] : SamePlace(text, out[k][1], phi_args[v][k][1])
             /\ Len(out) = Cardinality(PreBasicBlocks(b))
             /\ {Resolve(text, out[k][2]) : k \in DOMAIN out} = {PlaceOf(p) : p \in PreBasicBlocks(b)}
<1> DEFINE v == InstrList(b)[j]
           out == Lines(b)[j].args
           args == phi_args[v]
           n == Len(args)
           from == [k \in 1 .. n |-> args[k][2]]
           S == {args[k][2] : k \in DOMAIN args}
           P == PreBasicBlocks(b)
           missing == IF Len(args) < Cardinality(PreBasicBlocks(v[1]))
                      THEN PreBasicBlocks(v[1]) \ {args[k][2] : k \in DOMAIN args} ELSE {}
           undefs == SetToSeq(missing)
           nothing == [sigil |-> "undef", of |-> NoName]
           given == [k \in DOMAIN args |-> <<print_as_op(name, args[k][1]), print_as_op(name, args[k][2])>>]
           rest == [k \in DOMAIN undefs |-> <<nothing, print_as_op(name, undefs[k])>>]
<1>1. Inv /\ (pc = "run" \/ pc = "forward")
  BY DEF Printed, PrintedInv
<1>2. v \in InList(b)
  BY <1>1, InstrListFacts
<1>3. v \in Phis /\ v[1] = b /\ HasPhi(b, v[2])
  <2>1. Home(v) = b /\ v \notin Locals /\ v \notin Ids
    BY <1>1, <1>2, InstrListFacts, KindFacts
  <2>2. allocas \subseteq Locals
    BY <1>1, AllocasFacts
  <2> HIDE DEF v
  <2>3. QED
    BY <1>1, <1>2, <2>1, <2>2, InstrListFacts
<1>4. out = given \o rest
  <2>1. Lines(b)[j] = PrintInstr(name, v)
    BY TextShape
  <2>2. out = PrintPhi(name, v)
    BY <1>3, <2>1 DEF PrintInstr
  <2>3. QED
    BY <2>2, Zenon DEF PrintPhi
<1>5. P \subseteq Blocks /\ IsFiniteSet(P)
  BY BlocksFinite DEF PreBasicBlocks, Dom!Preds
<1>6. args \in Seq(Values \X Blocks) /\ n \in Nat /\ DOMAIN args = 1 .. n /\ Sequence(args)
      /\ \A k \in 1 .. n : args[k] \in Values \X Blocks
  <2>1. args \in Seq(Values \X Blocks)
    BY <1>1, <1>3 DEF Inv, TypeInv
  <2> HIDE DEF args
  <2>2. QED
    BY <2>1, TypedSequence, SequenceFacts1
<1>7. S \subseteq P
  <2>1. v[2] \in Locals /\ v = <<b, v[2]>>
    BY <1>3 DEF Phis
  <2>2. CASE pc = "run"
    <3>1. PhiArgsOf(b, v[2])
      BY <1>1, <2>1, <2>2 DEF Inv, PhiArgsInv
    <3> HIDE DEF v
    <3>2. \A k \in 1 .. n : args[k][2] \in Blocks /\ b \in prog.cfg[args[k][2]]
      BY <1>6, <2>1, <3>1 DEF PhiArgsOf
    <3>3. QED
      BY <1>6, <3>2 DEF PreBasicBlocks, Dom!Preds
  <2>3. CASE pc = "forward"
    <3>1. phis[b] = <<>>
      BY <1>1, <2>3 DEF Inv, PhaseInv
    <3>2. QED
      BY <1>3, <3>1 DEF HasPhi, ToSet
  <2>4. QED
    BY <1>1, <2>2, <2>3
<1>8. \A k \in 1 .. n : SamePlace(text, print_as_op(name, args[k][1]), args[k][1])
  <2>1. \A k \in 1 .. n : InPlace(prog, phis, args[k][1])
    BY <1>1, <1>3, <1>6, PhiOperandsInPlace
  <2>2. QED
    BY <1>1, <2>1, InPlaceListed, PrintsSame
<1>9. Cardinality(S) = n /\ Sequence(from)
  <2>1. from \in [1 .. n -> S]
    BY <1>6
  <2>2. \A k, m \in 1 .. n : args[k][2] = args[m][2] => k = m
    BY <1>3 DEF PhiArgsOnce
  <2>3. \A k, m \in 1 .. n : from[k] = from[m] => k = m
    BY <2>2
  <2>4. S = {from[k] : k \in 1 .. n}
    BY <1>6
  <2>10. n \in Nat
    BY <1>6
  <2> HIDE DEF from, S, n
  <2>5. Sequence(from) /\ Len(from) = n
    BY <2>1, <2>10, FunctionSequence
  <2>6. \A e : e \in ToSet(from) <=> \E k \in 1 .. n : from[k] = e
    <3>1. Sequence(from)
      BY <2>5
    <3>2. \A e : e \in ToSet(from) <=> \E k \in 1 .. Len(from) : from[k] = e
      BY <3>1, SequenceFacts1
    <3>3. QED
      BY <2>5, <3>2
  <2>7. ToSet(from) = S
    BY <2>4, <2>6
  <2>8. Cardinality(ToSet(from)) = Len(from)
    BY <2>3, <2>5, DistinctLength
  <2>9. QED
    BY <2>5, <2>7, <2>8
<1>10. missing = P \ S /\ IsFiniteSet(missing) /\ Cardinality(missing) = Cardinality(P) - n
       /\ Cardinality(P) \in Nat
  <2>1. v[1] = b
    BY <1>3
  <2>2. missing = IF n < Cardinality(P) THEN P \ S ELSE {}
    BY <2>1
  <2> HIDE DEF missing, P, S, n
  <2>3. Cardinality(P) \in Nat /\ n <= Cardinality(P) /\ P \cap S = S
    BY <1>5, <1>7, <1>9, FS_Subset, FS_CardinalityType
  <2>4. CASE n < Cardinality(P)
    <3>1. missing = P \ S
      BY <2>2, <2>4
    <3>2. IsFiniteSet(P \ S) /\ Cardinality(P \ S) = Cardinality(P) - Cardinality(P \cap S)
      BY <1>5, FS_Difference
    <3>3. QED
      BY <1>9, <2>3, <3>1, <3>2
  <2>5. CASE ~ (n < Cardinality(P))
    <3>1. Cardinality(P) = n /\ S = P
      BY <1>5, <1>6, <1>7, <1>9, <2>3, <2>5, FS_Subset
    <3>2. P \ S = {} /\ IsFiniteSet({}) /\ Cardinality({}) = 0
      BY <3>1, FS_EmptySet
    <3>3. QED
      BY <1>6, <2>2, <2>5, <3>1, <3>2
  <2>6. QED
    BY <2>4, <2>5
<1> HIDE DEF v, out, args, n, from, S, P, missing
<1>11. /\ Sequence(undefs) /\ ToSet(undefs) = missing
       /\ \A k, m \in 1 .. Len(undefs) : undefs[k] = undefs[m] => k = m
  BY <1>10, SetToSeqFacts
<1>12. Len(undefs) = Cardinality(P) - n /\ Len(undefs) \in Nat /\ DOMAIN undefs = 1 .. Len(undefs)
       /\ \A e : e \in missing <=> \E k \in 1 .. Len(undefs) : undefs[k] = e
  <2> HIDE DEF undefs
  <2>1. Len(undefs) = Cardinality(ToSet(undefs))
    BY <1>11, DistinctLength
  <2>2. /\ Len(undefs) \in Nat /\ DOMAIN undefs = 1 .. Len(undefs)
        /\ \A e : e \in ToSet(undefs) <=> \E k \in 1 .. Len(undefs) : undefs[k] = e
    BY <1>11, SequenceFacts1
  <2>3. QED
    BY <1>10, <1>11, <2>1, <2>2
<1>13. /\ Sequence(given) /\ Len(given) = n
       /\ \A k \in 1 .. n : given[k] = <<print_as_op(name, args[k][1]), print_as_op(name, args[k][2])>>
  <2> DEFINE D == {<<print_as_op(name, args[k][1]), print_as_op(name, args[k][2])>> : k \in 1 .. n}
  <2>1. given \in [1 .. n -> D]
        /\ \A k \in 1 .. n : given[k] = <<print_as_op(name, args[k][1]), print_as_op(name, args[k][2])>>
    BY <1>6
  <2> HIDE DEF D, given
  <2>2. QED
    BY <1>6, <2>1, FunctionSequence
<1>14. /\ Sequence(rest) /\ Len(rest) = Len(undefs)
       /\ \A k \in 1 .. Len(undefs) : rest[k] = <<nothing, print_as_op(name, undefs[k])>>
  <2> HIDE DEF undefs, nothing
  <2> DEFINE m == Len(undefs)
             D == {<<nothing, print_as_op(name, undefs[k])>> : k \in 1 .. m}
  <2>1. rest \in [1 .. m -> D] /\ m \in Nat
        /\ \A k \in 1 .. m : rest[k] = <<nothing, print_as_op(name, undefs[k])>>
    BY <1>12
  <2> HIDE DEF D, rest, m
  <2>2. Sequence(rest) /\ Len(rest) = m
    BY <2>1, FunctionSequence
  <2>3. QED
    BY <2>1, <2>2 DEF m
<1> HIDE DEF undefs, given, rest
<1>15. /\ Sequence(given \o rest) /\ Len(given \o rest) = n + Len(undefs)
       /\ \A k \in 1 .. n : (given \o rest)[k] = given[k]
       /\ \A k \in 1 .. Len(undefs) : (given \o rest)[n + k] = rest[k]
  <2>1. Sequence(given) /\ Sequence(rest)
    BY <1>13, <1>14
  <2>2. /\ Sequence(given \o rest) /\ Len(given \o rest) = Len(given) + Len(rest)
        /\ \A k \in 1 .. Len(given) : (given \o rest)[k] = given[k]
        /\ \A k \in 1 .. Len(rest) : (given \o rest)[Len(given) + k] = rest[k]
    BY <2>1, ConcatSequence
  <2>3. QED
    BY <1>13, <1>14, <2>2
<1>16. /\ Len(out) = Cardinality(P) /\ DOMAIN out = 1 .. Cardinality(P)
       /\ \A k \in 1 .. n : out[k] = <<print_as_op(name, args[k][1]), print_as_op(name, args[k][2])>>
       /\ \A k \in 1 .. Len(undefs) : out[n + k] = <<nothing, print_as_op(name, undefs[k])>>
  <2>1. Sequence(out) /\ Len(out) = Cardinality(P)
    BY <1>4, <1>6, <1>10, <1>12, <1>15
  <2>2. DOMAIN out = 1 .. Cardinality(P)
    BY <2>1, SequenceFacts1
  <2>3. QED
    BY <1>4, <1>13, <1>14, <1>15, <2>1, <2>2
<1>17. \A k \in 1 .. n : args[k][2] \in P /\ out[k][2] = print_as_op(name, args[k][2])
  BY <1>6, <1>7, <1>16 DEF S
<1>18. \A k \in 1 .. Len(undefs) : undefs[k] \in P /\ out[n + k][2] = print_as_op(name, undefs[k])
  BY <1>10, <1>12, <1>16
<1>19. \A p \in P : Resolve(text, print_as_op(name, p)) = PlaceOf(p)
  BY <1>5, LabelResolves
<1>20. ASSUME NEW k \in DOMAIN out PROVE \E p \in P : Resolve(text, out[k][2]) = PlaceOf(p)
  <2>1. CASE k \in 1 .. n
    BY <1>17, <1>19, <2>1
  <2>2. CASE k \notin 1 .. n
    <3>1. k - n \in 1 .. Len(undefs) /\ n + (k - n) = k
      BY <1>6, <1>10, <1>12, <1>16, <2>2
    <3>2. out[k][2] = print_as_op(name, undefs[k - n]) /\ undefs[k - n] \in P
      BY <1>18, <3>1
    <3>3. QED
      BY <1>19, <3>2
  <2>3. QED
    BY <2>1, <2>2
<1>21. ASSUME NEW p \in P PROVE \E k \in DOMAIN out : Resolve(text, out[k][2]) = PlaceOf(p)
  <2>1. CASE p \in S
    <3>1. PICK k \in 1 .. n : args[k][2] = p
      BY <1>6, <2>1 DEF S
    <3>2. k \in DOMAIN out
      BY <1>6, <1>10, <1>12, <1>16, <3>1
    <3>3. QED
      BY <1>17, <1>19, <3>1, <3>2
  <2>2. CASE p \notin S
    <3>1. PICK k \in 1 .. Len(undefs) : undefs[k] = p
      BY <1>10, <1>12, <2>2
    <3>2. n + k \in DOMAIN out
      BY <1>6, <1>10, <1>12, <1>16, <3>1
    <3>3. QED
      BY <1>18, <1>19, <3>1, <3>2
  <2>3. QED
    BY <2>1, <2>2
<1>22. {Resolve(text, out[k][2]) : k \in DOMAIN out} = {PlaceOf(p) : p \in P}
  BY <1>20, <1>21
<1>23. ASSUME NEW k \in DOMAIN args PROVE SamePlace(text, out[k][1], args[k][1])
  <2>1. k \in 1 .. n
    BY <1>6
  <2>2. out[k] = <<print_as_op(name, args[k][1]), print_as_op(name, args[k][2])>>
    BY <1>16, <2>1
  <2>3. out[k][1] = print_as_op(name, args[k][1])
    BY <2>2
  <2>4. QED
    BY <1>8, <2>1, <2>3
<1>24. QED
  BY <1>16, <1>22, <1>23 DEF v, out, args, P

(* All that is printed names what it should. *)
LEMMA ReadsBack ==
  ASSUME CompileInv, TextInv, PrintedInv
  PROVE  TextReadsBack
<1> SUFFICES ASSUME stage = "printed" PROVE TextReadsBack
  BY DEF TextReadsBack
<1>1. Inv /\ Printed /\ DumpInv /\ PhiArgsOnce
  BY DEF CompileInv, TextInv, Printed
<1>2. ASSUME NEW k \in DOMAIN Arguments
      PROVE  Resolve(text, [of |-> text.args[k]]) = <<"arg", k, 0>>
  <2>1. k \in 1 .. Len(Arguments)
    BY ArgumentsFacts
  <2>2. text.args[k] = name[Arguments[k]]
    BY <1>1, <2>1, TextShape
  <2>3. Arguments[k] \in Listed /\ PlaceAt(Arguments[k]) = <<"arg", k, 0>>
    BY <1>1, <2>1, PlaceFacts
  <2>4. QED
    BY <1>1, <2>2, <2>3, NameResolves
<1>3. ASSUME NEW b \in Blocks
      PROVE  Resolve(text, [of |-> text.blocks[BlockIndex(b)].label]) = <<"label", BlockIndex(b), 0>>
  <2>1. text.blocks[BlockIndex(b)].label = name[b]
    BY <1>1, TextShape
  <2>2. b \in Listed /\ PlaceAt(b) = <<"label", BlockIndex(b), 0>>
    BY <1>1, PlaceFacts
  <2>3. QED
    BY <1>1, <2>1, <2>2, NameResolves
<1>4. ASSUME NEW b \in Blocks, NEW j \in DOMAIN InstrList(b), ~ is_void(InstrList(b)[j])
      PROVE  Resolve(text, [of |-> Lines(b)[j].def]) = PlaceOf(InstrList(b)[j])
  <2>1. j \in 1 .. Len(InstrList(b))
    BY <1>1, InstrListFacts
  <2>2. Lines(b)[j].def = name[InstrList(b)[j]]
    BY <1>1, <1>4, <2>1, LineDefines
  <2>3. InstrList(b)[j] \in Listed /\ PlaceAt(InstrList(b)[j]) = PlaceOf(InstrList(b)[j])
    BY <1>1, <1>4, <2>1, PlaceFacts
  <2>4. QED
    BY <1>1, <2>2, <2>3, NameResolves
<1>5. \A b \in Blocks : DOMAIN InstrList(b) = 1 .. Len(InstrList(b))
  BY <1>1, InstrListFacts
<1>6. dump # NULL => \A k \in DOMAIN dump : dump[k] = text.blocks[k].label
  <2> SUFFICES ASSUME dump # NULL, NEW k \in DOMAIN dump
               PROVE  dump[k] = text.blocks[k].label
    OBVIOUS
  <2>1. DOMAIN BlockList = 1 .. Len(BlockList)
    BY ProgramAssumption, LenProperties
  <2>2. k \in 1 .. Len(BlockList) /\ dump[k] = name[BlockList[k]]
    BY <1>1, <2>1 DEF DumpInv
  <2>3. BlockList[k] \in Blocks /\ BlockIndex(BlockList[k]) = k
    BY <2>2, BlockListFacts, BlockIndexFacts
  <2>4. text.blocks[BlockIndex(BlockList[k])].label = name[BlockList[k]]
    BY <1>1, <2>3, TextShape
  <2>5. QED
    BY <2>2, <2>3, <2>4
<1>7. ASSUME NEW b \in Blocks, NEW j \in DOMAIN InstrList(b), InstrList(b)[j] \notin Phis
      PROVE  \A k \in DOMAIN Operands(InstrList(b)[j]) :
               SamePlace(text, Lines(b)[j].args[k], Operands(InstrList(b)[j])[k])
  BY <1>1, <1>5, <1>7, OperandsRead
<1>8. ASSUME NEW b \in Blocks, NEW j \in DOMAIN InstrList(b), InstrList(b)[j] \in Phis
      PROVE  /\ \A k \in DOMAIN phi_args[InstrList(b)[j]] :
                  SamePlace(text, Lines(b)[j].args[k][1], phi_args[InstrList(b)[j]][k][1])
             /\ Len(Lines(b)[j].args) = Cardinality(PreBasicBlocks(b))
             /\ {Resolve(text, Lines(b)[j].args[k][2]) : k \in DOMAIN Lines(b)[j].args}
                  = {PlaceOf(p) : p \in PreBasicBlocks(b)}
  <2>1. j \in 1 .. Len(InstrList(b))
    BY <1>5
  <2>2. QED
    BY <1>1, <1>8, <2>1, PhiRead
<1>9. \A b \in Blocks : {Resolve(text, Last(Lines(b)).args[k]) : k \in DOMAIN Last(Lines(b)).args}
                          = {PlaceOf(s) : s \in prog.cfg[b]}
  BY <1>1, TerminatorRead
<1>10. QED
  BY <1>2, <1>3, <1>4, <1>6, <1>7, <1>8, <1>9, Zenon DEF TextReadsBack, Lines

(* What is printed stays so while nothing happens. *)
LEMMA PrintedStutter ==
  ASSUME PrintedInv, UNCHANGED compileVars
  PROVE  PrintedInv'
<1>1. UNCHANGED <<stage, text, name, prog, irVars, pc, at, i>>
  BY DEF compileVars, vars, scanVars, namingVars, outputVars
<1>2. \A k \in DOMAIN BlockList : BlockList[k] \in Blocks
  <2>1. DOMAIN BlockList = 1 .. Len(BlockList)
    BY ProgramAssumption, LenProperties
  <2>2. QED
    BY <2>1, BlockListFacts
<1>3. \A k \in DOMAIN BlockList : PrintBlock(name, BlockList[k])' = PrintBlock(name, BlockList[k])
  BY <1>1, <1>2, PrintedAsIs
<1>4. Listed' = Listed
  BY <1>1, ListedKept
<1>5. QED
  BY <1>1, <1>3, <1>4 DEF PrintedInv

-----------------------------------------------------------------------------
(* Mem2Reg keeps its state well formed: instructions, operands and phis    *)
(* are those of the function, and the counts are never negative, so that   *)
(* no value stack is popped below what it held.                            *)
THEOREM CompileTypes == CompileSpec => []TypeOK
<1>1. CompileInv => TypeOK
  BY TypesFollow DEF CompileInv
<1>2. QED
  BY <1>1, CompileInvariant, PTL

(* Given a program that assigns its locals before it reads them, Mem2Reg   *)
(* never follows defined_in_block.end() nor the top of an empty stack, and *)
(* Function::print finds an operand in every phi.                          *)
THEOREM CompileNeverFaults == CompileSpec => []NeverFaults
<1>1. CompileInv => NeverFaults
  BY DEF CompileInv, Inv, NeverFaults
<1>2. QED
  BY <1>1, CompileInvariant, PTL

(* At no point of Mem2Reg, nor after it, does an operand of an instruction *)
(* or of a phi name an instruction that has been deleted, and no load or   *)
(* store of a local outlives its alloca.                                   *)
THEOREM CompileOperandsInPlace == CompileSpec => []OperandsInPlace
<1>1. CompileInv => OperandsInPlace
  BY PlacesFollow DEF CompileInv
<1>2. QED
  BY <1>1, CompileInvariant, PTL

(* Mem2Reg is correct: along every path and for all data, each value the   *)
(* given function uses or writes to memory that stays is the value the     *)
(* function in SSA form has there.                                         *)
THEOREM CompileProgramsAgree == CompileSpec => []ProgramsAgree
<1>1. CompileInv => ProgramsAgree
  BY AgreementFollows DEF CompileInv
<1>2. QED
  BY <1>1, CompileInvariant, PTL

(* What is printed can be read back: every name in the text of a function  *)
(* stands for the value the operand is, each value is defined once, a phi  *)
(* has one entry for each predecessor, and the labels LiveVar dumped are   *)
(* those of the text - whatever the options, and whatever Mem2Reg took out *)
(* or put in between the namings.                                          *)
THEOREM CompileTextReadsBack == CompileSpec => []TextReadsBack
<1> DEFINE I == CompileInv /\ TextInv /\ PrintedInv
<1>1. CompileInit => I
  BY CompileInitKeeps, TextInit DEF CompileInit, PrintedInv
<1>2. I /\ [CompileNext]_compileVars => I'
  <2> SUFFICES ASSUME I, [CompileNext]_compileVars
               PROVE  TextInv' /\ PrintedInv' /\ CompileInv'
    OBVIOUS
  <2>1. CASE CompileNext
    BY <2>1, CompileNextKeeps, TextNextKeeps, PrintedNextKeeps
  <2>2. CASE UNCHANGED compileVars
    BY <2>2, TextStutter, PrintedStutter, CompileStutter
  <2>3. QED
    BY <2>1, <2>2
<1>3. I => TextReadsBack
  BY ReadsBack
<1>4. QED
  BY <1>1, <1>2, <1>3, PTL DEF CompileSpec

(* All four for the pass by itself, without the naming and printing around *)
(* it.                                                                     *)
THEOREM PassCorrect == Spec => [](TypeOK /\ NeverFaults /\ OperandsInPlace /\ ProgramsAgree)
<1>1. Init => Inv
  BY InitKeeps
<1>2. Inv /\ [Next]_vars => Inv'
  BY NextKeeps, StutterKeeps
<1>3. Inv => TypeOK /\ NeverFaults /\ OperandsInPlace /\ ProgramsAgree
  BY TypesFollow, PlacesFollow, AgreementFollows DEF Inv, NeverFaults
<1>4. QED
  BY <1>1, <1>2, <1>3, PTL DEF Spec
=============================================================================
