------------------------------ MODULE Compile ------------------------------
(***************************************************************************)
(* What main (src/src/main.cpp) does with a function once it is IR: the    *)
(* values get names, the passes of the command line run, the values that   *)
(* are new get names, and the function is printed.  Mem2Reg itself names   *)
(* the values between placing the phis and deleting the loads and stores,  *)
(* LiveVar before it writes its dump and Function::print before it prints, *)
(* so that naming interleaves with passes that take values out of the      *)
(* function and put others in.  The passes LiveVar, ComSubExprEli and      *)
(* Check have bodies to be written: the dump lists blocks only, and the    *)
(* last two do nothing.                                                    *)
(*                                                                         *)
(* The function is the one Mem2Reg is given.  A name is a record of the    *)
(* text it starts with and the number after it.                            *)
(***************************************************************************)
EXTENDS Mem2Reg

CONSTANT Arguments   \* the function's arguments, in order

(* The values of a function are told apart; one block returns. *)
ASSUME ArgumentAssumption ==
  /\ Arguments \in Seq(ToSet(Arguments)) /\ IsInjective(Arguments)
  /\ ToSet(Arguments) \cap (Vars \cup Blocks \cup {NULL}) = {}
  /\ Vars \cap Blocks = {}
  /\ (ToSet(Arguments) \cup Vars \cup Blocks) \cap (Blocks \X (Nat \cup Locals)) = {}
  /\ IsFiniteSet(Locals)
  /\ \A p \in Programs : \A b, c \in Blocks : p.cfg[b] = {} /\ p.cfg[c] = {} => b = c

VARIABLES
  stage,      \* how far main is
  name,       \* Value::name_
  seq_cnt_,   \* numbers set_instr_name has given out
  dump,       \* the labels LiveVar::dump wrote
  text        \* what Function::print returned

namingVars == <<name, seq_cnt_>>
outputVars == <<dump, text>>
compileVars == <<vars, stage, namingVars, outputVars>>

NoName == [prefix |-> "", number |-> 0]
Name(p, n) == [prefix |-> p, number |-> n]

(***************************************************************************)
(* Function::set_instr_name                                                *)
(***************************************************************************)
(* What is left of the code of b, in its order: the n-th is the one that n *)
(* are not above.                                                          *)
InstrIds(b) ==
  [n \in 1 .. Cardinality(live[b]) |->
     <<b, CHOOSE k \in live[b] : Cardinality({j \in live[b] : j <= k}) = n>>]
PhiIds(b) == [k \in DOMAIN phis[b] |-> <<b, phis[b][k]>>]
Allocas(b) == IF b = Entry THEN SetToSeq(allocas) ELSE <<>>

(* BasicBlock::instr_list_ without the terminator: the phis were put in    *)
(* front, the allocas in front of the entry block.                         *)
InstrList(b) == PhiIds(b) \o Allocas(b) \o InstrIds(b)

is_void(v) == v \in Ids /\ Code(v[1])[v[2]].op \in {"store", "use"}

(* The values set_instr_name comes to, and where in its loops it does.     *)
BlockIndex(b) == SelectInSeq(BlockList, LAMBDA u : u = b)
Home(v) == IF v \in Locals THEN Entry ELSE v[1]   \* the block v is an instruction of
InList(b) == ToSet(InstrList(b))
IndexIn(v) == SelectInSeq(InstrList(Home(v)), LAMBDA u : u = v)   \* its place there
Listed == ToSet(Arguments) \cup Blocks \cup {v \in UNION {InList(b) : b \in Blocks} : ~ is_void(v)}
Turn(v) ==
  IF v \in ToSet(Arguments) THEN <<0, CHOOSE k \in DOMAIN Arguments : Arguments[k] = v>>
  ELSE IF v \in Blocks THEN <<BlockIndex(v), 0>>
  ELSE <<BlockIndex(Home(v)), IndexIn(v)>>
Earlier(t, u) == t[1] < u[1] \/ (t[1] = u[1] /\ t[2] < u[2])

Prefix(v) == IF v \in ToSet(Arguments) THEN "arg" ELSE IF v \in Blocks THEN "label" ELSE "op"

(* The values that have no name, each with its turn.                       *)
Unnamed == {<<v, Turn(v)>> : v \in {u \in Listed : name[u] = NoName}}

(* Those of U that come before v. *)
Before(U, v) == {p \in U : \E q \in U : q[1] = v /\ Earlier(p[2], q[2])}

(* Faulty: the numbers start again with each call.                         *)
SetInstrName_FromZero ==
  \E U \in {Unnamed} :
  /\ name' = [v \in DOMAIN name |->
       IF v \in {p[1] : p \in U} THEN Name(Prefix(v), Cardinality(Before(U, v))) ELSE name[v]]
  /\ seq_cnt_' = seq_cnt_ + Cardinality(U)

(* set_name takes only on a value without a name, and only then does the   *)
(* value enter seq; the numbers go on from the last call's.                *)
SetInstrName ==
  \E U \in {Unnamed} :
  /\ name' = [v \in DOMAIN name |->
       IF v \in {p[1] : p \in U} THEN Name(Prefix(v), seq_cnt_ + Cardinality(Before(U, v))) ELSE name[v]]
  /\ seq_cnt_' = seq_cnt_ + Cardinality(U)

(***************************************************************************)
(* Function::print and the print of each instruction.  The text of an      *)
(* instruction is what it defines, its operation and its operands; types   *)
(* and layout are left out.                                                *)
(***************************************************************************)
(* print_as_op, under the names nm. *)
print_as_op(nm, v) ==
  IF v \in Globals THEN [sigil |-> "@", of |-> v] ELSE [sigil |-> "%", of |-> nm[v]]

Operands(v) ==
  IF v \in Locals THEN <<>>
  ELSE LET op == Code(v[1])[v[2]].op
       IN CASE op = "def"   -> <<>>
            [] op = "load"  -> <<Code(v[1])[v[2]].var>>
            [] op = "store" -> <<operand[v], Code(v[1])[v[2]].var>>
            [] op = "use"   -> <<operand[v]>>

PreBasicBlocks(b) == Dom!Preds(prog.cfg, b)

(* A phi lists its pairs, then undef for the predecessors it has none for. *)
PrintPhi(nm, ph) ==
  LET args    == phi_args[ph]
      missing == IF Len(args) < Cardinality(PreBasicBlocks(ph[1]))
                 THEN PreBasicBlocks(ph[1]) \ {args[k][2] : k \in DOMAIN args} ELSE {}
      undefs  == SetToSeq(missing)
  IN [k \in DOMAIN args |-> <<print_as_op(nm, args[k][1]), print_as_op(nm, args[k][2])>>]
       \o [k \in DOMAIN undefs |-> <<[sigil |-> "undef", of |-> NoName], print_as_op(nm, undefs[k])>>]

PrintInstr(nm, v) ==
  IF v \in Phis THEN [def |-> nm[v], op |-> "phi", args |-> PrintPhi(nm, v)]
  ELSE [def  |-> IF is_void(v) THEN NoName ELSE nm[v],
        op   |-> IF v \in Locals THEN "alloca" ELSE Code(v[1])[v[2]].op,
        args |-> [k \in DOMAIN Operands(v) |-> print_as_op(nm, Operands(v)[k])]]

(* br with its labels, or ret where there is no successor. *)
PrintTerminator(nm, b) ==
  LET to == SetToSeq(prog.cfg[b])
  IN [def |-> NoName, op |-> IF to = <<>> THEN "ret" ELSE "br",
      args |-> [k \in DOMAIN to |-> print_as_op(nm, to[k])]]

PrintBlock(nm, b) ==
  [label |-> nm[b],
   code  |-> [k \in DOMAIN InstrList(b) |-> PrintInstr(nm, InstrList(b)[k])]
               \o <<PrintTerminator(nm, b)>>]

-----------------------------------------------------------------------------
CompileInit ==
  /\ Init
  /\ stage = "emitted"
  /\ name = [v \in ToSet(Arguments) \cup Blocks \cup Values \cup Locals |->
       IF v = Entry THEN Name("entry", 0)
       ELSE IF v \in Blocks /\ prog.cfg[v] = {} THEN Name("ret", 0)   \* its terminator is the ret
       ELSE NoName]
  /\ seq_cnt_ = 0
  /\ dump = NULL /\ text = NULL

(* The first set_print_name.  With an option that optimizes the passes     *)
(* follow, without one the function is printed.                            *)
NameEmitted ==
  /\ stage = "emitted"
  /\ SetInstrName
  /\ stage' \in {"passes", "print"}
  /\ UNCHANGED <<vars, outputVars>>

(* PassMgr: DominateTree has run (see dom_frontier), Mem2Reg runs.         *)
InPass(Step) == stage = "passes" /\ Step /\ UNCHANGED <<stage, namingVars, outputVars>>

(* Mem2Reg::execute calls set_print_name between genPhi and the renaming.  *)
NameAndCount ==
  /\ stage = "passes"
  /\ ValueDefineCounting
  /\ SetInstrName
  /\ UNCHANGED <<stage, outputVars>>

(* Mem2Reg is done: LiveVar runs, if it was asked for.                     *)
LiveVar ==
  /\ stage = "passes" /\ pc = "run"
  /\ SetInstrName
  /\ stage' = "named"
  /\ dump' = [k \in DOMAIN BlockList |-> name'[BlockList[k]]]
  /\ UNCHANGED <<vars, text>>

(* The second set_print_name in main.                                      *)
NameOptimized ==
  /\ stage = "named" \/ (stage = "passes" /\ pc = "run")
  /\ SetInstrName
  /\ stage' = "print"
  /\ UNCHANGED <<vars, outputVars>>

(* Function::print names what has no name, and prints.  A phi without      *)
(* operands has no type to print: its operand 0 is read past the end.      *)
PrintFunction ==
  /\ stage = "print"
  /\ SetInstrName
  /\ stage' = "printed"
  /\ text' = [args   |-> [k \in DOMAIN Arguments |-> name'[Arguments[k]]],
              blocks |-> [k \in DOMAIN BlockList |-> PrintBlock(name', BlockList[k])]]
  /\ fault' = (fault \/ \E b \in Blocks : \E v \in ToSet(phis[b]) : phi_args[<<b, v>>] = <<>>)
  /\ UNCHANGED <<prog, dom_frontier, pc, irVars, scanVars, phiVars, nameVars, run, dump>>

(* The printed program runs, next to the one that was built.               *)
Executing(Step) ==
  stage \in {"printed", "running"} /\ Step /\ stage' = "running"
    /\ UNCHANGED <<namingVars, outputVars>>

CompileNext ==
  \/ NameEmitted
  \/ InPass(ForwardStore) \/ InPass(ForwardLoad) \/ InPass(SkipInstr) \/ InPass(EndForwardBlock)
  \/ InPass(CollectLoaded) \/ (\E v \in Locals : InPass(StartVar(v))) \/ InPass(PlacePhis) \/ InPass(EndVar)
  \/ NameAndCount
  \/ InPass(PushPhis) \/ InPass(RenameLoad) \/ InPass(RenameStore) \/ InPass(RenameOther)
  \/ InPass(FillPhiOperands) \/ (\E s \in Blocks : InPass(VisitSucc(s))) \/ InPass(LeaveBlock)
  \/ InPass(RemoveAlloc)
  \/ LiveVar \/ NameOptimized \/ PrintFunction
  \/ (\E d \in Data : Executing(RunDef(d))) \/ Executing(RunLoad) \/ Executing(RunStore)
  \/ Executing(RunUse) \/ (\E s \in Blocks : Executing(RunBranch(s)))

CompileSpec == CompileInit /\ [][CompileNext]_compileVars

(* The compiler is one thread that does nothing else meanwhile.            *)
FairCompileSpec == CompileSpec /\ WF_compileVars(CompileNext)

-----------------------------------------------------------------------------
(***************************************************************************)
(* Reading the text back.                                                  *)
(***************************************************************************)
(* The places of a text: an argument, a label, or a line of a block.       *)
Places(t) ==
  {<<"arg", k, 0>> : k \in DOMAIN t.args} \cup {<<"label", k, 0>> : k \in DOMAIN t.blocks}
    \cup UNION {{<<"line", k, j>> : j \in DOMAIN t.blocks[k].code} : k \in DOMAIN t.blocks}

DefinedAt(t, p) ==
  CASE p[1] = "arg"   -> t.args[p[2]]
    [] p[1] = "label" -> t.blocks[p[2]].label
    [] p[1] = "line"  -> t.blocks[p[2]].code[p[3]].def

(* The one place that defines what r names, or NULL.                       *)
Resolve(t, r) ==
  LET here == {p \in Places(t) : r.of # NoName /\ DefinedAt(t, p) = r.of}
  IN IF Cardinality(here) = 1 THEN CHOOSE p \in here : TRUE ELSE NULL

(* Where a value of the function is, in the same terms. *)
PlaceOf(v) ==
  IF v \in Blocks THEN <<"label", BlockIndex(v), 0>>
  ELSE <<"line", BlockIndex(Home(v)), IndexIn(v)>>

SamePlace(t, r, v) ==
  IF v \in Globals THEN r = [sigil |-> "@", of |-> v]
  ELSE r.sigil = "%" /\ Resolve(t, r) = PlaceOf(v)

(* The text of a function defines every value once, and each name in it    *)
(* stands for the value the operand is: nothing prints without a name, no  *)
(* name is given twice over the four times names are given, and no operand *)
(* names a value a pass has taken out.  A phi has an entry for every       *)
(* predecessor, and one only; undef is never chosen where there is a value.*)
(* The labels in the dump of LiveVar are those of the text.                *)
TextReadsBack ==
  stage = "printed" =>
    /\ \A k \in DOMAIN Arguments : Resolve(text, [of |-> text.args[k]]) = <<"arg", k, 0>>
    /\ \A b \in Blocks :
         LET lines == text.blocks[BlockIndex(b)].code IN
         /\ Resolve(text, [of |-> text.blocks[BlockIndex(b)].label]) = <<"label", BlockIndex(b), 0>>
         /\ \A j \in DOMAIN InstrList(b) :
              LET v == InstrList(b)[j] IN
              /\ ~ is_void(v) => Resolve(text, [of |-> lines[j].def]) = PlaceOf(v)
              /\ v \notin Phis => \A k \in DOMAIN Operands(v) :
                   SamePlace(text, lines[j].args[k], Operands(v)[k])
              /\ v \in Phis =>
                   /\ \A k \in DOMAIN phi_args[v] :
                        SamePlace(text, lines[j].args[k][1], phi_args[v][k][1])
                   /\ Len(lines[j].args) = Cardinality(PreBasicBlocks(b))
                   /\ {Resolve(text, lines[j].args[k][2]) : k \in DOMAIN lines[j].args}
                        = {PlaceOf(p) : p \in PreBasicBlocks(b)}
         /\ {Resolve(text, Last(lines).args[k]) : k \in DOMAIN Last(lines).args}
              = {PlaceOf(s) : s \in prog.cfg[b]}
    /\ dump # NULL => \A k \in DOMAIN dump : dump[k] = text.blocks[k].label

(* The compiler prints: the queue of genPhi runs dry and the walk returns. *)
Prints == <>(stage = "printed")
=============================================================================
