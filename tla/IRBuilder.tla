----------------------------- MODULE IRBuilder -----------------------------
(***************************************************************************)
(* How IRBuilder (src/src/SysYFIRBuilder/IRBuilder.cpp) lowers the         *)
(* statements of one function to basic blocks.                             *)
(*                                                                         *)
(* The visitor is recursive.  Here its calls in progress are a stack, the  *)
(* agenda: a task is either the visit of a node or what a visit method has *)
(* left to do once the node it is waiting for is done, with the blocks it  *)
(* holds in its locals.  Expressions are opaque: "act" is any statement    *)
(* that computes, an atom is any condition without && and ||.  Of a name   *)
(* only the declaration it resolves to is kept.                            *)
(*                                                                         *)
(* Nodes are records whose field k is the kind of node:                    *)
(*   act id name    decl id name    ret id    brk    cont    empty         *)
(*   block body     if cond then els          while cond body              *)
(*   atom id        and lhs rhs     or lhs rhs     none (no else)          *)
(* An id is a positive number; 0 is the implicit return of 0.              *)
(***************************************************************************)
EXTENDS Integers, Sequences, FiniteSets, SequencesExt

CONSTANTS Programs,   \* function definitions: a body and whether it is void
          Stmts,      \* the statements in them that are in no loop
          LoopStmts,  \* those in a loop
          Conds,      \* their conditions
          Names,      \* identifiers; each is also declared globally
          NULL

(* What a statement is made of; break and continue stand in loops.         *)
MadeOf(stmts, inLoop) ==
  \A s \in stmts :
    \/ s.k \in {"act", "decl", "ret", "empty"}
    \/ s.k \in {"brk", "cont"} /\ inLoop
    \/ s.k = "block" /\ s.body \in Seq(stmts)
    \/ s.k = "if" /\ s.cond \in Conds /\ s.then \in stmts /\ (s.else.k = "none" \/ s.else \in stmts)
    \/ s.k = "while" /\ s.cond \in Conds /\ s.body \in LoopStmts

ASSUME FunctionAssumption ==
  /\ \A p \in Programs : p.void \in BOOLEAN /\ p.body \in Stmts /\ p.body.k = "block"
  /\ MadeOf(Stmts, FALSE) /\ MadeOf(LoopStmts, TRUE)
  /\ \A c \in Conds :
       \/ c.k = "atom"
       \/ c.k \in {"and", "or"} /\ c.lhs \in Conds /\ c.rhs \in Conds

VARIABLES
  prog,                   \* the FuncDef node
  agenda,                 \* calls of visit in progress
  ir,                     \* the function under construction
  insert,                 \* builder->get_insert_block()
  cur_basic_block_list,
  While_Stack,            \* <<whileBB, nextBB>> of the loops around
  Or_Cond_Stack,          \* IF_While_Or_Cond_Stack: <<trueBB, falseBB>>
  scope,                  \* Scope::name2var, innermost last
  pre_enter_scope,
  tmp_val,                \* the atom whose value tmp_val is
  fault                   \* back() or pop_back() of an empty list

buildVars == <<agenda, ir, insert, cur_basic_block_list, While_Stack,
               Or_Cond_Stack, scope, pre_enter_scope, tmp_val, fault>>
irVars == <<prog, buildVars>>

(***************************************************************************)
(* The function: per block its instructions and its pre_bbs_ and succ_bbs_ *)
(* lists; list is basic_blocks_.  Blocks are numbered in creation order.   *)
(***************************************************************************)
entryBB == 1
ret_BB == 2

NewBlocks(m, n) ==
  LET ids == [k \in 1 .. n |-> Len(m.code) + k]
      empty == [k \in 1 .. n |-> <<>>]
  IN [code |-> m.code \o empty, pre |-> m.pre \o empty,
      succ |-> m.succ \o empty, list |-> m.list \o ids]

Emit(m, b, instr) == [m EXCEPT !.code[b] = Append(@, instr)]
PopBack(m, b) == [m EXCEPT !.code[b] = IF @ = <<>> THEN @ ELSE Front(@)]

Terminators == {"br", "condbr", "ret"}
IsTerminated(m, b) == m.code[b] # <<>> /\ Last(m.code[b]).op \in Terminators

create_br(m, from, to) ==
  [Emit(m, from, [op |-> "br", to |-> to]) EXCEPT
     !.pre[to] = Append(@, from), !.succ[from] = Append(@, to)]

create_cond_br(m, from, c, t, f) ==
  LET n == Emit(m, from, [op |-> "condbr", cond |-> c, true |-> t, false |-> f])
  IN [n EXCEPT !.succ[from] = @ \o <<f, t>>,
               !.pre = [b \in DOMAIN @ |-> @[b] \o [k \in 1 .. Cardinality({x \in {1, 2} : <<t, f>>[x] = b}) |-> from]]]

(* std::list::remove *)
Without(s, b) ==
  LET kept[k \in Nat] ==
        IF k = 0 THEN <<>> ELSE IF s[k] = b THEN kept[k - 1] ELSE Append(kept[k - 1], s[k])
  IN kept[Len(s)]

(* Function::remove: the other blocks forget the block.                    *)
erase_from_parent(m, b) ==
  [m EXCEPT !.list = Without(@, b),
            !.pre = [x \in DOMAIN @ |-> IF x \in ToSet(m.succ[b]) THEN Without(@[x], b) ELSE @[x]],
            !.succ = [x \in DOMAIN @ |-> IF x \in ToSet(m.pre[b]) THEN Without(@[x], b) ELSE @[x]]]

(* Scope: a name resolves in the innermost scope that has it; push keeps   *)
(* the first declaration of a name in a scope.                             *)
Declares(s, x) == \E e \in s : e[1] = x
find(sc, x) ==
  LET depth == {k \in DOMAIN sc : Declares(sc[k], x)}
      inner == CHOOSE k \in depth : \A j \in depth : j <= k
  IN IF depth = {} THEN NULL ELSE (CHOOSE e \in sc[inner] : e[1] = x)[2]
push(sc, x, d) ==
  IF Declares(Last(sc), x) THEN sc ELSE [sc EXCEPT ![Len(sc)] = @ \cup {<<x, d>>}]

GlobalScope == <<{<<x, 0>> : x \in Names}>>

(***************************************************************************)
(* Tasks                                                                   *)
(***************************************************************************)
Visit(node) == [task |-> "visit", node |-> node]
After(task, node, bbs) == [task |-> task, node |-> node, bbs |-> bbs]

Top == Last(agenda)
Doing(task) == agenda # <<>> /\ Top.task = task
Visiting(kind) == Doing("visit") /\ Top.node.k = kind
node == Top.node
bbs == Top.bbs
Return == agenda' = Front(agenda)
Continue(tasks) == agenda' = Front(agenda) \o tasks

(* A branch that is not a block gets a scope of its own.                   *)
EnterScope(s) == IF s.k = "block" THEN scope ELSE Append(scope, {})
ExitScope(s) == IF s.k = "block" THEN scope ELSE Front(scope)
EndBranch(target) == IF IsTerminated(ir, insert) THEN ir ELSE create_br(ir, insert, target)
ReplaceLast(s, x) == Append(Front(s), x)

-----------------------------------------------------------------------------
Init ==
  /\ prog \in Programs
  /\ agenda = <<After("func", prog, <<>>)>>
  /\ ir = [code |-> <<>>, pre |-> <<>>, succ |-> <<>>, list |-> <<>>]
  /\ insert = 0
  /\ cur_basic_block_list = <<>>
  /\ While_Stack = <<>> /\ Or_Cond_Stack = <<>>
  /\ scope = GlobalScope
  /\ pre_enter_scope = FALSE
  /\ tmp_val = NULL
  /\ fault = FALSE

(* FuncDef up to the body: the entry block, the slot of the return value,  *)
(* the return block.                                                       *)
BeginFuncDef ==
  /\ Doing("func")
  /\ LET m == NewBlocks(ir, 2) IN
       ir' = IF prog.void THEN m ELSE Emit(m, entryBB, [op |-> "alloca", id |-> NULL])
  /\ insert' = entryBB
  /\ cur_basic_block_list' = Append(cur_basic_block_list, entryBB)
  /\ scope' = Append(scope, {})
  /\ pre_enter_scope' = TRUE
  /\ Continue(<<After("endFunc", prog, <<>>), Visit(prog.body)>>)
  /\ UNCHANGED <<prog, While_Stack, Or_Cond_Stack, tmp_val, fault>>

(* FuncDef after the body: falling off its end returns 0.                  *)
EndFuncDef ==
  /\ Doing("endFunc")
  /\ LET open == ~ IsTerminated(ir, insert)
         zero == IF open /\ ~ prog.void
                   THEN Emit(ir, insert, [op |-> "act", id |-> 0, decl |-> NULL]) ELSE ir
         jump == IF open THEN create_br(zero, insert, ret_BB) ELSE zero
     IN ir' = Emit(jump, ret_BB, [op |-> "ret"])
  /\ insert' = ret_BB
  /\ scope' = Front(scope)
  /\ cur_basic_block_list' = Front(cur_basic_block_list)
  /\ Return
  /\ UNCHANGED <<prog, While_Stack, Or_Cond_Stack, pre_enter_scope, tmp_val, fault>>

(* BlockStmt: the body of a function is in the scope FuncDef entered.      *)
BeginBlockStmt ==
  /\ Visiting("block")
  /\ scope' = IF pre_enter_scope THEN scope ELSE Append(scope, {})
  /\ pre_enter_scope' = FALSE
  /\ Continue(<<[task |-> "body", node |-> node, pos |-> 1, exit |-> ~ pre_enter_scope]>>)
  /\ UNCHANGED <<prog, ir, insert, cur_basic_block_list, While_Stack, Or_Cond_Stack, tmp_val, fault>>

(* What follows a statement that ended the current block is not visited.   *)
BodyDone == Top.pos > Len(node.body) \/ (Top.pos > 1 /\ IsTerminated(ir, insert))

(* Faulty: statements after a return or break are visited.                 *)
NextStmt_NoTerminatorCheck ==
  /\ Doing("body") /\ Top.pos <= Len(node.body)
  /\ Continue(<<[Top EXCEPT !.pos = @ + 1], Visit(node.body[Top.pos])>>)
  /\ UNCHANGED <<prog, ir, insert, cur_basic_block_list, While_Stack, Or_Cond_Stack,
                 scope, pre_enter_scope, tmp_val, fault>>

NextStmt ==
  /\ Doing("body") /\ ~ BodyDone
  /\ Continue(<<[Top EXCEPT !.pos = @ + 1], Visit(node.body[Top.pos])>>)
  /\ UNCHANGED <<prog, ir, insert, cur_basic_block_list, While_Stack, Or_Cond_Stack,
                 scope, pre_enter_scope, tmp_val, fault>>

EndBlockStmt ==
  /\ Doing("body") /\ BodyDone
  /\ scope' = IF Top.exit THEN Front(scope) ELSE scope
  /\ Return
  /\ UNCHANGED <<prog, ir, insert, cur_basic_block_list, While_Stack, Or_Cond_Stack,
                 pre_enter_scope, tmp_val, fault>>

(* Faulty: the alloca stays where the builder is.                          *)
VarDef_CurrentBlock ==
  /\ Visiting("decl")
  /\ LET alloca == [op |-> "alloca", id |-> node.id]
         here == Last(cur_basic_block_list)
         terminator == IF IsTerminated(ir, entryBB) THEN <<Last(ir.code[entryBB])>> ELSE <<>>
         m1 == IF terminator = <<>> THEN ir ELSE PopBack(ir, entryBB)
         m2 == Emit(m1, insert, alloca)
         m3 == [m2 EXCEPT !.code[entryBB] = @ \o <<alloca>> \o terminator]
     IN /\ ir' = Emit(m3, insert, [op |-> "act", id |-> node.id, decl |-> node.id])
        /\ fault' = (fault \/ Emit(m1, insert, alloca).code[here] = <<>>)
  /\ scope' = push(scope, node.name, node.id)
  /\ Return
  /\ UNCHANGED <<prog, insert, cur_basic_block_list, While_Stack, Or_Cond_Stack,
                 pre_enter_scope, tmp_val>>

(* A local VarDef: the alloca is created where the builder is, taken off   *)
(* the end of what should be the same block, and put at the end of the     *)
(* entry block, before its terminator.                                     *)
VarDef ==
  /\ Visiting("decl")
  /\ LET alloca == [op |-> "alloca", id |-> node.id]
         here == Last(cur_basic_block_list)
         terminator == IF IsTerminated(ir, entryBB) THEN <<Last(ir.code[entryBB])>> ELSE <<>>
         m1 == IF terminator = <<>> THEN ir ELSE PopBack(ir, entryBB)
         m2 == PopBack(Emit(m1, insert, alloca), here)
         m3 == [m2 EXCEPT !.code[entryBB] = @ \o <<alloca>> \o terminator]
     IN /\ ir' = Emit(m3, insert, [op |-> "act", id |-> node.id, decl |-> node.id])
        /\ fault' = (fault \/ Emit(m1, insert, alloca).code[here] = <<>>)
  /\ scope' = push(scope, node.name, node.id)
  /\ Return
  /\ UNCHANGED <<prog, insert, cur_basic_block_list, While_Stack, Or_Cond_Stack,
                 pre_enter_scope, tmp_val>>

(* AssignStmt, ExprStmt: instructions in the current block.                *)
VisitAct ==
  /\ Visiting("act")
  /\ ir' = Emit(ir, insert, [op |-> "act", id |-> node.id, decl |-> find(scope, node.name)])
  /\ Return
  /\ UNCHANGED <<prog, insert, cur_basic_block_list, While_Stack, Or_Cond_Stack, scope,
                 pre_enter_scope, tmp_val, fault>>

EmptyStmt ==
  /\ Visiting("empty")
  /\ tmp_val' = NULL
  /\ Return
  /\ UNCHANGED <<prog, ir, insert, cur_basic_block_list, While_Stack, Or_Cond_Stack, scope,
                 pre_enter_scope, fault>>

ReturnStmt ==
  /\ Visiting("ret")
  /\ LET m == IF prog.void THEN ir
              ELSE Emit(ir, insert, [op |-> "act", id |-> node.id, decl |-> NULL])
     IN ir' = create_br(m, insert, ret_BB)
  /\ Return
  /\ UNCHANGED <<prog, insert, cur_basic_block_list, While_Stack, Or_Cond_Stack, scope,
                 pre_enter_scope, tmp_val, fault>>

(* Outside a loop While_Stack.back() is undefined; the parser and the      *)
(* checker accept such a program.                                          *)
Leave(index) ==
  /\ fault' = (fault \/ While_Stack = <<>>)
  /\ ir' = IF While_Stack = <<>> THEN ir ELSE create_br(ir, insert, Last(While_Stack)[index])
  /\ Return
  /\ UNCHANGED <<prog, insert, cur_basic_block_list, While_Stack, Or_Cond_Stack, scope,
                 pre_enter_scope, tmp_val>>

BreakStmt == Visiting("brk") /\ Leave(2)
ContinueStmt == Visiting("cont") /\ Leave(1)

(***************************************************************************)
(* Conditions.  A visit leaves its value in tmp_val; && and || branch on   *)
(* the value of their left side and go on in the block for the right one.  *)
(***************************************************************************)
VisitAtom ==
  /\ Visiting("atom")
  /\ ir' = Emit(ir, insert, [op |-> "eval", id |-> node.id])
  /\ tmp_val' = node.id
  /\ Return
  /\ UNCHANGED <<prog, insert, cur_basic_block_list, While_Stack, Or_Cond_Stack, scope,
                 pre_enter_scope, fault>>

BeginLAnd ==
  /\ Visiting("and")
  /\ ir' = NewBlocks(ir, 1)
  /\ Continue(<<After("and", node, <<Len(ir'.code)>>), Visit(node.lhs)>>)
  /\ UNCHANGED <<prog, insert, cur_basic_block_list, While_Stack, Or_Cond_Stack, scope,
                 pre_enter_scope, tmp_val, fault>>

EndLAnd ==
  LET trueBB == bbs[1] IN
  /\ Doing("and")
  /\ ir' = create_cond_br(ir, insert, tmp_val, trueBB, Last(Or_Cond_Stack)[2])
  /\ insert' = trueBB
  /\ Continue(<<Visit(node.rhs)>>)
  /\ UNCHANGED <<prog, cur_basic_block_list, While_Stack, Or_Cond_Stack, scope,
                 pre_enter_scope, tmp_val, fault>>

BeginLOr ==
  /\ Visiting("or")
  /\ ir' = NewBlocks(ir, 1)
  /\ Or_Cond_Stack' = Append(Or_Cond_Stack, <<Last(Or_Cond_Stack)[1], Len(ir'.code)>>)
  /\ Continue(<<After("or", node, <<Len(ir'.code)>>), Visit(node.lhs)>>)
  /\ UNCHANGED <<prog, insert, cur_basic_block_list, While_Stack, scope, pre_enter_scope,
                 tmp_val, fault>>

(* Faulty: the branch uses the inner pair after it is popped.              *)
EndLOr_InnerTarget ==
  LET falseBB == bbs[1]
      outer == Front(Or_Cond_Stack)
  IN
  /\ Doing("or")
  /\ Or_Cond_Stack' = outer
  /\ ir' = create_cond_br(ir, insert, tmp_val, Last(outer)[2], falseBB)
  /\ insert' = falseBB
  /\ Continue(<<Visit(node.rhs)>>)
  /\ UNCHANGED <<prog, cur_basic_block_list, While_Stack, scope, pre_enter_scope, tmp_val, fault>>

EndLOr ==
  LET falseBB == bbs[1]
      outer == Front(Or_Cond_Stack)
  IN
  /\ Doing("or")
  /\ Or_Cond_Stack' = outer
  /\ ir' = create_cond_br(ir, insert, tmp_val, Last(outer)[1], falseBB)
  /\ insert' = falseBB
  /\ Continue(<<Visit(node.rhs)>>)
  /\ UNCHANGED <<prog, cur_basic_block_list, While_Stack, scope, pre_enter_scope, tmp_val, fault>>

(***************************************************************************)
(* IfStmt                                                                  *)
(***************************************************************************)
HasElse == node.else.k # "none"

(* Faulty: nextBB is not created.                                          *)
BeginIfStmt_NoNext ==
  LET n == Len(ir.code)
      trueBB == n + 1   falseBB == n + 2   nextBB == n + 3
  IN
  /\ Visiting("if")
  /\ ir' = NewBlocks(ir, 2)
  /\ Or_Cond_Stack' = Append(Or_Cond_Stack, <<trueBB, IF HasElse THEN falseBB ELSE nextBB>>)
  /\ Continue(<<After("ifCond", node, <<trueBB, falseBB, nextBB>>), Visit(node.cond)>>)
  /\ UNCHANGED <<prog, insert, cur_basic_block_list, While_Stack, scope, pre_enter_scope,
                 tmp_val, fault>>

BeginIfStmt ==
  LET n == Len(ir.code)
      trueBB == n + 1   falseBB == n + 2   nextBB == n + 3
  IN
  /\ Visiting("if")
  /\ ir' = NewBlocks(ir, 3)
  /\ Or_Cond_Stack' = Append(Or_Cond_Stack, <<trueBB, IF HasElse THEN falseBB ELSE nextBB>>)
  /\ Continue(<<After("ifCond", node, <<trueBB, falseBB, nextBB>>), Visit(node.cond)>>)
  /\ UNCHANGED <<prog, insert, cur_basic_block_list, While_Stack, scope, pre_enter_scope,
                 tmp_val, fault>>

IfCondition ==
  LET trueBB == bbs[1] IN
  /\ Doing("ifCond")
  /\ Or_Cond_Stack' = Front(Or_Cond_Stack)
  /\ ir' = create_cond_br(ir, insert, tmp_val, trueBB, IF HasElse THEN bbs[2] ELSE bbs[3])
  /\ insert' = trueBB
  /\ cur_basic_block_list' = ReplaceLast(cur_basic_block_list, trueBB)
  /\ scope' = EnterScope(node.then)
  /\ Continue(<<After("ifThen", node, bbs), Visit(node.then)>>)
  /\ UNCHANGED <<prog, While_Stack, pre_enter_scope, tmp_val, fault>>

(* The statement goes on in nextBB, if anything leads there; if nothing    *)
(* does, the insert point is the terminated trueBB, and nextBB is erased   *)
(* but stays on cur_basic_block_list.                                      *)
FinishIf(m) ==
  LET trueBB == bbs[1]   nextBB == bbs[3]
      dead == m.pre[nextBB] = <<>>
  IN
  /\ ir' = IF dead THEN erase_from_parent(m, nextBB) ELSE m
  /\ insert' = IF dead THEN trueBB ELSE nextBB
  /\ cur_basic_block_list' = ReplaceLast(cur_basic_block_list, nextBB)
  /\ Return

EndThenOnly ==
  /\ Doing("ifThen") /\ ~ HasElse
  /\ scope' = ExitScope(node.then)
  /\ FinishIf(erase_from_parent(EndBranch(bbs[3]), bbs[2]))
  /\ UNCHANGED <<prog, While_Stack, Or_Cond_Stack, pre_enter_scope, tmp_val, fault>>

BeginElse ==
  LET falseBB == bbs[2] IN
  /\ Doing("ifThen") /\ HasElse
  /\ ir' = EndBranch(bbs[3])
  /\ insert' = falseBB
  /\ cur_basic_block_list' = ReplaceLast(cur_basic_block_list, falseBB)
  /\ scope' = IF node.else.k = "block" THEN ExitScope(node.then)
              ELSE Append(ExitScope(node.then), {})
  /\ Continue(<<After("ifElse", node, bbs), Visit(node.else)>>)
  /\ UNCHANGED <<prog, While_Stack, Or_Cond_Stack, pre_enter_scope, tmp_val, fault>>

EndElse ==
  /\ Doing("ifElse")
  /\ scope' = ExitScope(node.else)
  /\ FinishIf(EndBranch(bbs[3]))
  /\ UNCHANGED <<prog, While_Stack, Or_Cond_Stack, pre_enter_scope, tmp_val, fault>>

(***************************************************************************)
(* WhileStmt                                                               *)
(***************************************************************************)
(* Faulty: continue would run the body again without the condition.        *)
BeginWhileStmt_ContinueToBody ==
  LET n == Len(ir.code)
      whileBB == n + 1   trueBB == n + 2   nextBB == n + 3
      m == NewBlocks(ir, 3)
  IN
  /\ Visiting("while")
  /\ While_Stack' = Append(While_Stack, <<trueBB, nextBB>>)
  /\ ir' = IF IsTerminated(m, insert) THEN m ELSE create_br(m, insert, whileBB)
  /\ cur_basic_block_list' = Front(cur_basic_block_list)
  /\ insert' = whileBB
  /\ Or_Cond_Stack' = Append(Or_Cond_Stack, <<trueBB, nextBB>>)
  /\ Continue(<<After("whileCond", node, <<whileBB, trueBB, nextBB>>), Visit(node.cond)>>)
  /\ UNCHANGED <<prog, scope, pre_enter_scope, tmp_val, fault>>

BeginWhileStmt ==
  LET n == Len(ir.code)
      whileBB == n + 1   trueBB == n + 2   nextBB == n + 3
      m == NewBlocks(ir, 3)
  IN
  /\ Visiting("while")
  /\ While_Stack' = Append(While_Stack, <<whileBB, nextBB>>)
  /\ ir' = IF IsTerminated(m, insert) THEN m ELSE create_br(m, insert, whileBB)
  /\ cur_basic_block_list' = Front(cur_basic_block_list)
  /\ insert' = whileBB
  /\ Or_Cond_Stack' = Append(Or_Cond_Stack, <<trueBB, nextBB>>)
  /\ Continue(<<After("whileCond", node, <<whileBB, trueBB, nextBB>>), Visit(node.cond)>>)
  /\ UNCHANGED <<prog, scope, pre_enter_scope, tmp_val, fault>>

WhileCondition ==
  LET trueBB == bbs[2] IN
  /\ Doing("whileCond")
  /\ Or_Cond_Stack' = Front(Or_Cond_Stack)
  /\ ir' = create_cond_br(ir, insert, tmp_val, trueBB, bbs[3])
  /\ insert' = trueBB
  /\ cur_basic_block_list' = Append(cur_basic_block_list, trueBB)
  /\ scope' = EnterScope(node.body)
  /\ Continue(<<After("whileBody", node, bbs), Visit(node.body)>>)
  /\ UNCHANGED <<prog, While_Stack, pre_enter_scope, tmp_val, fault>>

EndWhileStmt ==
  /\ Doing("whileBody")
  /\ scope' = ExitScope(node.body)
  /\ ir' = EndBranch(bbs[1])
  /\ insert' = bbs[3]
  /\ cur_basic_block_list' = ReplaceLast(cur_basic_block_list, bbs[3])
  /\ While_Stack' = Front(While_Stack)
  /\ Return
  /\ UNCHANGED <<prog, Or_Cond_Stack, pre_enter_scope, tmp_val, fault>>

-----------------------------------------------------------------------------
BuildNext ==
  \/ BeginFuncDef \/ EndFuncDef
  \/ BeginBlockStmt \/ NextStmt \/ EndBlockStmt
  \/ VarDef \/ VisitAct \/ EmptyStmt \/ ReturnStmt \/ BreakStmt \/ ContinueStmt
  \/ VisitAtom \/ BeginLAnd \/ EndLAnd \/ BeginLOr \/ EndLOr
  \/ BeginIfStmt \/ IfCondition \/ EndThenOnly \/ BeginElse \/ EndElse
  \/ BeginWhileStmt \/ WhileCondition \/ EndWhileStmt

BuildSpec == Init /\ [][BuildNext]_irVars

Built == agenda = <<>>

-----------------------------------------------------------------------------
AllBBs == DOMAIN ir.code
Listed == ToSet(ir.list)

TypeOK ==
  /\ DOMAIN ir.pre = AllBBs /\ DOMAIN ir.succ = AllBBs
  /\ Listed \subseteq AllBBs /\ Len(ir.list) = Cardinality(Listed)
  /\ \A b \in AllBBs : ir.pre[b] \in Seq(AllBBs) /\ ir.succ[b] \in Seq(AllBBs)
  /\ insert \in AllBBs \cup {0}
  /\ cur_basic_block_list \in Seq(AllBBs)
  /\ While_Stack \in Seq(AllBBs \X AllBBs)
  /\ Or_Cond_Stack \in Seq(AllBBs \X AllBBs)
  /\ pre_enter_scope \in BOOLEAN /\ fault \in BOOLEAN

(* A declaration is visited only when the block at the end of              *)
(* cur_basic_block_list is the block being filled: VarDef takes its alloca *)
(* off the one and puts instructions into the other.                       *)
VarDefInCurrentBlock ==
  Visiting("decl") => /\ insert = Last(cur_basic_block_list)
                      /\ insert \in Listed
                      /\ ~ IsTerminated(ir, insert)

(* A terminator is the last instruction of its block at all times, and a   *)
(* finished function has one in every block.                               *)
OneTerminator ==
  /\ \A b \in AllBBs : \A k \in 1 .. Len(ir.code[b]) - 1 : ir.code[b][k].op \notin Terminators
  /\ Built => \A b \in Listed : IsTerminated(ir, b)

(* Allocas are in the entry block and nowhere else between two calls, one  *)
(* per declaration visited.                                                *)
AllocasInEntry ==
  /\ \A b \in AllBBs \ {entryBB} : \A k \in DOMAIN ir.code[b] : ir.code[b][k].op # "alloca"
  /\ ~ fault

(* The targets a terminator can jump to.                                   *)
Targets(b) ==
  IF ~ IsTerminated(ir, b) \/ Last(ir.code[b]).op = "ret" THEN {}
  ELSE LET t == Last(ir.code[b]) IN IF t.op = "br" THEN {t.to} ELSE {t.true, t.false}

(* The edge lists say what the terminators say, in both directions and     *)
(* without a second entry for an edge, also after blocks were erased; and  *)
(* no listed block jumps to one that is erased.                            *)
EdgesMatchTerminators ==
  \A b \in Listed :
    /\ ToSet(ir.succ[b]) = Targets(b) /\ Len(ir.succ[b]) = Cardinality(Targets(b))
    /\ Targets(b) \subseteq Listed
    /\ ToSet(ir.pre[b]) = {p \in Listed : b \in Targets(p)}
    /\ Len(ir.pre[b]) = Cardinality(ToSet(ir.pre[b]))

(* The blocks reached from the entry by at most n jumps.                   *)
Reached[n \in Nat] ==
  IF n = 0 THEN {entryBB} ELSE Reached[n - 1] \cup UNION {Targets(b) : b \in Reached[n - 1]}

(* The blocks that reach a return by at most n jumps. *)
Returns == {b \in Listed : IsTerminated(ir, b) /\ Last(ir.code[b]).op = "ret"}
Returning[n \in Nat] ==
  IF n = 0 THEN Returns ELSE LET R == Returning[n - 1] IN R \cup {b \in Listed : Targets(b) \cap R # {}}

(* The graph the passes are given: every block is reached from the entry   *)
(* and nothing jumps back to it, one block returns, and every block        *)
(* reaches that.  DominateTree numbers the blocks it can reach and looks   *)
(* up the others as if they were the first, RDominateTree those that reach *)
(* the first return; Mem2Reg leaves the loads of a block it cannot reach   *)
(* without their alloca.                                                   *)
AllBlocksReached ==
  Built =>
    /\ ir.pre[entryBB] = <<>>
    /\ Reached[Cardinality(Listed)] = Listed
    /\ Cardinality(Returns) = 1
    /\ Returning[Cardinality(Listed)] = Listed

(* What DominateTree, RDominateTree and Mem2Reg take for granted of the    *)
(* function they are given.                                                *)
WellFormedGraph == OneTerminator /\ EdgesMatchTerminators /\ AllBlocksReached

(* A declaration gets its alloca in the entry block whatever ifs and loops *)
(* surround it, and its initializer into the block being filled.           *)
DeclarationsInPlace == VarDefInCurrentBlock /\ AllocasInEntry
=============================================================================
