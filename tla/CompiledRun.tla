---------------------------- MODULE CompiledRun ----------------------------
(***************************************************************************)
(* The function IRBuilder built, run beside its source.  The source is     *)
(* executed by what its statements mean, with a continuation K: what is    *)
(* left to do, each item with the declarations its names stand for.  The   *)
(* blocks are executed by what their instructions mean.  Both see the same *)
(* value of a condition; an act, an evaluated condition or the return is   *)
(* an event, and the two must have the same events in the same order.      *)
(***************************************************************************)
EXTENDS IRBuilder

CONSTANT Chains   \* the conditions without ||

(* What the grammar, and the checker where -check asks for it, leave for   *)
(* IRBuilder to meet: a declaration is an item of a block, which declares  *)
(* no name twice, and the left side of an && has no ||.                    *)
ASSUME SourceAssumption ==
  /\ \A s \in Stmts \cup LoopStmts :
       /\ s.k \in {"act", "decl"} => s.name \in Names
       /\ s.k = "block" => \A j, l \in DOMAIN s.body :
            s.body[j].k = "decl" /\ s.body[l].k = "decl" /\ s.body[j].name = s.body[l].name => j = l
       /\ s.k = "if" => s.then.k # "decl" /\ s.else.k # "decl"
       /\ s.k = "while" => s.body.k # "decl"
  /\ \A c \in Chains : c.k = "atom" \/ (c.k = "and" /\ c.lhs \in Chains /\ c.rhs \in Chains)
  /\ \A c \in Conds : c.k = "and" => c.lhs \in Chains

VARIABLES
  K,       \* the source: items to do, the next one last
  cpu,     \* the blocks: the block and the position in it
  value    \* the last value of each condition in the blocks

runVars == <<K, cpu, value>>
vars == <<irVars, runVars>>

Running == cpu.bb # 0

Item(stmt, env) == [stmt |-> stmt, env |-> env]
Exit == [k |-> "exit"]
Branch(c, yes, no) == [k |-> "branch", cond |-> c, yes |-> yes, no |-> no]
From(body, pos) == [k |-> "seq", body |-> body, pos |-> pos]

GlobalEnv == [x \in Names |-> 0]
Next1 == Last(K).stmt
Env == Last(K).env
Then(stmts) == K' = Front(K) \o [j \in DOMAIN stmts |-> Item(stmts[j], Env)]

-----------------------------------------------------------------------------
(* A statement of the source that is an event, and the event.              *)
SourceVisible ==
  IF K = <<>> THEN ~ prog.void
  ELSE \/ Next1.k \in {"act", "decl", "exit"}
       \/ Next1.k = "ret" /\ ~ prog.void
       \/ Next1.k = "branch" /\ Next1.cond.k = "atom"

SourceEvent ==
  IF K = <<>> THEN [op |-> "act", id |-> 0, decl |-> NULL]
  ELSE CASE Next1.k = "act"    -> [op |-> "act", id |-> Next1.id, decl |-> Env[Next1.name]]
         [] Next1.k = "decl"   -> [op |-> "act", id |-> Next1.id, decl |-> Next1.id]
         [] Next1.k = "ret"    -> [op |-> "act", id |-> Next1.id, decl |-> NULL]
         [] Next1.k = "branch" -> [op |-> "eval", id |-> Next1.cond.id]
         [] Next1.k = "exit"   -> [op |-> "ret"]

Instr == ir.code[cpu.bb][cpu.ip]
TargetVisible == Instr.op \in {"act", "eval", "ret"}

-----------------------------------------------------------------------------
StartRun ==
  /\ Built /\ ~ Running
  /\ K' = <<Item(prog.body, GlobalEnv)>>
  /\ cpu' = [bb |-> entryBB, ip |-> 1]
  /\ UNCHANGED <<irVars, value>>

(* break leaves the statement of the innermost loop in progress; continue  *)
(* returns to it.                                                          *)
Loop == CHOOSE j \in DOMAIN K :
          /\ K[j].stmt.k = "while"
          /\ \A l \in DOMAIN K : K[l].stmt.k = "while" => l <= j

(* A statement that is no event: the source unfolds it.                    *)
SourceStep ==
  /\ Running /\ ~ SourceVisible
  /\ UNCHANGED <<irVars, cpu, value>>
  /\ IF K = <<>> THEN K' = <<Item(Exit, GlobalEnv)>> ELSE
     \/ Next1.k = "block" /\ Then(<<From(Next1.body, 1)>>)
     \/ /\ Next1.k = "seq"
        /\ Then(IF Next1.pos > Len(Next1.body) THEN <<>>
                ELSE <<From(Next1.body, Next1.pos + 1), Next1.body[Next1.pos]>>)
     \/ Next1.k \in {"empty", "none"} /\ Then(<<>>)
     \/ Next1.k = "if" /\ Then(<<Branch(Next1.cond, Next1.then, Next1.else)>>)
     \/ /\ Next1.k = "while"
        /\ Then(<<Next1, Branch(Next1.cond, Next1.body, [k |-> "brk"])>>)
     \/ /\ Next1.k = "branch" /\ Next1.cond.k = "and"
        /\ Then(<<Branch(Next1.cond.lhs, Branch(Next1.cond.rhs, Next1.yes, Next1.no), Next1.no)>>)
     \/ /\ Next1.k = "branch" /\ Next1.cond.k = "or"
        /\ Then(<<Branch(Next1.cond.lhs, Next1.yes, Branch(Next1.cond.rhs, Next1.yes, Next1.no))>>)
     \/ Next1.k = "brk" /\ K' = SubSeq(K, 1, Loop - 1)
     \/ Next1.k = "cont" /\ K' = SubSeq(K, 1, Loop)
     \/ Next1.k = "ret" /\ K' = <<Item(Exit, GlobalEnv)>>

(* An instruction that is no event: an alloca or a jump.                   *)
TargetStep ==
  /\ Running /\ SourceVisible /\ ~ TargetVisible
  /\ cpu' = CASE Instr.op = "alloca" -> [cpu EXCEPT !.ip = @ + 1]
              [] Instr.op = "br"     -> [bb |-> Instr.to, ip |-> 1]
              [] Instr.op = "condbr" ->
                   [bb |-> IF value[Instr.cond] THEN Instr.true ELSE Instr.false, ip |-> 1]
  /\ UNCHANGED <<irVars, K, value>>

AtEvent == Running /\ SourceVisible /\ TargetVisible

(* The event they share.  A declaration is in force for the rest of its    *)
(* block, a return ends the function, a condition takes either value.      *)
Event ==
  /\ AtEvent /\ SourceEvent = Instr
  /\ cpu' = [cpu EXCEPT !.ip = @ + 1]
  /\ UNCHANGED irVars
  /\ \/ K = <<>> /\ K' = <<Item(Exit, GlobalEnv)>> /\ UNCHANGED value
     \/ K # <<>> /\ Next1.k = "act" /\ Then(<<>>) /\ UNCHANGED value
     \/ /\ K # <<>> /\ Next1.k = "decl"
        /\ K' = [Front(K) EXCEPT ![Len(K) - 1].env[Next1.name] = Next1.id]
        /\ UNCHANGED value
     \/ K # <<>> /\ Next1.k = "ret" /\ K' = <<Item(Exit, GlobalEnv)>> /\ UNCHANGED value
     \/ /\ K # <<>> /\ Next1.k = "branch"
        /\ \E v \in BOOLEAN :
             /\ value' = [a \in DOMAIN value \cup {Next1.cond.id} |->
                            IF a = Next1.cond.id THEN v ELSE value[a]]
             /\ Then(<<IF v THEN Next1.yes ELSE Next1.no>>)

Finished == AtEvent /\ Instr.op = "ret"

RunInit == Init /\ K = <<>> /\ cpu = [bb |-> 0, ip |-> 1] /\ value = [a \in {} |-> TRUE]

Next ==
  \/ BuildNext /\ UNCHANGED runVars
  \/ StartRun \/ SourceStep \/ TargetStep \/ Event

Spec == RunInit /\ [][Next]_vars
(* Both the compiler and the program it made run as long as they can.      *)
FairSpec == Spec /\ WF_vars(Next)

-----------------------------------------------------------------------------
(* Whatever values the conditions take, the blocks do what the source does *)
(* next: the same statement, on the same declaration of its name, the same *)
(* condition of a && or || chain, or the return.                           *)
SameEvents == AtEvent => SourceEvent = Instr

(* The blocks never jump about for ever without an event: the function is  *)
(* built, and whenever it runs it gets to what the source does next.       *)
KeepsUp == []<>AtEvent
=============================================================================
