------------------------- MODULE SyntaxTreeChecker -------------------------
(***************************************************************************)
(* The semantic checker (src/src/AST/SyntaxTreeChecker.cpp and its header):*)
(* one visit per node of a translation unit, a stack of scopes, a table of *)
(* functions and the flag Expr_int, which each expression leaves behind    *)
(* for the one around it.  The first error ends the program with its code. *)
(*                                                                         *)
(* As in IRBuilder the recursion is a stack of tasks, the agenda.  Nodes   *)
(* are records whose field k is the kind of node; those of IRBuilder are   *)
(* nodes here too, and have further fields:                                *)
(*   assembly defs        func name int params body    param name id int   *)
(*   decl .. int init     act .. value                 ret .. value        *)
(*   expr exp             lit int                      lval id name index  *)
(*   call name params     bin op lhs rhs               unary rhs           *)
(*   rel lhs rhs                                                           *)
(* int says whether a type is int; init is a sequence of expressions.      *)
(***************************************************************************)
EXTENDS Integers, Sequences, SequencesExt

CONSTANTS Units,   \* translation units considered
          NULL     \* the expression of a return without one

ASSUME UnitAssumption == \A u \in Units : u.k = "assembly"

VARIABLES
  unit,        \* the tree
  agenda,      \* calls of visit in progress
  variables,   \* stack of scopes: name -> type, and which declaration it is
  functions,   \* name -> return type and argument types
  Expr_int,
  verdict,     \* the exit code, or how far the checker is
  resolved     \* history: <<use, declaration>> of each lookup

scopeVars == <<variables, functions>>
vars == <<unit, agenda, scopeVars, Expr_int, verdict, resolved>>

ErrorTypes == {"Modulo", "VarUnknown", "VarDuplicated", "FuncUnknown", "FuncDuplicated", "FuncParams"}
Verdicts == ErrorTypes \cup {"checking", "Accepted", "null dereference"}

Visit(n) == [task |-> "visit", node |-> n]
Doing(t) == agenda # <<>> /\ Last(agenda).task = t
Visiting(kind) == Doing("visit") /\ Last(agenda).node.k = kind
Node == Last(agenda).node
EnterTask == [task |-> "enter"]
ExitTask == [task |-> "exit"]

(* The calls a visit still makes, in the order it makes them. *)
Calls(tasks) == agenda' = Front(agenda) \o Reverse(tasks)
Visits(nodes) == [j \in 1 .. Len(nodes) |-> Visit(nodes[j])]
Scoped(n) == <<EnterTask, Visit(n), ExitTask>>

(* Faulty: the error is reported and the checker goes on.                  *)
Fail_GoesOn(error) == verdict' = error /\ agenda' = Front(agenda)

(* An error is reported and the program exits with its code.               *)
Fail(error) == verdict' = error /\ agenda' = <<>>

enter_scope == variables' = Append(variables, <<>>)
With(f, x, v) == [y \in DOMAIN f \cup {x} |-> IF y = x THEN v ELSE f[y]]

(* The innermost scope that has the name. *)
Scopes(name) == {d \in DOMAIN variables : name \in DOMAIN variables[d]}
lookup_variable(name) ==
  variables[CHOOSE d \in Scopes(name) : \A e \in Scopes(name) : e <= d][name]

-----------------------------------------------------------------------------
(* Expr_int is not initialised. *)
Init ==
  /\ unit \in Units
  /\ agenda = <<Visit(unit)>>
  /\ variables = <<>> /\ functions = <<>>
  /\ Expr_int \in BOOLEAN
  /\ verdict = "checking"
  /\ resolved = {}

VisitAssembly ==
  /\ Visiting("assembly")
  /\ enter_scope
  /\ Calls(Visits(Node.defs) \o <<ExitTask>>)
  /\ UNCHANGED <<unit, functions, Expr_int, verdict, resolved>>

EnterScope ==
  /\ Doing("enter")
  /\ enter_scope
  /\ agenda' = Front(agenda)
  /\ UNCHANGED <<unit, functions, Expr_int, verdict, resolved>>

ExitScope ==
  /\ Doing("exit")
  /\ variables' = Front(variables)
  /\ agenda' = Front(agenda)
  /\ UNCHANGED <<unit, functions, Expr_int, verdict, resolved>>

(* A function is declared before its body; the parameters and the body     *)
(* share one scope.                                                        *)
VisitFuncDef ==
  /\ Visiting("func")
  /\ IF Node.name \in DOMAIN functions
       THEN Fail("FuncDuplicated") /\ UNCHANGED scopeVars
       ELSE /\ functions' = With(functions, Node.name,
                 [ret_int |-> Node.int,
                  args_int |-> [j \in DOMAIN Node.params |-> Node.params[j].int]])
            /\ enter_scope
            /\ Calls(Visits(Node.params) \o <<Visit(Node.body), ExitTask>>)
            /\ UNCHANGED verdict
  /\ UNCHANGED <<unit, Expr_int, resolved>>

(* declare_variable: for a parameter, and for a variable once its          *)
(* initializer has been visited.                                           *)
Declare ==
  /\ Doing("declare") \/ Visiting("param")
  /\ IF Node.name \in DOMAIN Last(variables)
       THEN Fail("VarDuplicated") /\ UNCHANGED variables
       ELSE /\ variables' = [variables EXCEPT ![Len(variables)] =
                 With(@, Node.name, [int |-> Node.int, decl |-> Node.id])]
            /\ agenda' = Front(agenda)
            /\ UNCHANGED verdict
  /\ UNCHANGED <<unit, functions, Expr_int, resolved>>

VisitVarDef ==
  /\ Visiting("decl")
  /\ Calls(Visits(Node.init) \o <<[task |-> "declare", node |-> Node]>>)
  /\ UNCHANGED <<unit, scopeVars, Expr_int, verdict, resolved>>

(***************************************************************************)
(* Statements                                                              *)
(***************************************************************************)
VisitBlockStmt ==
  /\ Visiting("block")
  /\ LET stmts == Node.body IN
       Calls(FlattenSeq([j \in 1 .. Len(stmts) |->
               IF stmts[j].k = "block" THEN Scoped(stmts[j]) ELSE <<Visit(stmts[j])>>]))
  /\ UNCHANGED <<unit, scopeVars, Expr_int, verdict, resolved>>

(* The branches are visited in a scope each, also when they are no block.  *)
VisitIfStmt ==
  /\ Visiting("if")
  /\ Calls(<<Visit(Node.cond)>> \o Scoped(Node.then)
             \o IF Node.else.k = "none" THEN <<>> ELSE Scoped(Node.else))
  /\ UNCHANGED <<unit, scopeVars, Expr_int, verdict, resolved>>

(* Faulty: the loop body shares the scope around the loop.                 *)
VisitWhileStmt_NoScope ==
  /\ Visiting("while")
  /\ Calls(<<Visit(Node.cond), Visit(Node.body)>>)
  /\ UNCHANGED <<unit, scopeVars, Expr_int, verdict, resolved>>

VisitWhileStmt ==
  /\ Visiting("while")
  /\ Calls(<<Visit(Node.cond)>> \o Scoped(Node.body))
  /\ UNCHANGED <<unit, scopeVars, Expr_int, verdict, resolved>>

(* EmptyStmt, BreakStmt, ContinueStmt: not looked at; and the conditions   *)
(* that are opaque in IRBuilder, which have no names.                      *)
VisitNothing ==
  /\ Visiting("empty") \/ Visiting("brk") \/ Visiting("cont") \/ Visiting("atom")
  /\ agenda' = Front(agenda)
  /\ UNCHANGED <<unit, scopeVars, Expr_int, verdict, resolved>>

(* The expression of a return is visited without asking whether it is there*)
VisitReturnStmt ==
  /\ Visiting("ret")
  /\ IF Node.value = NULL THEN Fail("null dereference")
     ELSE Calls(<<Visit(Node.value)>>) /\ UNCHANGED verdict
  /\ UNCHANGED <<unit, scopeVars, Expr_int, resolved>>

Target(n) == [k |-> "lval", id |-> n.id, name |-> n.name, index |-> <<>>]

(* AssignStmt: the target, then the value.                                 *)
VisitAssignStmt ==
  /\ Visiting("act")
  /\ Calls(<<Visit(Target(Node)), Visit(Node.value)>>)
  /\ UNCHANGED <<unit, scopeVars, Expr_int, verdict, resolved>>

VisitExprStmt ==
  /\ Visiting("expr")
  /\ Calls(<<Visit(Node.exp)>>)
  /\ UNCHANGED <<unit, scopeVars, Expr_int, verdict, resolved>>

(***************************************************************************)
(* Expressions                                                             *)
(***************************************************************************)
(* Index expressions are not visited.                                      *)
VisitLVal ==
  /\ Visiting("lval")
  /\ IF Scopes(Node.name) = {} THEN Fail("VarUnknown") /\ UNCHANGED <<Expr_int, resolved>>
     ELSE /\ Expr_int' = lookup_variable(Node.name).int
          /\ resolved' = resolved \cup {<<Node.id, lookup_variable(Node.name).decl>>}
          /\ agenda' = Front(agenda)
          /\ UNCHANGED verdict
  /\ UNCHANGED <<unit, scopeVars>>

VisitLiteral ==
  /\ Visiting("lit")
  /\ Expr_int' = Node.int
  /\ agenda' = Front(agenda)
  /\ UNCHANGED <<unit, scopeVars, verdict, resolved>>

(* UnaryExpr and UnaryCondExpr.                                            *)
VisitUnary ==
  /\ Visiting("unary")
  /\ Calls(<<Visit(Node.rhs)>>)
  /\ UNCHANGED <<unit, scopeVars, Expr_int, verdict, resolved>>

(* BinaryCondExpr: a comparison, && or ||.                                 *)
VisitBinaryCond ==
  /\ Visiting("rel") \/ Visiting("and") \/ Visiting("or")
  /\ Calls(<<Visit(Node.lhs), Visit(Node.rhs)>>)
  /\ UNCHANGED <<unit, scopeVars, Expr_int, verdict, resolved>>

VisitBinaryExpr ==
  /\ Visiting("bin")
  /\ Calls(<<Visit(Node.lhs), [task |-> "rhs", node |-> Node]>>)
  /\ UNCHANGED <<unit, scopeVars, Expr_int, verdict, resolved>>

(* lhs_int is kept while the right operand is visited.                     *)
BinaryRhs ==
  /\ Doing("rhs")
  /\ Calls(<<Visit(Node.rhs), [task |-> "modulo", node |-> Node, lhs_int |-> Expr_int]>>)
  /\ UNCHANGED <<unit, scopeVars, Expr_int, verdict, resolved>>

(* Faulty: the left operand's type is read after the right one's visit.    *)
EndBinaryExpr_LateRead ==
  LET lhs_int == Expr_int IN
  /\ Doing("modulo")
  /\ IF Node.op = "%" /\ ~ (lhs_int /\ Expr_int)
       THEN Fail("Modulo") /\ UNCHANGED Expr_int
       ELSE /\ Expr_int' = (lhs_int /\ Expr_int)
            /\ agenda' = Front(agenda)
            /\ UNCHANGED verdict
  /\ UNCHANGED <<unit, scopeVars, resolved>>

EndBinaryExpr ==
  LET lhs_int == Last(agenda).lhs_int IN
  /\ Doing("modulo")
  /\ IF Node.op = "%" /\ ~ (lhs_int /\ Expr_int)
       THEN Fail("Modulo") /\ UNCHANGED Expr_int
       ELSE /\ Expr_int' = (lhs_int /\ Expr_int)
            /\ agenda' = Front(agenda)
            /\ UNCHANGED verdict
  /\ UNCHANGED <<unit, scopeVars, resolved>>

(* A call visits its arguments, then looks the function up, then visits    *)
(* the arguments again, for their types.                                   *)
VisitFuncCall ==
  /\ Visiting("call")
  /\ Calls(Visits(Node.params) \o <<[task |-> "callee", node |-> Node]>>)
  /\ UNCHANGED <<unit, scopeVars, Expr_int, verdict, resolved>>

Callee ==
  /\ Doing("callee")
  /\ CASE Node.name \notin DOMAIN functions -> Fail("FuncUnknown")
       [] OTHER ->
            LET function == functions[Node.name]
                args == Node.params
            IN IF Len(function.args_int) # Len(args) THEN Fail("FuncParams")
               ELSE /\ Calls(FlattenSeq([j \in 1 .. Len(args) |->
                               <<Visit(args[j]), [task |-> "argument", int |-> function.args_int[j]]>>])
                             \o <<[task |-> "result", int |-> function.ret_int]>>)
                    /\ UNCHANGED verdict
  /\ UNCHANGED <<unit, scopeVars, Expr_int, resolved>>

Argument ==
  /\ Doing("argument")
  /\ IF Expr_int # Last(agenda).int THEN Fail("FuncParams")
     ELSE agenda' = Front(agenda) /\ UNCHANGED verdict
  /\ UNCHANGED <<unit, scopeVars, Expr_int, resolved>>

Result ==
  /\ Doing("result")
  /\ Expr_int' = Last(agenda).int
  /\ agenda' = Front(agenda)
  /\ UNCHANGED <<unit, scopeVars, verdict, resolved>>

Accept ==
  /\ verdict = "checking" /\ agenda = <<>>
  /\ verdict' = "Accepted"
  /\ UNCHANGED <<unit, agenda, scopeVars, Expr_int, resolved>>

-----------------------------------------------------------------------------
Next ==
  \/ VisitAssembly \/ EnterScope \/ ExitScope \/ VisitFuncDef \/ VisitVarDef \/ Declare
  \/ VisitBlockStmt \/ VisitIfStmt \/ VisitWhileStmt \/ VisitNothing
  \/ VisitReturnStmt \/ VisitAssignStmt \/ VisitExprStmt
  \/ VisitLVal \/ VisitLiteral \/ VisitUnary \/ VisitBinaryCond
  \/ VisitBinaryExpr \/ BinaryRhs \/ EndBinaryExpr
  \/ VisitFuncCall \/ Callee \/ Argument \/ Result
  \/ Accept

Spec == Init /\ [][Next]_vars

Done == verdict # "checking"

-----------------------------------------------------------------------------
TypeOK ==
  /\ \A d \in DOMAIN variables : \A name \in DOMAIN variables[d] :
       variables[d][name].int \in BOOLEAN
  /\ \A f \in DOMAIN functions : functions[f].ret_int \in BOOLEAN
  /\ Expr_int \in BOOLEAN
  /\ verdict \in Verdicts
  /\ Done => agenda = <<>>
=============================================================================
