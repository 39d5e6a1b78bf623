----------------------------- MODULE SyntaxTree -----------------------------
(***************************************************************************)
(* The nodes of the syntax tree, one constructor per struct.  A node is a  *)
(* record whose field "node" names its struct, which is what accept()      *)
(* dispatches on; its other fields are those of the struct.  A pointer is  *)
(* the node it points to: the parser never shares one.  A location is the  *)
(* half-open range of positions from begin to end.                         *)
(***************************************************************************)
EXTENDS Integers, Sequences

nullptr == [node |-> "nullptr"]
NoLoc == [begin |-> 0, end |-> 0]

(* A float is the shortest decimal that is read as it, digits times a      *)
(* power of ten with no zero at the end of the digits, or Infinity.        *)
Infinity == [digits |-> 1, exponent |-> 39]
Decimal(digits, exponent) ==
  IF digits = 0 THEN [digits |-> 0, exponent |-> 0]
  ELSE LET zeros == CHOOSE z \in 0..9 : digits % 10^z = 0 /\ (digits \div 10^z) % 10 # 0 IN
       [digits |-> digits \div 10^zeros, exponent |-> exponent + zeros]

Assembly(defs, l) == [node |-> "Assembly", global_defs |-> defs, loc |-> l]
InitVal(isExp, elements, e, l) ==
  [node |-> "InitVal", isExp |-> isExp, elementList |-> elements, expr |-> e, loc |-> l]
VarDef(const, name, lengths, init, l) ==
  [node |-> "VarDef", is_constant |-> const, btype |-> "INT", name |-> name, is_inited |-> init # nullptr,
   array_length |-> lengths, initializers |-> init, loc |-> l]
FuncParam(t, name, index, l) ==
  [node |-> "FuncParam", param_type |-> t, name |-> name, array_index |-> index, loc |-> l]
FuncFParamList(ps) == [node |-> "FuncFParamList", params |-> ps, loc |-> NoLoc]
FuncDef(t, name, ps, body, l) ==
  [node |-> "FuncDef", ret_type |-> t, name |-> name, param_list |-> FuncFParamList(ps), body |-> body,
   loc |-> l]

BlockStmt(body, l) == [node |-> "BlockStmt", body |-> body, loc |-> l]
AssignStmt(target, value, l) == [node |-> "AssignStmt", target |-> target, value |-> value, loc |-> l]
ExprStmt(e, l) == [node |-> "ExprStmt", exp |-> e, loc |-> l]
ReturnStmt(e, l) == [node |-> "ReturnStmt", ret |-> e, loc |-> l]
EmptyStmt(l) == [node |-> "EmptyStmt", loc |-> l]
BreakStmt(l) == [node |-> "BreakStmt", loc |-> l]
ContinueStmt(l) == [node |-> "ContinueStmt", loc |-> l]
WhileStmt(c, s, l) == [node |-> "WhileStmt", cond_exp |-> c, statement |-> s, loc |-> l]
IfStmt(c, s, e, l) ==
  [node |-> "IfStmt", cond_exp |-> c, if_statement |-> s, else_statement |-> e, loc |-> l]

IntLiteral(n, l) == [node |-> "Literal", literal_type |-> "INT", int_const |-> n, loc |-> l]
FloatLiteral(x, l) == [node |-> "Literal", literal_type |-> "FLOAT", float_const |-> x, loc |-> l]
LVal(name, index, l) == [node |-> "LVal", name |-> name, array_index |-> index, loc |-> l]
FuncCallStmt(name, ps, l) == [node |-> "FuncCallStmt", name |-> name, params |-> ps, loc |-> l]
UnaryExpr(op, r, l) == [node |-> "UnaryExpr", op |-> op, rhs |-> r, loc |-> l]
UnaryCondExpr(op, r, l) == [node |-> "UnaryCondExpr", op |-> op, rhs |-> r, loc |-> l]
BinaryExpr(op, a, b, l) == [node |-> "BinaryExpr", op |-> op, lhs |-> a, rhs |-> b, loc |-> l]
BinaryCondExpr(op, a, b, l) == [node |-> "BinaryCondExpr", op |-> op, lhs |-> a, rhs |-> b, loc |-> l]

-----------------------------------------------------------------------------
(* The nodes a node points to, in the order of its fields. *)
Children(n) ==
  CASE n.node = "Assembly"       -> n.global_defs
    [] n.node = "FuncDef"        -> <<n.param_list, n.body>>
    [] n.node = "FuncFParamList" -> n.params
    [] n.node = "FuncParam"      -> n.array_index
    [] n.node = "VarDef"         -> Append(n.array_length, n.initializers)
    [] n.node = "InitVal"        -> Append(n.elementList, n.expr)
    [] n.node = "BlockStmt"      -> n.body
    [] n.node = "AssignStmt"     -> <<n.target, n.value>>
    [] n.node = "ExprStmt"       -> <<n.exp>>
    [] n.node = "ReturnStmt"     -> <<n.ret>>
    [] n.node = "WhileStmt"      -> <<n.cond_exp, n.statement>>
    [] n.node = "IfStmt"         -> <<n.cond_exp, n.if_statement, n.else_statement>>
    [] n.node = "LVal"           -> n.array_index
    [] n.node = "FuncCallStmt"   -> n.params
    [] n.node \in {"UnaryExpr", "UnaryCondExpr"}   -> <<n.rhs>>
    [] n.node \in {"BinaryExpr", "BinaryCondExpr"} -> <<n.lhs, n.rhs>>
    [] OTHER -> <<>>

(* The nodes of a tree. *)
RECURSIVE Nodes(_)
Nodes(n) == {n} \cup UNION {Nodes(Children(n)[i]) : i \in DOMAIN Children(n)}
=============================================================================
