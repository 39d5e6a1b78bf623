---------------------------- MODULE ParserActions ----------------------------
(***************************************************************************)
(* The semantic values of SysYFParser.  A value is a variant: a type and   *)
(* what it holds, or empty; the kind of a symbol says which type its value *)
(* must have, and every move, copy and destruction of a symbol is by that  *)
(* type.  RuleValue is what the action of a rule computes for $$.          *)
(***************************************************************************)
EXTENDS ParserTables, SyntaxTree, TLC

(* The empty variant, and one that holds x as a T: x at index T. *)
NoValue == <<>>
Emplaced(T, x) == T :> x
HoldsType(v, T) == DOMAIN v = IF T = "none" THEN {} ELSE {T}

ValueType(k) ==
  LET name == SymbolName(k) IN
  CASE name = "CompUnit"                         -> "Ptr<Assembly>"
    [] name = "Block"                            -> "Ptr<BlockStmt>"
    [] name \in {"OptionRet", "Exp", "RelExp", "EqExp", "LAndExp", "LOrExp", "CondExp"} -> "Ptr<Expr>"
    [] name = "FuncDef"                          -> "Ptr<FuncDef>"
    [] name = "FuncFParam"                       -> "Ptr<FuncParam>"
    [] name \in {"InitVal", "InitValList", "CommaInitValList"} -> "Ptr<InitVal>"
    [] name = "LVal"                             -> "Ptr<LVal>"
    [] name = "Number"                           -> "Ptr<Literal>"
    [] name \in {"Stmt", "IfStmt"}               -> "Ptr<Stmt>"
    [] name \in {"ConstDef", "VarDef"}           -> "Ptr<VarDef>"
    [] name \in {"ArrayExpList", "ExpList", "CommaExpList"} -> "PtrVec<Expr>"
    [] name \in {"FParamList", "CommaFParamList"} -> "PtrVec<FuncParam>"
    [] name = "GlobalDecl"                       -> "PtrVec<GlobalDef>"
    [] name \in {"BlockItemList", "BlockItem"}   -> "PtrVec<Stmt>"
    [] name \in {"ConstDecl", "ConstDefList", "VarDecl", "VarDefList"} -> "PtrVec<VarDef>"
    [] name = "BType"                            -> "Type"
    [] name = "FLOATCONST"                       -> "float"
    [] name = "INTCONST"                         -> "int"
    [] name \in {"IDENTIFIER", "STRINGCONST"}    -> "string"
    [] OTHER                                     -> "none"

-----------------------------------------------------------------------------
(* The action of rule n: v[i] is what $i holds, l is @$. *)

UnitValue(n, v) ==
  CASE n = 3 -> [v[1] EXCEPT !.global_defs = @ \o v[2]]
    [] n = 4 -> Assembly(v[1], NoLoc)
    [] n \in {5, 6} -> v[1]
    [] n = 7 -> <<v[1]>>

OfType(t, defs) == [i \in DOMAIN defs |-> [defs[i] EXCEPT !.btype = t]]

DeclValue(n, v, l) ==
  CASE n = 8  -> OfType(v[2], v[3])
    [] n = 14 -> OfType(v[1], v[2])
    [] n \in {9, 15}  -> Append(v[1], v[3])
    [] n \in {10, 16} -> <<v[1]>>
    [] n = 11 -> "INT"
    [] n = 12 -> "FLOAT"
    [] n = 13 -> VarDef(TRUE, v[1], v[2], v[4], l)
    [] n = 17 -> VarDef(FALSE, v[1], v[2], nullptr, l)
    [] n = 18 -> VarDef(FALSE, v[1], v[2], v[4], l)

InitialiserValue(n, v, l) ==
  CASE n = 19 -> Append(v[1], v[3])
    [] n = 20 -> <<>>
    [] n = 21 -> InitVal(TRUE, <<>>, v[1], l)
    [] n = 22 -> v[2]
    [] n \in {23, 25} -> [v[1] EXCEPT !.elementList = Append(@, v[2])]
    [] n \in {24, 26} -> InitVal(FALSE, <<>>, nullptr, l)

ListValue(n, v, l) ==
  CASE n \in {27, 29, 33, 35} -> Append(v[1], v[2])
    [] n \in {28, 30, 34, 36} -> <<>>
    [] n = 31 -> FuncParam(v[1], v[2], v[3], l)
    [] n = 32 -> FuncParam(v[1], v[2], <<nullptr>> \o v[4], l)

FunctionValue(n, v, l) ==
  CASE n = 37 -> FuncDef(v[1], v[2], v[4], v[6], l)
    [] n = 38 -> FuncDef("VOID", v[2], v[4], v[6], l)
    [] n = 39 -> BlockStmt(v[2], l)
    [] n = 40 -> v[1] \o v[2]
    [] n = 41 -> <<>>
    [] n \in {42, 43} -> v[1]
    [] n = 44 -> <<v[1]>>

StmtValue(n, v, l) ==
  CASE n = 45 -> AssignStmt(v[1], v[3], l)
    [] n = 46 -> ExprStmt(v[1], l)
    [] n = 47 -> ReturnStmt(v[2], l)
    [] n \in {48, 50, 56} -> v[1]
    [] n = 49 -> WhileStmt(v[3], v[5], l)
    [] n = 51 -> BreakStmt(l)
    [] n = 52 -> ContinueStmt(l)
    [] n = 53 -> EmptyStmt(l)
    [] n = 54 -> IfStmt(v[3], v[5], nullptr, l)
    [] n = 55 -> IfStmt(v[3], v[5], v[7], l)
    [] n = 57 -> nullptr

ExpValue(n, v, l) ==
  CASE n = 58 -> LVal(v[1], v[2], l)
    [] n = 59 -> UnaryExpr("PLUS", v[2], l)
    [] n = 60 -> UnaryExpr("MINUS", v[2], l)
    [] n = 61 -> UnaryCondExpr("NOT", v[2], l)
    [] n = 62 -> BinaryExpr("PLUS", v[1], v[3], l)
    [] n = 63 -> BinaryExpr("MINUS", v[1], v[3], l)
    [] n = 64 -> BinaryExpr("MULTIPLY", v[1], v[3], l)
    [] n = 65 -> BinaryExpr("DIVIDE", v[1], v[3], l)
    [] n = 66 -> BinaryExpr("MODULO", v[1], v[3], l)
    [] n = 67 -> v[2]
    [] n = 68 -> FuncCallStmt(v[1], v[3], l)
    [] n \in {69, 70} -> v[1]

CondValue(n, v, l) ==
  CASE n = 71 -> BinaryCondExpr("LT", v[1], v[3], l)
    [] n = 72 -> BinaryCondExpr("LTE", v[1], v[3], l)
    [] n = 73 -> BinaryCondExpr("GT", v[1], v[3], l)
    [] n = 74 -> BinaryCondExpr("GTE", v[1], v[3], l)
    [] n = 76 -> BinaryCondExpr("EQ", v[1], v[3], l)
    [] n = 77 -> BinaryCondExpr("NEQ", v[1], v[3], l)
    [] n = 79 -> BinaryCondExpr("LAND", v[1], v[3], l)
    [] n = 81 -> BinaryCondExpr("LOR", v[1], v[3], l)
    [] n \in {75, 78, 80, 82, 83} -> v[1]

NumberValue(n, v, l) ==
  CASE n = 84 -> IntLiteral(v[1], l)
    [] n = 85 -> FloatLiteral(v[1], l)

RuleValue(n, v, l) ==
  CASE n \in 3..7   -> UnitValue(n, v)
    [] n \in 8..18  -> DeclValue(n, v, l)
    [] n \in 19..26 -> InitialiserValue(n, v, l)
    [] n \in 27..36 -> ListValue(n, v, l)
    [] n \in 37..44 -> FunctionValue(n, v, l)
    [] n \in 45..57 -> StmtValue(n, v, l)
    [] n \in 58..70 -> ExpValue(n, v, l)
    [] n \in 71..83 -> CondValue(n, v, l)
    [] n \in 84..85 -> NumberValue(n, v, l)
=============================================================================
