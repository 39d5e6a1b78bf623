-------------------------- MODULE SyntaxTreePrinter --------------------------
(***************************************************************************)
(* SyntaxTreePrinter: the text printed for a tree (main's -emit-ast), as   *)
(* the tokens the scanner finds in it, one operator per visit.  Blanks,    *)
(* line ends and the indent between tokens are left out.  A constant is    *)
(* written by operator<<: a negative int begins with a minus sign, and of  *)
(* a float six digits are left, without a point if none stand behind it.   *)
(***************************************************************************)
EXTENDS SyntaxTree, SequencesExt

Token(tok) == <<[tok |-> tok]>>
Name(x) == <<[tok |-> "IDENTIFIER", name |-> x]>>
IntConst(n) == <<[tok |-> "INTCONST", val |-> n]>>
FloatConst(x) == <<[tok |-> "FLOATCONST", float |-> x]>>

(* The spellings of a type and of an operator scan as tokens of their own names. *)
type2str(t) == Token(t)
op2str(op) ==
  Token(CASE op = "LAND" -> "LOGICAND"
          [] op = "LOR"  -> "LOGICOR"
          [] OTHER       -> op)

InParentheses(text) == Token("LPARENTHESE") \o text \o Token("RPARENTHESE")
Terminated(text) == text \o Token("SEMICOLON")

(* Texts one after the other, with commas between them. *)
Listed(texts) == FlattenSeq([i \in DOMAIN texts |-> IF i = 1 THEN texts[i] ELSE Token("COMMA") \o texts[i]])

-----------------------------------------------------------------------------
(* operator<< of a double: rounded to six digits, half way to the even one. *)
Length(n) == 1 + Cardinality({k \in 1..9 : n >= 10^k})
SixDigits(x) ==
  LET dropped == Max({0, Length(x.digits) - 6})
      kept == x.digits \div 10^dropped
      rest == 2 * (x.digits % 10^dropped)
      up == rest > 10^dropped \/ (rest = 10^dropped /\ kept % 2 = 1)
  IN Decimal(kept + (IF up THEN 1 ELSE 0), x.exponent + dropped)

(* What is printed has a point or an exponent, unless it is an integer of  *)
(* at most six digits.                                                     *)
PrintFloat(x) ==
  LET printed == SixDigits(x) IN
  IF x = Infinity THEN Name("inf")
  ELSE IF printed.exponent >= 0 /\ Length(printed.digits) + printed.exponent <= 6
    THEN IntConst(printed.digits * 10^printed.exponent)
    ELSE FloatConst(printed)

-----------------------------------------------------------------------------
RECURSIVE Printed(_)

Each(nodes) == [i \in DOMAIN nodes |-> Printed(nodes[i])]
Subscripts2str(index) ==
  FlattenSeq([i \in DOMAIN index |->
    IF index[i] = nullptr THEN Token("LRBRACKET") ELSE Token("LBRACKET") \o Printed(index[i]) \o Token("RBRACKET")])

PrintAssembly(n) == FlattenSeq(Each(n.global_defs))
PrintFuncDef(n) == type2str(n.ret_type) \o Name(n.name) \o InParentheses(Printed(n.param_list)) \o Printed(n.body)
PrintFuncFParamList(n) == Listed(Each(n.params))
PrintFuncParam(n) == type2str(n.param_type) \o Name(n.name) \o Subscripts2str(n.array_index)

PrintVarDef(n) ==
  Terminated((IF n.is_constant THEN Token("CONST") ELSE <<>>)
             \o type2str(n.btype) \o Name(n.name) \o Subscripts2str(n.array_length)
             \o (IF n.is_inited THEN Token("ASSIGN") \o Printed(n.initializers) ELSE <<>>))
PrintInitVal(n) ==
  IF n.isExp THEN Printed(n.expr) ELSE Token("LBRACE") \o Listed(Each(n.elementList)) \o Token("RBRACE")

PrintBlockStmt(n) == Token("LBRACE") \o FlattenSeq(Each(n.body)) \o Token("RBRACE")
PrintAssignStmt(n) == Terminated(Printed(n.target) \o Token("ASSIGN") \o Printed(n.value))
PrintExprStmt(n) == Terminated(Printed(n.exp))
PrintEmptyStmt == Terminated(<<>>)
PrintReturnStmt(n) == Terminated(Token("RETURN") \o (IF n.ret = nullptr THEN <<>> ELSE Printed(n.ret)))
PrintBreakStmt == Terminated(Token("BREAK"))
PrintContinueStmt == Terminated(Token("CONTINUE"))
PrintWhileStmt(n) == Token("WHILE") \o InParentheses(Printed(n.cond_exp)) \o Printed(n.statement)
PrintIfStmt(n) ==
  Token("IF") \o InParentheses(Printed(n.cond_exp)) \o Printed(n.if_statement)
  \o (IF n.else_statement = nullptr THEN <<>> ELSE Token("ELSE") \o Printed(n.else_statement))

PrintLVal(n) == Name(n.name) \o Subscripts2str(n.array_index)
PrintFuncCallStmt(n) == Name(n.name) \o InParentheses(Listed(Each(n.params)))
PrintUnaryExpr(n) == InParentheses(op2str(n.op) \o Printed(n.rhs))
PrintUnaryCondExpr(n) == InParentheses(op2str(n.op) \o Printed(n.rhs))
(* Faulty: no parentheses, as if precedence had kept its shape. *)
PrintBinaryExpr_Bare(n) == Printed(n.lhs) \o op2str(n.op) \o Printed(n.rhs)
PrintBinaryExpr(n) == InParentheses(Printed(n.lhs) \o op2str(n.op) \o Printed(n.rhs))
PrintBinaryCondExpr(n) == InParentheses(Printed(n.lhs) \o op2str(n.op) \o Printed(n.rhs))
PrintLiteral(n) ==
  CASE n.literal_type = "FLOAT"                  -> PrintFloat(n.float_const)
    [] n.literal_type = "INT" /\ n.int_const < 0  -> Token("MINUS") \o IntConst(-n.int_const)
    [] n.literal_type = "INT" /\ n.int_const >= 0 -> IntConst(n.int_const)

(* accept: the visit of the node's struct *)
Printed(n) ==
  CASE n.node = "Assembly"       -> PrintAssembly(n)
    [] n.node = "FuncDef"        -> PrintFuncDef(n)
    [] n.node = "FuncFParamList" -> PrintFuncFParamList(n)
    [] n.node = "FuncParam"      -> PrintFuncParam(n)
    [] n.node = "VarDef"         -> PrintVarDef(n)
    [] n.node = "InitVal"        -> PrintInitVal(n)
    [] n.node = "BlockStmt"      -> PrintBlockStmt(n)
    [] n.node = "AssignStmt"     -> PrintAssignStmt(n)
    [] n.node = "ExprStmt"       -> PrintExprStmt(n)
    [] n.node = "EmptyStmt"      -> PrintEmptyStmt
    [] n.node = "ReturnStmt"     -> PrintReturnStmt(n)
    [] n.node = "BreakStmt"      -> PrintBreakStmt
    [] n.node = "ContinueStmt"   -> PrintContinueStmt
    [] n.node = "WhileStmt"      -> PrintWhileStmt(n)
    [] n.node = "IfStmt"         -> PrintIfStmt(n)
    [] n.node = "LVal"           -> PrintLVal(n)
    [] n.node = "FuncCallStmt"   -> PrintFuncCallStmt(n)
    [] n.node = "UnaryExpr"      -> PrintUnaryExpr(n)
    [] n.node = "UnaryCondExpr"  -> PrintUnaryCondExpr(n)
    [] n.node = "BinaryExpr"     -> PrintBinaryExpr(n)
    [] n.node = "BinaryCondExpr" -> PrintBinaryCondExpr(n)
    [] n.node = "Literal"        -> PrintLiteral(n)
=============================================================================
