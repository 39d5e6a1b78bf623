------------------------------- MODULE Grammar -------------------------------
(***************************************************************************)
(* What a text of SysYF means: the tree it stands for, with the location   *)
(* of every node, or the first token no program can have at its place.     *)
(* Written from the language -- its constructs, the precedence of its      *)
(* operators and their associativity -- as a predictive parser: nothing    *)
(* here knows of the tables of SysYFParser.  Parse functions take a text   *)
(* and the place they begin at.                                            *)
(***************************************************************************)
EXTENDS SyntaxTree, SequencesExt

Done(i, x) == [ok |-> TRUE, next |-> i, is |-> x]
Refused(i) == [ok |-> FALSE, next |-> i, is |-> <<>>]

Tok(ts, i) == IF i \in DOMAIN ts THEN ts[i].tok ELSE "unread"
Span(from, next) == [begin |-> 2 * from - 1, end |-> 2 * next - 2]
EmptyBefore(i) == [begin |-> 2 * i - 2, end |-> 2 * i - 2]

Expect(ts, i, t) == IF Tok(ts, i) = t THEN Done(i + 1, <<>>) ELSE Refused(i)

(* The binary operators by how tightly they bind, loosest first; the last  *)
(* two levels are those of an expression, the rest those of a condition.   *)
Operators ==
  <<("LOGICOR" :> "LOR"), ("LOGICAND" :> "LAND"), ("EQ" :> "EQ" @@ "NEQ" :> "NEQ"),
    ("LT" :> "LT" @@ "LTE" :> "LTE" @@ "GT" :> "GT" @@ "GTE" :> "GTE"),
    ("PLUS" :> "PLUS" @@ "MINUS" :> "MINUS"),
    ("MULTIPLY" :> "MULTIPLY" @@ "DIVIDE" :> "DIVIDE" @@ "MODULO" :> "MODULO")>>
CondLevel == 1
ExpLevel == 5
UnaryLevel == 7

(* The constructs that contain themselves or one another meet in Parse:    *)
(* construct "what" of ts at i, p being what else its rule depends on.     *)
RECURSIVE Parse(_, _, _, _)

Operand(ts, i, level) == Parse("Operand", ts, i, <<level>>)
MoreOperands(ts, from, left, i, level) == Parse("MoreOperands", ts, i, <<from, left, level>>)
Unary(ts, i) == Parse("Unary", ts, i, <<>>)
Subscripts(ts, i, read) == Parse("Subscripts", ts, i, <<read>>)
Arguments(ts, i, read) == Parse("Arguments", ts, i, <<read>>)
Initialiser(ts, i) == Parse("Initialiser", ts, i, <<>>)
Elements(ts, i, read) == Parse("Elements", ts, i, <<read>>)
Definitions(ts, i, const, type, read) == Parse("Definitions", ts, i, <<const, type, read>>)
Parameters(ts, i, read) == Parse("Parameters", ts, i, <<read>>)
Statement(ts, i) == Parse("Statement", ts, i, <<>>)
Items(ts, i, read) == Parse("Items", ts, i, <<read>>)
Unit(ts, i, read) == Parse("Unit", ts, i, <<read>>)

BinaryNode(level, op, a, b, l) ==
  IF level < ExpLevel THEN BinaryCondExpr(op, a, b, l) ELSE BinaryExpr(op, a, b, l)

OperandRule(ts, i, level) ==
  IF level = UnaryLevel THEN Unary(ts, i)
  ELSE LET first == Operand(ts, i, level + 1) IN
       IF first.ok THEN MoreOperands(ts, i, first.is, first.next, level) ELSE first

(* Operators of one level associate to the left. *)
MoreOperandsRule(ts, from, left, i, level) ==
  IF Tok(ts, i) \notin DOMAIN Operators[level] THEN Done(i, left)
  ELSE LET right == Operand(ts, i + 1, level + 1) IN
       IF ~right.ok THEN right
       ELSE MoreOperands(ts, from,
                         BinaryNode(level, Operators[level][Tok(ts, i)], left, right.is, Span(from, right.next)),
                         right.next, level)

Exp(ts, i) == Operand(ts, i, ExpLevel)
Cond(ts, i) == Operand(ts, i, CondLevel)

(* A parenthesised expression keeps its own location. *)
UnaryRule(ts, i) ==
  LET t == Tok(ts, i) IN
  CASE t \in {"PLUS", "MINUS", "NOT"} ->
         LET r == Unary(ts, i + 1) IN
         IF ~r.ok THEN r
         ELSE Done(r.next, IF t = "NOT" THEN UnaryCondExpr(t, r.is, Span(i, r.next))
                                        ELSE UnaryExpr(t, r.is, Span(i, r.next)))
    [] t = "LPARENTHESE" ->
         LET r == Exp(ts, i + 1) IN
         IF ~r.ok THEN r
         ELSE IF Tok(ts, r.next) = "RPARENTHESE" THEN Done(r.next + 1, r.is) ELSE Refused(r.next)
    [] t = "INTCONST"   -> Done(i + 1, IntLiteral(ts[i].val, Span(i, i + 1)))
    [] t = "FLOATCONST" -> Done(i + 1, FloatLiteral(ts[i].float, Span(i, i + 1)))
    [] t = "IDENTIFIER" /\ Tok(ts, i + 1) = "LPARENTHESE" ->
         LET r == Arguments(ts, i + 2, <<>>) IN
         IF r.ok THEN Done(r.next, FuncCallStmt(ts[i].name, r.is, Span(i, r.next))) ELSE r
    [] t = "IDENTIFIER" /\ Tok(ts, i + 1) # "LPARENTHESE" ->
         LET r == Subscripts(ts, i + 1, <<>>) IN
         IF r.ok THEN Done(r.next, LVal(ts[i].name, r.is, Span(i, r.next))) ELSE r
    [] OTHER -> Refused(i)

(* [e] [e] ..., after the subscripts already read *)
SubscriptsRule(ts, i, read) ==
  IF Tok(ts, i) # "LBRACKET" THEN Done(i, read)
  ELSE LET r == Exp(ts, i + 1) IN
       IF ~r.ok THEN r
       ELSE IF Tok(ts, r.next) = "RBRACKET" THEN Subscripts(ts, r.next + 1, Append(read, r.is))
       ELSE Refused(r.next)

(* e, e, ... ) after those already read *)
ArgumentsRule(ts, i, read) ==
  IF read = <<>> /\ Tok(ts, i) = "RPARENTHESE" THEN Done(i + 1, read)
  ELSE LET r == Exp(ts, i) IN
       IF ~r.ok THEN r
       ELSE CASE Tok(ts, r.next) = "COMMA"       -> Arguments(ts, r.next + 1, Append(read, r.is))
              [] Tok(ts, r.next) = "RPARENTHESE" -> Done(r.next + 1, Append(read, r.is))
              [] OTHER -> Refused(r.next)

-----------------------------------------------------------------------------
(* Declarations.  The location of a braced initialiser is empty: it lies   *)
(* just after its opening brace.                                           *)

InitialiserRule(ts, i) ==
  IF Tok(ts, i) = "LBRACE"
  THEN LET r == Elements(ts, i + 1, <<>>) IN
       IF r.ok THEN Done(r.next, InitVal(FALSE, r.is, nullptr, EmptyBefore(i + 1))) ELSE r
  ELSE LET r == Exp(ts, i) IN IF r.ok THEN Done(r.next, InitVal(TRUE, <<>>, r.is, Span(i, r.next))) ELSE r

ElementsRule(ts, i, read) ==
  IF read = <<>> /\ Tok(ts, i) = "RBRACE" THEN Done(i + 1, read)
  ELSE LET r == Initialiser(ts, i) IN
       IF ~r.ok THEN r
       ELSE CASE Tok(ts, r.next) = "COMMA"  -> Elements(ts, r.next + 1, Append(read, r.is))
              [] Tok(ts, r.next) = "RBRACE" -> Done(r.next + 1, Append(read, r.is))
              [] OTHER -> Refused(r.next)

(* One name of a declaration; a constant must be initialised. *)
Definition(ts, i, const) ==
  LET dims == Subscripts(ts, i + 1, <<>>)
      init == Initialiser(ts, dims.next + 1)
  IN CASE Tok(ts, i) # "IDENTIFIER" -> Refused(i)
       [] Tok(ts, i) = "IDENTIFIER" /\ ~dims.ok -> dims
       [] Tok(ts, i) = "IDENTIFIER" /\ dims.ok /\ Tok(ts, dims.next) = "ASSIGN" ->
            IF init.ok THEN Done(init.next, VarDef(const, ts[i].name, dims.is, init.is, Span(i, init.next)))
                       ELSE init
       [] OTHER -> IF const THEN Refused(dims.next)
                   ELSE Done(dims.next, VarDef(const, ts[i].name, dims.is, nullptr, Span(i, dims.next)))

DefinitionsRule(ts, i, const, type, read) ==
  LET r == Definition(ts, i, const)
      now == Append(read, [r.is EXCEPT !.btype = type])
  IN CASE ~r.ok -> r
       [] r.ok /\ Tok(ts, r.next) = "COMMA"     -> Definitions(ts, r.next + 1, const, type, now)
       [] r.ok /\ Tok(ts, r.next) = "SEMICOLON" -> Done(r.next + 1, now)
       [] OTHER -> Refused(r.next)

IsBType(t) == t \in {"INT", "FLOAT"}

(* The definitions of one declaration, at const or at its type. *)
Declaration(ts, i) ==
  LET const == Tok(ts, i) = "CONST"
      at == IF const THEN i + 1 ELSE i
  IN IF IsBType(Tok(ts, at)) THEN Definitions(ts, at + 1, const, Tok(ts, at), <<>>) ELSE Refused(at)

Parameter(ts, i) ==
  LET open == Tok(ts, i + 2) = "LRBRACKET"
      dims == Subscripts(ts, IF open THEN i + 3 ELSE i + 2, <<>>)
  IN CASE ~IsBType(Tok(ts, i)) -> Refused(i)
       [] IsBType(Tok(ts, i)) /\ Tok(ts, i + 1) # "IDENTIFIER" -> Refused(i + 1)
       [] OTHER -> IF ~dims.ok THEN dims
                   ELSE Done(dims.next, FuncParam(Tok(ts, i), ts[i + 1].name,
                                                  IF open THEN <<nullptr>> \o dims.is ELSE dims.is,
                                                  Span(i, dims.next)))

ParametersRule(ts, i, read) ==
  IF read = <<>> /\ Tok(ts, i) = "RPARENTHESE" THEN Done(i + 1, read)
  ELSE LET r == Parameter(ts, i) IN
       IF ~r.ok THEN r
       ELSE CASE Tok(ts, r.next) = "COMMA"       -> Parameters(ts, r.next + 1, Append(read, r.is))
              [] Tok(ts, r.next) = "RPARENTHESE" -> Done(r.next + 1, Append(read, r.is))
              [] OTHER -> Refused(r.next)

-----------------------------------------------------------------------------
(* Statements.  An else belongs to the nearest if that can take it. *)

Block(ts, i) ==
  IF Tok(ts, i) # "LBRACE" THEN Refused(i)
  ELSE LET r == Items(ts, i + 1, <<>>) IN
       IF r.ok THEN Done(r.next, BlockStmt(r.is, Span(i, r.next))) ELSE r

ItemsRule(ts, i, read) ==
  IF Tok(ts, i) = "RBRACE" THEN Done(i + 1, read)
  ELSE LET declares == Tok(ts, i) = "CONST" \/ IsBType(Tok(ts, i))
           r == IF declares THEN Declaration(ts, i) ELSE Statement(ts, i)
       IN IF r.ok THEN Items(ts, r.next, IF declares THEN read \o r.is ELSE Append(read, r.is)) ELSE r

(* ( condition ) statement, the statement's result carrying both *)
Guarded(ts, i) ==
  LET c == Cond(ts, i + 1)
      s == Statement(ts, c.next + 1)
  IN CASE Tok(ts, i) # "LPARENTHESE" -> Refused(i)
       [] Tok(ts, i) = "LPARENTHESE" /\ ~c.ok -> c
       [] Tok(ts, i) = "LPARENTHESE" /\ c.ok /\ Tok(ts, c.next) # "RPARENTHESE" -> Refused(c.next)
       [] OTHER -> IF s.ok THEN Done(s.next, <<c.is, s.is>>) ELSE s

IfStatement(ts, i) ==
  LET r == Guarded(ts, i + 1)
      e == Statement(ts, r.next + 1)
  IN CASE ~r.ok -> r
       [] r.ok /\ Tok(ts, r.next) # "ELSE" ->
            Done(r.next, IfStmt(r.is[1], r.is[2], nullptr, Span(i, r.next)))
       [] OTHER -> IF e.ok THEN Done(e.next, IfStmt(r.is[1], r.is[2], e.is, Span(i, e.next))) ELSE e

WhileStatement(ts, i) ==
  LET r == Guarded(ts, i + 1) IN
  IF r.ok THEN Done(r.next, WhileStmt(r.is[1], r.is[2], Span(i, r.next))) ELSE r

(* An expression or, when that is a variable not in parentheses, an assignment. *)
Simple(ts, i) ==
  LET e == Exp(ts, i)
      assigns == e.ok /\ Tok(ts, i) = "IDENTIFIER" /\ e.is.node = "LVal" /\ Tok(ts, e.next) = "ASSIGN"
      v == Exp(ts, e.next + 1)
  IN CASE ~e.ok -> e
       [] e.ok /\ assigns ->
            IF ~v.ok THEN v
            ELSE IF Tok(ts, v.next) = "SEMICOLON"
                 THEN Done(v.next + 1, AssignStmt(e.is, v.is, Span(i, v.next + 1)))
                 ELSE Refused(v.next)
       [] OTHER -> IF Tok(ts, e.next) = "SEMICOLON"
                   THEN Done(e.next + 1, ExprStmt(e.is, Span(i, e.next + 1))) ELSE Refused(e.next)

Return(ts, i) ==
  LET e == Exp(ts, i + 1)
      bare == Tok(ts, i + 1) = "SEMICOLON"
      end == IF bare THEN i + 1 ELSE e.next
  IN IF ~bare /\ ~e.ok THEN e
     ELSE IF Tok(ts, end) = "SEMICOLON"
          THEN Done(end + 1, ReturnStmt(IF bare THEN nullptr ELSE e.is, Span(i, end + 1))) ELSE Refused(end)

(* break; or continue; *)
Jump(ts, i, stmt) == IF Tok(ts, i + 1) = "SEMICOLON" THEN Done(i + 2, stmt) ELSE Refused(i + 1)

StatementRule(ts, i) ==
  LET t == Tok(ts, i) IN
  CASE t = "LBRACE"    -> Block(ts, i)
    [] t = "IF"        -> IfStatement(ts, i)
    [] t = "WHILE"     -> WhileStatement(ts, i)
    [] t = "RETURN"    -> Return(ts, i)
    [] t = "BREAK"     -> Jump(ts, i, BreakStmt(Span(i, i + 2)))
    [] t = "CONTINUE"  -> Jump(ts, i, ContinueStmt(Span(i, i + 2)))
    [] t = "SEMICOLON" -> Done(i + 1, EmptyStmt(Span(i, i + 1)))
    [] OTHER           -> Simple(ts, i)

-----------------------------------------------------------------------------
Function(ts, i) ==
  LET ps == Parameters(ts, i + 3, <<>>)
      body == Block(ts, ps.next)
  IN IF ~ps.ok THEN ps
     ELSE IF body.ok THEN Done(body.next, FuncDef(Tok(ts, i), ts[i + 1].name, ps.is, body.is, Span(i, body.next)))
     ELSE body

(* The global definitions one declaration or function at i makes. *)
Globals(ts, i) ==
  LET named == Tok(ts, i + 1) = "IDENTIFIER"
      function == Tok(ts, i) \in {"INT", "FLOAT", "VOID"} /\ named /\ Tok(ts, i + 2) = "LPARENTHESE"
      f == Function(ts, i)
  IN CASE function -> IF f.ok THEN Done(f.next, <<f.is>>) ELSE f
       [] ~function /\ Tok(ts, i) = "VOID" -> IF named THEN Refused(i + 2) ELSE Refused(i + 1)
       [] OTHER -> Declaration(ts, i)

UnitRule(ts, i, read) ==
  IF read # <<>> /\ Tok(ts, i) = "END" THEN Done(i + 1, Assembly(read, Span(1, i + 1)))
  ELSE LET r == Globals(ts, i) IN IF r.ok THEN Unit(ts, r.next, read \o r.is) ELSE r

Parse(what, ts, i, p) ==
  CASE what = "Operand" -> OperandRule(ts, i, p[1])
    [] what = "MoreOperands" -> MoreOperandsRule(ts, p[1], p[2], i, p[3])
    [] what = "Unary" -> UnaryRule(ts, i)
    [] what = "Subscripts" -> SubscriptsRule(ts, i, p[1])
    [] what = "Arguments" -> ArgumentsRule(ts, i, p[1])
    [] what = "Initialiser" -> InitialiserRule(ts, i)
    [] what = "Elements" -> ElementsRule(ts, i, p[1])
    [] what = "Definitions" -> DefinitionsRule(ts, i, p[1], p[2], p[3])
    [] what = "Parameters" -> ParametersRule(ts, i, p[1])
    [] what = "Statement" -> StatementRule(ts, i)
    [] what = "Items" -> ItemsRule(ts, i, p[1])
    [] what = "Unit" -> UnitRule(ts, i, p[1])

(* The tree a text stands for, or the place of its first bad token. *)
Program(ts) == Unit(ts, 1, <<>>)
=============================================================================
