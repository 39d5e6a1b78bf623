---------------------------- MODULE MCSysYFParser ----------------------------
(***************************************************************************)
(* SysYFParser on every text of a few shapes, and once more on what the    *)
(* printer makes of an accepted one: main -emit-ast, its output compiled.  *)
(***************************************************************************)
EXTENDS SysYFParser, Grammar, SyntaxTreePrinter

VARIABLE before   \* The tree that was printed, nullptr while the first text is parsed.

mcvars == <<vars, before>>

-----------------------------------------------------------------------------
(* Texts.  A word is a token; a piece is a short run of them. *)

Ident(x) == [tok |-> "IDENTIFIER", name |-> x]
IntVal(n) == [tok |-> "INTCONST", val |-> n]
FloatVal(x) == [tok |-> "FLOATCONST", float |-> x]
Word(w) ==
  CASE w = "a"   -> Ident("a")
    [] w = "1"   -> IntVal(1)
    [] w = "-1"  -> IntVal(-1)     \* 4294967295 as scanned
    [] w = "0.0"       -> FloatVal(Decimal(0, 0))
    [] w = "0.5"       -> FloatVal(Decimal(5, -1))
    [] w = "1.0"       -> FloatVal(Decimal(1, 0))
    [] w = "3.1415926" -> FloatVal(Decimal(31415926, -7))
    [] w = "123456.5"  -> FloatVal(Decimal(1234565, -1))
    [] w = "999999.5"  -> FloatVal(Decimal(9999995, -1))
    [] w = "1000000.0" -> FloatVal(Decimal(1000000, 0))
    [] w = "0.00001"   -> FloatVal(Decimal(1, -5))
    [] w = "1e39"      -> FloatVal(Infinity)
    [] OTHER     -> [tok |-> w]
Text(ws) == [i \in DOMAIN ws |-> Word(ws[i])]

(* A shape of texts: between what opens and what closes it, pieces, of     *)
(* which the last begins after less than "most" tokens.  The name that the *)
(* opening declares tells the shapes apart.                                *)
Opening(name, ws) == [i \in DOMAIN ws |-> IF ws[i] = "name" THEN Ident(name) ELSE Word(ws[i])]
Shape(name, open, pieces, most, close) ==
  [open |-> Opening(name, open), pieces |-> {Text(p) : p \in pieces}, most |-> most, close |-> Text(close)]

Shapes == {
  Shape("e", <<"INT", "name", "ASSIGN">>,
        {<<w>> : w \in {"a", "1", "PLUS", "MULTIPLY", "LPARENTHESE", "RPARENTHESE", "NOT"}}, 5,
        <<"SEMICOLON", "END">>),
  Shape("o", <<"INT", "name", "ASSIGN", "a", "MULTIPLY", "LPARENTHESE">>,
        {<<w>> : w \in {"a", "1", "PLUS", "MINUS", "DIVIDE", "RPARENTHESE"}}, 5,
        <<"SEMICOLON", "END">>),
  Shape("l", <<"FLOAT", "name", "ASSIGN">>,
        {<<w>> : w \in {"a", "-1", "0.5", "1.0", "MINUS", "DIVIDE", "MODULO", "LBRACKET", "RBRACKET"}}, 3,
        <<"SEMICOLON", "END">>),
  Shape("f", <<"FLOAT", "name", "ASSIGN">>,
        {<<w>> : w \in {"0.0", "0.5", "3.1415926", "123456.5", "999999.5", "1000000.0", "0.00001", "1e39", "PLUS"}}, 3,
        <<"SEMICOLON", "END">>),
  Shape("i", <<"CONST", "INT", "name">>,
        {<<"LBRACKET", "1", "RBRACKET">>, <<"ASSIGN">>, <<"LBRACE">>, <<"RBRACE">>, <<"1">>, <<"COMMA">>, <<"a">>}, 6,
        <<"SEMICOLON", "END">>),
  Shape("s", <<"VOID", "name", "LPARENTHESE", "RPARENTHESE", "LBRACE">>,
        {<<"IF", "LPARENTHESE", "a", "RPARENTHESE">>, <<"WHILE", "LPARENTHESE", "1", "RPARENTHESE">>, <<"ELSE">>,
         <<"SEMICOLON">>, <<"LBRACE">>, <<"RBRACE">>, <<"RETURN">>, <<"a">>, <<"ASSIGN", "1">>,
         <<"BREAK">>, <<"CONTINUE", "SEMICOLON">>, <<"INT", "a">>}, 5,
        <<"SEMICOLON", "RBRACE", "END">>),
  Shape("c", <<"VOID", "name", "LPARENTHESE", "RPARENTHESE", "LBRACE", "IF", "LPARENTHESE", "a">>,
        {<<w>> : w \in {"LT", "GT", "LTE", "GTE", "EQ", "NEQ", "LOGICAND", "LOGICOR", "a", "PLUS"}}, 4,
        <<"a", "RPARENTHESE", "SEMICOLON", "RBRACE", "END">>),
  Shape("p", <<"INT", "name", "LPARENTHESE">>,
        {<<w>> : w \in {"INT", "FLOAT", "a", "COMMA", "LRBRACKET", "LBRACKET", "1", "RBRACKET"}}, 5,
        <<"RPARENTHESE", "LBRACE", "RBRACE", "END">>),
  Shape("r", <<"FLOAT", "name", "LPARENTHESE", "RPARENTHESE", "LBRACE">>,
        {<<"a", "LPARENTHESE">>, <<"RPARENTHESE">>, <<"a">>, <<"COMMA">>, <<"1">>, <<"SEMICOLON">>}, 5,
        <<"SEMICOLON", "RBRACE", "END">>),
  Shape("", <<>>,
        {<<"INT">>, <<"VOID">>, <<"CONST">>, <<"a">>, <<"SEMICOLON">>, <<"COMMA">>,
         <<"LPARENTHESE", "RPARENTHESE", "LBRACE", "RBRACE">>}, 4,
        <<"END">>)}

MCTexts == {s.open : s \in Shapes}

MCMoreText(ts) ==
  LET s == CHOOSE x \in Shapes : /\ IsPrefix(x.open, ts)
                                 /\ \A y \in Shapes : IsPrefix(y.open, ts) => Len(y.open) <= Len(x.open)
      read == Len(ts) - Len(s.open)
  IN {s.close} \cup (IF read < s.most THEN s.pieces ELSE {})

-----------------------------------------------------------------------------
MCInit == Init /\ before = nullptr

Step == Next /\ UNCHANGED before

(* The printed tree is parsed by a new run of the compiler. *)
Reprint ==
  /\ yyresult = "accepted" /\ before = nullptr
  /\ before' = root
  /\ tokens' = Append(Printed(root), Word("END"))
  /\ scanned' = 0
  /\ yystack_' = <<[state |-> 0, value |-> NoValue, loc |-> NoLoc]>>
  /\ room' = StackRoom
  /\ yyla' = NoSymbol
  /\ root' = nullptr
  /\ yyresult' = "parsing"
  /\ UNCHANGED report

MCSpec == MCInit /\ [][Step \/ Reprint]_mcvars

-----------------------------------------------------------------------------
(***************************************************************************)
(* What parse accepts is a program, and root its tree, with every operator *)
(* bound by precedence and associativity, every else to its if, and every  *)
(* node located at its text; what it refuses is none, and the message is   *)
(* about the first token that no program can have there.                   *)
(***************************************************************************)
ParsesGrammar ==
  LET meant == Program(SubSeq(tokens, 1, scanned)) IN
  /\ yyresult = "accepted" => meant.ok /\ meant.is = root
  /\ yyresult = "aborted"  => ~meant.ok /\ meant.next = scanned /\ report.at = Span(scanned, scanned + 1)

(***************************************************************************)
(* The tokens a message offers instead can indeed come next, although      *)
(* states are merged and reductions made before an error is seen.          *)
(***************************************************************************)
ExpectedTokensFit ==
  report # NoReport =>
    \A k \in report.expecting :
      Program(Append(SubSeq(tokens, 1, scanned - 1), IF k = KindOf["IDENTIFIER"] THEN Ident("a") ELSE [tok |-> SymbolName(k), val |-> 1, float |-> Decimal(1, 0)])).next > scanned

PointerFields ==
  {"global_defs", "param_list", "body", "params", "array_index", "array_length", "initializers",
   "elementList", "expr", "target", "value", "exp", "ret", "cond_exp", "statement", "if_statement",
   "else_statement", "lhs", "rhs"}
RECURSIVE Unlocated(_)
Unlocated(n) ==
  [is |-> [f \in DOMAIN n \ ({"loc"} \cup PointerFields) |-> n[f]],
   children |-> [i \in DOMAIN Children(n) |-> Unlocated(Children(n)[i])]]

(* The floats that are printed as something else: one without a fraction   *)
(* below a million, one that takes more than six digits, and infinity.     *)
UnprintableFloat(x) ==
  \/ x.exponent \in 0..5 /\ x.digits < 10^(6 - x.exponent)
  \/ x.digits >= 10^6
  \/ x = Infinity

(* What the printer does not print as it was written. *)
Unprintable(n) ==
  \/ n.node = "BinaryCondExpr"
  \/ n.node = "Literal" /\ n.literal_type = "FLOAT" /\ UnprintableFloat(n.float_const)
  \/ n.node = "Literal" /\ n.literal_type = "INT" /\ n.int_const < 0

Restored == yyresult = "accepted" /\ Unlocated(root) = Unlocated(before)

(***************************************************************************)
(* The text the printer makes of a tree parses to that tree again if and   *)
(* only if the tree holds no comparison or logical operator, which are     *)
(* printed in parentheses a condition may not have, no float that operator *)
(* << writes as another or as no float, and no literal that wrapped to a   *)
(* negative number.                                                        *)
(***************************************************************************)
ReprintParsesAgain ==
  before # nullptr /\ yyresult # "parsing" => (Restored <=> ~\E n \in Nodes(before) : Unprintable(n))

(***************************************************************************)
(* -emit-ast restores the code from the tree (src/part0.md:51): what it    *)
(* prints of any program parses to the tree of that program.               *)
(***************************************************************************)
ReprintRestores == before # nullptr /\ yyresult # "parsing" => Restored
=============================================================================
