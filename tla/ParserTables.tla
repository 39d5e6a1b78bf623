---------------------------- MODULE ParserTables ----------------------------
(***************************************************************************)
(* The LALR(1) automaton of SysYFParser: its symbols and its tables, and   *)
(* the lookups the parser makes in them.  The tables are those of the      *)
(* checked-in parser, as C++ has them: an index of the source counts from  *)
(* zero, a place in a sequence from one.                                   *)
(***************************************************************************)
EXTENDS Integers, Sequences

(* The kinds of symbol, by number from zero: terminals, then nonterminals. *)
symbol_kind ==
  <<"EOF", "error", "undef", "END", "ERROR", "PLUS", "MINUS", "MULTIPLY", "DIVIDE", "MODULO", "LTE", "GT",
    "GTE", "EQ", "NEQ", "ASSIGN", "SEMICOLON", "COMMA", "LPARENTHESE", "RPARENTHESE", "LBRACKET", "RBRACKET",
    "LBRACE", "RBRACE", "ELSE", "IF", "INT", "RETURN", "VOID", "WHILE", "IDENTIFIER", "FLOATCONST",
    "INTCONST", "LETTER", "EOL", "COMMENT", "BLANK", "CONST", "BREAK", "CONTINUE", "NOT", "AND", "OR", "MOD",
    "FLOAT", "LOGICAND", "LOGICOR", "LT", "STRINGCONST", "LRBRACKET", "UPLUS", "UMINUS", "UNOT", "$accept",
    "Begin", "CompUnit", "GlobalDecl", "ConstDecl", "ConstDefList", "BType", "ConstDef", "VarDecl",
    "VarDefList", "VarDef", "ArrayExpList", "InitVal", "InitValList", "CommaInitValList", "ExpList",
    "CommaExpList", "FuncFParam", "FParamList", "CommaFParamList", "FuncDef", "Block", "BlockItemList",
    "BlockItem", "Stmt", "IfStmt", "OptionRet", "LVal", "Exp", "RelExp", "EqExp", "LAndExp", "LOrExp",
    "CondExp", "Number">>

YYNTOKENS == 53
S_YYerror == 1
yylast_ == 194
yyfinal_ == 14
yypact_ninf_ == -116
yytable_ninf_ == -35

SymbolName(k) == symbol_kind[k + 1]
KindOf == [name \in {symbol_kind[i] : i \in 1..Len(symbol_kind)} |->
             (CHOOSE i \in 1..Len(symbol_kind) : symbol_kind[i] = name) - 1]

(***************************************************************************)
(* A token the scanner makes carries an external number; yytranslate_      *)
(* gives the kind of symbol it stands for, "undef" for a number no token   *)
(* has.                                                                    *)
(***************************************************************************)
token_kind ==
  [t \in {SymbolName(k) : k \in 0..(YYNTOKENS - 1)} |->
     CASE t = "EOF"   -> 0
       [] t = "error" -> 256
       [] t = "undef" -> 304
       [] t = "END"   -> 305
       [] t \in {"UPLUS", "UMINUS", "UNOT"} -> KindOf[t] + 256
       [] OTHER       -> KindOf[t] + 254]

yytranslate_(t) ==
  CASE t <= 0        -> KindOf["EOF"]
    [] t = 256       -> S_YYerror
    [] t \in 258..303 -> t - 254
    [] t = 305       -> KindOf["END"]
    [] t \in 306..308 -> t - 256
    [] OTHER         -> KindOf["undef"]

(* Where the row of a state begins in yytable_. *)
yypact_ ==
  <<-8, -116, -25, -18, -116, 9, 20, -116, -116, -3, -116, -116, -5, 5, -116, -116, -116, 27, 136, -116, 28,
    -116, 138, -116, 28, 10, -116, 30, 39, -18, 29, -116, 5, 46, 116, 119, -116, -116, 52, 48, 63, 116, -116,
    52, 119, 119, 119, 62, 71, -116, -116, 119, -116, -116, 172, -116, 47, -116, -116, 55, -116, -116, -116,
    -116, -116, 155, 85, 116, 95, 96, -116, 119, 119, 119, 119, 119, -116, 61, -116, 96, -116, -116, 110, 99,
    119, 135, 135, -116, -116, -116, -116, -116, 111, 119, 127, 154, 156, -116, 30, -116, -116, -116, -116,
    -116, 158, 104, 96, -116, -116, 64, 119, 159, 172, 119, -116, -116, 119, -116, -116, 172, 4, 122, 126,
    137, 163, -116, 165, 160, 119, 119, 119, 119, 119, 119, 119, 119, 101, 101, -116, 172, 172, 172, 172, 4,
    4, 122, 126, 161, -116, 101, -116>>

(* The rule a state reduces by default; zero means an error. *)
yydefact_ ==
  <<0, 11, 0, 0, 12, 0, 0, 4, 5, 0, 6, 7, 0, 0, 1, 2, 3, 20, 0, 16, 36, 20, 0, 10, 36, 17, 14, 0, 0, 0, 0, 8,
    0, 0, 0, 0, 20, 15, 0, 0, 33, 0, 9, 0, 0, 0, 0, 26, 20, 85, 84, 0, 18, 69, 21, 70, 0, 41, 38, 20, 35, 13,
    37, 59, 60, 0, 0, 0, 30, 58, 61, 0, 0, 0, 0, 0, 19, 0, 20, 31, 67, 22, 23, 0, 0, 62, 63, 64, 65, 66, 53,
    39, 0, 57, 0, 0, 0, 43, 0, 42, 48, 40, 44, 50, 69, 0, 32, 25, 68, 27, 0, 0, 56, 0, 51, 52, 0, 46, 29, 75,
    78, 80, 82, 83, 0, 47, 0, 0, 0, 0, 0, 0, 0, 0, 0, 0, 0, 0, 45, 72, 73, 74, 71, 76, 77, 79, 81, 54, 49, 0,
    55>>

(* Where the column of a nonterminal begins in yytable_, and its default. *)
yypgoto_ ==
  <<-116, -116, -116, 180, 112, -116, -1, 162, 113, -116, 164, -17, -35, -116, -116, -116, -116, -116, 168,
    -116, -116, -19, -116, -116, -115, -116, -116, -74, -34, 25, 53, 58, -116, 75, -116>>

yydefgoto_ ==
  <<0, 5, 6, 7, 8, 22, 9, 23, 10, 18, 19, 25, 52, 66, 67, 83, 84, 40, 28, 29, 11, 100, 77, 101, 102, 103,
    111, 53, 119, 120, 121, 122, 123, 124, 55>>

(* The actions and gotos, packed; yycheck_ says whose entry a place is. *)
yytable_ ==
  <<54, 56, 13, 104, 30, 12, 61, 54, 1, 14, 63, 64, 65, 20, 128, 129, 130, 70, 1, 58, 2, 147, 148, 15, 62,
    34, 4, 17, 39, 3, 35, 69, 82, 54, 150, 21, 4, 85, 86, 87, 88, 89, 79, 105, 41, 24, 1, -34, 2, 35, 109,
    131, 71, 72, 73, 74, 75, 3, 38, 112, 36, 106, 104, 104, 4, 43, 44, 45, 76, 71, 72, 73, 74, 75, 57, 104,
    98, 90, 59, 46, 60, 118, 127, 57, 91, -24, 92, 1, 93, 68, 94, 48, 49, 50, 139, 140, 141, 142, 3, 95, 96,
    51, 105, 105, 78, 4, 44, 45, 81, 71, 72, 73, 74, 75, -28, 105, 35, 90, 108, 46, 117, 44, 45, 57, 44, 45,
    92, 107, 93, 110, 94, 48, 49, 50, 46, 132, 133, 46, 47, 95, 96, 51, 73, 74, 75, 113, 48, 49, 50, 48, 49,
    50, 26, 27, 31, 32, 51, 143, 144, 51, 71, 72, 73, 74, 75, 71, 72, 73, 74, 75, 114, 134, 115, 116, 80,
    125, 138, 71, 72, 73, 74, 75, 136, 135, 137, 149, 16, 145, 126, 97, 99, 37, 33, 146, 42>>

yycheck_ ==
  <<34, 35, 3, 77, 21, 30, 41, 41, 26, 0, 44, 45, 46, 18, 10, 11, 12, 51, 26, 38, 28, 136, 137, 3, 43, 15,
    44, 30, 29, 37, 20, 48, 67, 67, 149, 30, 44, 71, 72, 73, 74, 75, 59, 77, 15, 18, 26, 19, 28, 20, 84, 47,
    5, 6, 7, 8, 9, 37, 19, 93, 30, 78, 136, 137, 44, 19, 5, 6, 21, 5, 6, 7, 8, 9, 22, 149, 77, 16, 30, 18,
    17, 17, 116, 22, 23, 23, 25, 26, 27, 18, 29, 30, 31, 32, 128, 129, 130, 131, 37, 38, 39, 40, 136, 137,
    49, 44, 5, 6, 23, 5, 6, 7, 8, 9, 19, 149, 20, 16, 19, 18, 16, 5, 6, 22, 5, 6, 25, 17, 27, 18, 29, 30, 31,
    32, 18, 13, 14, 18, 22, 38, 39, 40, 7, 8, 9, 18, 30, 31, 32, 30, 31, 32, 16, 17, 16, 17, 40, 132, 133,
    40, 5, 6, 7, 8, 9, 5, 6, 7, 8, 9, 16, 45, 16, 15, 19, 16, 16, 5, 6, 7, 8, 9, 19, 46, 19, 24, 6, 134, 113,
    77, 77, 27, 24, 135, 32>>

(* The symbol whose shift or goto enters a state. *)
yystos_ ==
  <<0, 26, 28, 37, 44, 54, 55, 56, 57, 59, 61, 73, 30, 59, 0, 3, 56, 30, 62, 63, 18, 30, 58, 60, 18, 64, 16,
    17, 71, 72, 64, 16, 17, 71, 15, 20, 30, 63, 19, 59, 70, 15, 60, 19, 5, 6, 18, 22, 30, 31, 32, 40, 65, 80,
    81, 87, 81, 22, 74, 30, 17, 65, 74, 81, 81, 81, 66, 67, 18, 64, 81, 5, 6, 7, 8, 9, 21, 75, 49, 64, 19,
    23, 65, 68, 69, 81, 81, 81, 81, 81, 16, 23, 25, 27, 29, 38, 39, 57, 59, 61, 74, 76, 77, 78, 80, 81, 64,
    17, 19, 81, 18, 79, 81, 18, 16, 16, 15, 16, 17, 81, 82, 83, 84, 85, 86, 16, 86, 81, 10, 11, 12, 47, 13,
    14, 45, 46, 19, 19, 16, 81, 81, 81, 81, 82, 82, 83, 84, 77, 77, 24, 77>>

(* The left-hand side of a rule, and the length of its right-hand side. *)
yyr1_ ==
  <<0, 53, 54, 55, 55, 56, 56, 56, 57, 58, 58, 59, 59, 60, 61, 62, 62, 63, 63, 64, 64, 65, 65, 66, 66, 67,
    67, 68, 68, 69, 69, 70, 70, 71, 71, 72, 72, 73, 73, 74, 75, 75, 76, 76, 76, 77, 77, 77, 77, 77, 77, 77,
    77, 77, 78, 78, 79, 79, 80, 81, 81, 81, 81, 81, 81, 81, 81, 81, 81, 81, 81, 82, 82, 82, 82, 82, 83, 83,
    83, 84, 84, 85, 85, 86, 87, 87>>

yyr2_ ==
  <<0, 2, 2, 2, 1, 1, 1, 1, 4, 3, 1, 1, 1, 4, 3, 3, 1, 2, 4, 4, 0, 1, 3, 2, 0, 3, 0, 2, 0, 3, 0, 3, 4, 2, 0,
    3, 0, 6, 6, 3, 2, 0, 1, 1, 1, 4, 2, 3, 1, 5, 1, 2, 2, 1, 5, 7, 1, 0, 2, 2, 2, 2, 3, 3, 3, 3, 3, 3, 4, 1,
    1, 3, 3, 3, 3, 1, 3, 3, 1, 3, 1, 3, 1, 1, 1, 1>>

-----------------------------------------------------------------------------
States == 0..(Len(yypact_) - 1)
Rules == 1..(Len(yyr1_) - 1)

yy_pact_value_is_default_(s) == yypact_[s + 1] = yypact_ninf_
yy_table_value_is_error_(n) == n = yytable_ninf_

(* Whether place n of yytable_ is the entry of k. *)
IsEntryOf(n, k) == n \in 0..yylast_ /\ yycheck_[n + 1] = k

DefaultAction(s) == IF yydefact_[s + 1] = 0 THEN [do |-> "error"] ELSE [do |-> "reduce", by |-> yydefact_[s + 1]]

(* What state s does on a lookahead of kind k. *)
ActionOn(s, k) ==
  LET yyn == yypact_[s + 1] + k IN
  IF ~IsEntryOf(yyn, k) THEN DefaultAction(s)
  ELSE LET entry == yytable_[yyn + 1] IN
       CASE yy_table_value_is_error_(entry) -> [do |-> "error"]
         [] entry <= 0 /\ ~yy_table_value_is_error_(entry) -> [do |-> "reduce", by |-> -entry]
         [] entry > 0 -> [do |-> "shift", to |-> entry]

(* The state after a reduction to symbol sym uncovers state s. *)
yy_lr_goto_state_(s, sym) ==
  LET yyr == yypgoto_[sym - YYNTOKENS + 1] + s IN
  IF IsEntryOf(yyr, s) THEN yytable_[yyr + 1] ELSE yydefgoto_[sym - YYNTOKENS + 1]

(* The kinds a message about state s offers instead of the token it met. *)
expected_tokens(s) ==
  IF yy_pact_value_is_default_(s) THEN {}
  ELSE {k \in 0..(YYNTOKENS - 1) \ {S_YYerror} :
          LET yyn == yypact_[s + 1] + k IN
          IsEntryOf(yyn, k) /\ ~yy_table_value_is_error_(yytable_[yyn + 1])}

(* No state shifts the error token: recovery only ever empties the stack. *)
ShiftsError(s) ==
  /\ ~yy_pact_value_is_default_(s)
  /\ IsEntryOf(yypact_[s + 1] + S_YYerror, S_YYerror)
  /\ yytable_[yypact_[s + 1] + S_YYerror + 1] > 0
=============================================================================
