--------------------------- MODULE MCExprBuilder ----------------------------
(***************************************************************************)
(* Units for ExprBuilder, and what the code built from them has to be.     *)
(* Every unit declares                                                     *)
(*   int x = 1.5;  float y = 2;  const int c = 2.5;  const float d = c;    *)
(*   int a[c] = {1};  const int b[c + 1] = {2, d};  float w[2];            *)
(* and its function has a parameter p, an array parameter r and a local    *)
(* int l and float m.                                                      *)
(***************************************************************************)
EXTENDS ExprMachine, ExprMeaning

I(n) == [k |-> "lit", type |-> "int", val |-> n]
F(quarters) == [k |-> "lit", type |-> "float", val |-> quarters]
Var(n) == [k |-> "lval", name |-> n, index |-> <<>>]
Element(n, e) == [k |-> "lval", name |-> n, index |-> <<e>>]
Unary(op, e) == [k |-> "unary", op |-> op, rhs |-> e]
Bin(op, l, r) == [k |-> "bin", op |-> op, lhs |-> l, rhs |-> r]
Rel(op, l, r) == [k |-> "rel", op |-> op, lhs |-> l, rhs |-> r]
FuncCall(n, args) == [k |-> "call", name |-> n, params |-> args]

Decl(i, n, type, init) ==
  [k |-> "decl", id |-> i, name |-> n, type |-> type, const |-> FALSE, length |-> <<>>,
   init |-> init, inited |-> init # <<>>]
Constant(decl) == [decl EXCEPT !.const = TRUE]
Array(decl, length) == [decl EXCEPT !.length = <<length>>]
Set(target, e) == [k |-> "assign", target |-> target, value |-> e]
Do(e) == [k |-> "expr", exp |-> e]
If(e) == [k |-> "if", cond |-> e]
Ret(e) == [k |-> "ret", value |-> <<e>>]
Return0 == [k |-> "ret", value |-> <<>>]
Block(s) == [k |-> "block", body |-> s]

Prelude ==
  <<Decl(X, "x", "int", <<F(6)>>), Decl(2, "y", "float", <<I(2)>>),
    Constant(Decl(3, "c", "int", <<F(10)>>)), Constant(Decl(4, "d", "float", <<Var("c")>>)),
    Array(Decl(5, "a", "int", <<I(1)>>), Var("c")),
    Array(Constant(Decl(6, "b", "int", <<I(2), Var("d")>>)), Bin("+", Var("c"), I(1))),
    Array(Decl(7, "w", "float", <<>>), I(2))>>
Param(i, n, type, array, arg) == [id |-> i, name |-> n, type |-> type, array |-> array, arg |-> arg]
Locals == <<Decl(10, "l", "int", <<Var("y")>>), Decl(11, "m", "float", <<Var("p")>>)>>
Unit(ret, s) ==
  [globals |-> Prelude, ret |-> ret, body |-> Locals \o s,
   params |-> <<Param(8, "p", "int", FALSE, 3), Param(9, "r", "int", TRUE, <<5, 0>>)>>]

(* Every operator on every pair of simple operands. *)
Constants == {I(2), F(6), Var("c"), Var("d"), Element("b", I(1)), I(-16)}
Computed == {Var("x"), Var("y"), Var("l"), Element("a", Var("x")), Element("b", Var("x")),
             FuncCall("f", <<I(0)>>), FuncCall("g", <<Var("x")>>)}
Simple == Constants \cup Computed
Expressions ==
  {Bin(op, l, r) : op \in {"+", "-", "*", "/", "%"}, l, r \in Simple}
    \cup {Rel(op, l, r) : op \in {"<", "<=", ">", ">=", "==", "!="}, l, r \in Computed}
    \cup {Unary(op, e) : op \in {"+", "-", "!"}, e \in Simple}
ExpressionUnits ==
  {Unit("int", <<Set(Var("m"), e), Ret(Var("m"))>>) : e \in Expressions}

(* Every place an expression stands in.  A local constant and the length   *)
(* of an array are given constants only.                                   *)
Some == Constants \cup Computed \cup
  {Bin("+", Var("x"), Var("y")), Bin("*", Bin("-", Var("l"), F(2)), FuncCall("f", <<Var("m")>>)),
   Unary("-", Rel("<", Var("m"), Var("x"))), FuncCall("s", <<Var("a")>>), FuncCall("s", <<Var("r")>>),
   Element("r", Bin("-", Var("p"), I(2))), Element("w", FuncCall("s", <<Var("r")>>)),
   Element("a", Element("b", I(2)))}
Places(e) ==
  {Unit("int", <<Ret(e), Do(I(1))>>), Unit("float", <<Ret(e)>>),
   Unit("void", <<Set(Var("x"), e), Set(Var("y"), e), Block(<<Do(e), Return0>>), Do(e)>>),
   Unit("int", <<Set(Element("a", Var("x")), e), Block(<<Decl(20, "x", "float", <<e>>), If(Var("x"))>>), If(e)>>),
   Unit("float", <<Set(Element("r", I(0)), e), Set(Element("w", Element("a", I(0))), e)>>),
   Unit("int", <<Decl(20, "y", "int", <<e>>), Ret(FuncCall("f", <<Var("y")>>))>>),
   Unit("float", <<Set(Var("y"), FuncCall("f", <<e>>)), Ret(FuncCall("g", <<e>>))>>)}
PlaceUnits == UNION {Places(e) : e \in Some}

(* Local arrays, constant and not, passed and indexed.  One that is not    *)
(* initialized is written before it is read.                               *)
LocalArrays(e, type) ==
  {Array(Decl(20, "v", type, <<e>>), Var("c")),
   Array(Constant(Decl(20, "v", type, <<e, e>>)), I(3))}
Uses == {Element("v", I(1)), Element("v", Var("x")), Bin("%", Element("v", I(0)), I(2))}
ArrayUnits ==
  {Unit("int", <<Block(<<decl>>), decl, Set(Element("a", I(1)), e), Ret(e)>>) :
     decl \in UNION {LocalArrays(e, type) : e \in Constants, type \in {"int", "float"}}, e \in Uses}
  \cup
  {Unit("int", <<Array(Decl(20, "v", "int", <<e>>), I(2)), Set(Element("v", Var("x")), e),
                 Do(FuncCall("s", <<Var("v")>>)), Ret(Element("v", I(0)))>>) : e \in Constants}
  \cup
  {Unit("float", <<Array(Decl(20, "v", type, <<>>), I(2)), Set(Element("v", I(1)), e),
                   Set(Element("v", Bin("-", Var("l"), I(2))), Var("y")), Ret(Element("v", Var("x")))>>) :
     e \in Computed, type \in {"int", "float"}}

AllUnits == ExpressionUnits \cup PlaceUnits \cup ArrayUnits
BlockUnits ==
  LET const(i) == Array(Constant(Decl(i, "v", "int", <<I(i)>>)), I(2))
  IN {Unit("int", <<Block(<<const(20)>>), Block(<<const(21)>>), Ret(I(0))>>),
      Unit("int", <<const(20), Block(<<const(21)>>), Ret(I(0))>>)}
       \cup {Unit("int", <<Ret(e)>>) : e \in Simple}

-----------------------------------------------------------------------------
Done == agenda = <<>>
AllTypes == {VOID_T, INT1_T, INT32_T, FLOAT_T}

(* The variables keep the shape their C++ types give them: the value at    *)
(* hand has a type, levels of scope are never left by more than were       *)
(* entered, and the recorded initializers are constants or null.           *)
TypeOK ==
  /\ require_lvalue \in BOOLEAN
  /\ var_type \in {VOID_T, INT32_T, FLOAT_T}
  /\ tmp_val = NULL \/ tmp_val.type \in AllTypes \/ tmp_val.type[1] \in {"ptr", "array"}
  /\ \A j \in DOMAIN init_val : init_val[j] = NULL \/ IsConst(init_val[j])
  /\ Len(scope) >= 1
  /\ fault = "none" \/ Done

(* Every instruction the builder makes has operands of the types its       *)
(* operation requires, and every global has initializers of its type: an   *)
(* int and a float never meet unconverted, whichever side is the float and *)
(* whatever the compiler folded before.                                    *)
WellTyped ==
  /\ \A j \in DOMAIN code : Typed(code[j])
  /\ \A j \in DOMAIN globals :
       LET t == Pointee(globals[j])
       IN \A n \in DOMAIN globals[j].init :
            globals[j].init[n].type = IF t[1] = "array" THEN t[2] ELSE t

(* The code computes what the source means: if the source has a meaning,   *)
(* the compiler does not stop, and running the code leaves the same values *)
(* in the global variables, makes the same calls with the same arguments,  *)
(* tests the same conditions, and returns the same value.                  *)
ComputesSource ==
  Done =>
    LET m == Meaning(unit)
    IN m.ok =>
         /\ fault = "none"
         /\ Executed.ok /\ Executed.seen = m.seen
         /\ unit.ret # "void" => Executed.ret = m.ret
         /\ \A n \in ToSet(unit.globals) : ~ n.const => Executed.mem[n.id] = m.mem[n.id]

(* IRBuilder.cpp:299 adds the constant arrays of functions to the module   *)
(* as LLVM does, with a number appended to a name already taken: no two    *)
(* globals of a module have the same name.                                 *)
GlobalNamesDistinct ==
  \A i, j \in DOMAIN globals : i # j => globals[i].key # globals[j].key
=============================================================================
