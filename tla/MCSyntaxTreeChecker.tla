------------------------ MODULE MCSyntaxTreeChecker ------------------------
(***************************************************************************)
(* Translation units for SyntaxTreeChecker, and what it has to answer.     *)
(* Every unit declares globally int x (1), float y (2), int f(int),        *)
(* float g(float) and void h(); z and u are not declared.                  *)
(***************************************************************************)
EXTENDS SyntaxTreeChecker, ScopeRules

CONSTANTS x, y, z, f, g, h, u, main

Lit(int) == [k |-> "lit", int |-> int]
One == Lit(TRUE)  Half == Lit(FALSE)
Var(i, n) == [k |-> "lval", id |-> i, name |-> n, index |-> <<>>]
Element(i, n, e) == [k |-> "lval", id |-> i, name |-> n, index |-> <<e>>]
Call(n, args) == [k |-> "call", name |-> n, params |-> args]
Bin(op, l, r) == [k |-> "bin", op |-> op, lhs |-> l, rhs |-> r]
Unary(e) == [k |-> "unary", rhs |-> e]
Less(l, r) == [k |-> "rel", lhs |-> l, rhs |-> r]
And(l, r) == [k |-> "and", lhs |-> l, rhs |-> r]
Or(l, r) == [k |-> "or", lhs |-> l, rhs |-> r]

Decl(i, n, int, init) == [k |-> "decl", id |-> i, name |-> n, int |-> int, init |-> init]
Set(i, n, e) == [k |-> "act", id |-> i, name |-> n, value |-> e]
Do(e) == [k |-> "expr", exp |-> e]
Ret(e) == [k |-> "ret", value |-> e]
Block(s) == [k |-> "block", body |-> s]
If(c, s, e) == [k |-> "if", cond |-> c, then |-> s, else |-> e]
While(c, s) == [k |-> "while", cond |-> c, body |-> s]
None == [k |-> "none"]

Param(i, n, int) == [k |-> "param", id |-> i, name |-> n, int |-> int]
Func(n, int, params, s) ==
  [k |-> "func", name |-> n, int |-> int, params |-> params, body |-> Block(s)]
Unit(defs) == [k |-> "assembly", defs |-> defs]

Prelude == <<Decl(1, x, TRUE, <<>>), Decl(2, y, FALSE, <<Half>>),
             Func(f, TRUE, <<Param(3, x, TRUE)>>, <<Ret(Var(4, x))>>),
             Func(g, FALSE, <<Param(5, z, FALSE)>>, <<Set(6, z, Half), Ret(Var(7, z))>>),
             Func(h, FALSE, <<>>, <<[k |-> "empty"]>>)>>
Main(s) == Unit(Prelude \o <<Func(main, TRUE, <<>>, s)>>)

(* Types: every pair of simple expressions under every operator, as an     *)
(* operand, as an argument, as an initializer and in a condition.          *)
Simple == {One, Half, Var(10, x), Var(11, y), Var(12, z), Call(f, <<One>>), Call(g, <<Half>>),
           Call(h, <<>>), Call(u, <<>>), Call(f, <<>>), Call(f, <<Half>>),
           Call(g, <<Call(f, <<Var(13, x)>>)>>)}
Expressions ==
  {Bin(op, l, r) : op \in {"%", "+"}, l, r \in Simple} \cup {Unary(e) : e \in Simple}
Contexts(e) ==
  {Main(<<Do(Bin("%", e, One))>>), Main(<<Do(Bin("%", One, e))>>),
   Main(<<Set(20, y, Call(f, <<e>>))>>), Main(<<Decl(20, z, TRUE, <<e>>), Set(21, z, One)>>),
   Main(<<If(And(Less(e, One), Or(e, Var(20, x))), Ret(e), None)>>)}
ExpressionUnits == UNION {Contexts(e) : e \in Expressions}

(* Scopes: declarations and uses before, in and after each construct.      *)
Item(i) == {Decl(i, z, TRUE, <<Var(i + 1, x)>>), Decl(i, x, FALSE, <<Var(i + 1, x)>>),
            Set(i, x, Var(i + 1, x)), Set(i, z, One)}
After == {Decl(26, z, TRUE, <<Var(27, x)>>), Set(26, z, Var(27, x)), Do(Bin("%", Var(26, x), One))}
Construct ==
  {Block(<<s, t>>) : s \in Item(30), t \in Item(33)}
    \cup {If(Var(40, x), s, e) : s \in {Block(<<t>>) : t \in Item(30)} \cup {Set(30, z, One)},
                                 e \in {None, Block(<<Set(36, z, One)>>), Set(36, x, One)}}
    \cup {While(Var(40, x), s) : s \in {Block(<<t, [k |-> "brk"]>>) : t \in Item(30)} \cup {Set(30, z, One)}}
ScopeUnits == {Main(<<s, c, t>>) : s \in Item(22), c \in Construct, t \in After}

(* Functions: declared twice, called before, calling themselves, with      *)
(* parameters that clash with each other or with the body's declarations.  *)
FunctionUnits ==
  {Unit(<<Func(n, TRUE, <<Param(1, x, TRUE), Param(2, q, FALSE)>>,
               <<s, Do(Call(f, <<Var(3, x), Half>>)), Ret(Var(4, x))>>),
          Func(m, TRUE, <<>>, <<Do(Call(main, <<>>)), Ret(Var(5, x))>>),
          Decl(6, x, TRUE, <<>>)>>) :
     n, m \in {f, main}, q \in {x, y},
     s \in {Decl(7, y, TRUE, <<>>), Decl(7, z, TRUE, <<>>), Block(<<Decl(7, x, TRUE, <<>>)>>)}}

AllUnits == ExpressionUnits \cup ScopeUnits \cup FunctionUnits

(* The checker answers what the rules say, with the error that comes first *)
(* in the text: no scope is forgotten or shared, no type flag is stale     *)
(* when it is read.                                                        *)
VerdictRight == Done => verdict = RightVerdict(unit)

(* In a unit it accepts, each use was looked up as the declaration the     *)
(* rules give it, the scopes are all closed again and no visit is left.    *)
ResolvesInnermost ==
  verdict = "Accepted" => /\ resolved = RightResolution(unit)
                          /\ variables = <<>>

(* Units of a kind the repository's tests contain.                         *)
ReturnUnits == {Main(<<If(One, Ret(e), None), Ret(One)>>) : e \in {One, NULL}}

(* A unit with a return that has no expression is checked to the end.      *)
ReturnChecked == verdict # "null dereference"
=============================================================================
