----------------------------- MODULE Arithmetic -----------------------------
(***************************************************************************)
(* The numbers that a SysYF program and the code compiled from it work on, *)
(* and the functions they call: what C++ does at compile time and LLVM at  *)
(* run time, which agree on it.  An int has Width bits.  A float is        *)
(* represented by the number of quarters it has, rounded toward zero;      *)
(* infinities and NaN are left out.                                        *)
(***************************************************************************)
EXTENDS Integers, Sequences

CONSTANT Width

ASSUME WidthAssumption == Width \in Nat /\ Width > 1

Smallest == -(2 ^ (Width - 1))
IsInt(n) == Smallest <= n /\ n < 2 ^ (Width - 1)
Wrap(n) == ((n - Smallest) % 2 ^ Width) + Smallest

Abs(n) == IF n < 0 THEN -n ELSE n
Quotient(a, b) == IF (a < 0) = (b < 0) THEN Abs(a) \div Abs(b) ELSE -(Abs(a) \div Abs(b))

(* The divisions for which the processor raises a signal. *)
Traps(op, a, b) == op \in {"/", "%"} /\ (b = 0 \/ (a = Smallest /\ b = -1))

IntOp(op, a, b) ==
  CASE op = "+" -> Wrap(a + b)
    [] op = "-" -> Wrap(a - b)
    [] op = "*" -> Wrap(a * b)
    [] op = "/" -> Quotient(a, b)
    [] op = "%" -> a - b * Quotient(a, b)

FloatOp(op, a, b) ==
  CASE op = "+" -> a + b
    [] op = "-" -> a - b
    [] op = "*" -> Quotient(a * b, 4)
    [] op = "/" -> IF b = 0 THEN 0 ELSE Quotient(4 * a, b)

ToFloat(n) == 4 * n
Truncated(x) == Quotient(x, 4)
ToInt(x) == Wrap(Truncated(x))

Holds(op, a, b) ==
  CASE op = "<" -> a < b [] op = "<=" -> a <= b [] op = ">" -> a > b
    [] op = ">=" -> a >= b [] op = "==" -> a = b [] op = "!=" -> a # b
Bit(p) == IF p THEN 1 ELSE 0

(***************************************************************************)
(* Four functions stand for those a program calls.  f returns its argument *)
(* plus one and sets the object X to the argument, g returns half its      *)
(* argument, s increments the first element of an array and returns the    *)
(* second, h returns nothing and sets X to 1.                              *)
(***************************************************************************)
X == 1

Parameters(name) ==
  CASE name = "f" -> <<"int">> [] name = "g" -> <<"float">> [] name = "s" -> <<"array">>
    [] name = "h" -> <<>>
Returns(name) ==
  CASE name = "f" -> "int" [] name = "g" -> "float" [] name = "s" -> "int" [] name = "h" -> "void"

(* What a call returns, the memory it leaves, and what can be seen of it.  *)
Called(name, args, mem) ==
  CASE name = "f" -> [ret |-> Wrap(args[1] + 1), mem |-> [mem EXCEPT ![X] = args], seen |-> args]
    [] name = "g" -> [ret |-> Quotient(args[1], 2), mem |-> mem, seen |-> args]
    [] name = "s" -> [ret |-> mem[args[1][1]][2],
                      mem |-> [mem EXCEPT ![args[1][1]][1] = Wrap(@ + 1)],
                      seen |-> mem[args[1][1]]]
    [] name = "h" -> [ret |-> 0, mem |-> [mem EXCEPT ![X] = <<1>>], seen |-> <<>>]
=============================================================================
