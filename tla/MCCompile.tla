----------------------------- MODULE MCCompile -----------------------------
(***************************************************************************)
(* Instances of Compile for TLC: the graphs if and while statements make,  *)
(* each block with one of a menu of instruction sequences.                 *)
(***************************************************************************)
EXTENDS Compile, TLC

CONSTANTS a, b, c, d, x, y, g, m

Def == [op |-> "def", var |-> NULL, arg |-> 0]
Use(k) == [op |-> "use", var |-> NULL, arg |-> k]
Load(v) == [op |-> "load", var |-> v, arg |-> 0]
Store(v, k) == [op |-> "store", var |-> v, arg |-> k]

Nothing  == <<>>
SetX     == <<Def, Store(x, 1)>>
UseX     == <<Load(x), Use(1)>>
Copy     == <<Load(y), Store(x, 1)>>
Swap     == <<Load(x), Load(y), Store(x, 2), Store(y, 1)>>
(* x is overwritten, and a value goes from x through y back to x. *)
Chain    == <<Def, Store(x, 1), Load(x), Store(y, 3), Load(y), Store(x, 5), Use(5)>>
ToGlobal == <<Load(x), Store(g, 1)>>
Global   == <<Load(g), Store(y, 1)>>
SetBoth  == <<Def, Store(x, 1), Def, Store(y, 3)>>

(* d is the end of each but the last. *)
IfElse == Entry :> {a, b} @@ a :> {c} @@ b :> {c} @@ c :> {d} @@ d :> {}
While  == Entry :> {a} @@ a :> {b, c} @@ b :> {a} @@ c :> {d} @@ d :> {}
(* while (..) { if (..) break; } *)
Break  == Entry :> {a} @@ a :> {b, c} @@ b :> {a, c} @@ c :> {d} @@ d :> {}
(* while (..) { ..; while (..) .. } with a use at the end; the inner loop  *)
(* makes a phi that is an operand of the outer loop's.                     *)
Nested == Entry :> {a} @@ a :> {b, d} @@ b :> {a, c} @@ c :> {b} @@ d :> {}

Functions(G, A, B, C) ==
  {p \in {[cfg |-> G, code |-> Entry :> e @@ a :> s @@ b :> t @@ c :> u @@ d :> Nothing] :
             e \in {SetX, SetBoth}, s \in A, t \in B, u \in C} : DefinitelyAssigned(p)}

Bodies == {Nothing, SetX, UseX, Copy, Swap, Chain, ToGlobal, Global}
Uses == {UseX, ToGlobal}
SmallPrograms ==
  Functions(IfElse, Bodies, Bodies, Uses)
    \cup Functions(While, Bodies, Bodies, Uses)
    \cup Functions(Break, Bodies, Bodies, Uses)

NestedPrograms ==
  {p \in {[cfg |-> Nested, code |-> Entry :> e @@ a :> s @@ b :> t @@ c :> u @@ d :> UseX] :
             e \in {SetX, SetBoth}, s \in {Nothing, UseX}, t \in {Nothing, Global},
             u \in {SetX, Copy, Swap, Chain}} : DefinitelyAssigned(p)}
AllPrograms == SmallPrograms \cup NestedPrograms

(* The order IRBuilder creates the blocks of Nested in, which is not that  *)
(* of the walk.                                                            *)
Order == <<Entry, a, d, b, c>>

(* The argument of the function. *)
Parameters == <<m>>
=============================================================================
