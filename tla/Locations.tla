------------------------------ MODULE Locations ------------------------------
(***************************************************************************)
(* yy::position and yy::location of location.hh: points in the text, by     *)
(* line and column from 1, and spans between two of them.                  *)
(***************************************************************************)
EXTENDS Integers

LOCAL add_(lhs, rhs, min) == IF lhs + rhs < min THEN min ELSE lhs + rhs

(* position::columns and position::lines: a new line starts at column 1. *)
ColumnsOn(pos, count) == [pos EXCEPT !.column = add_(@, count, 1)]
LinesOn(pos, count) ==
  IF count = 0 THEN pos ELSE [line |-> add_(pos.line, count, 1), column |-> 1]

FirstLocation ==
  LET position == [line |-> 1, column |-> 1] IN [begin |-> position, end |-> position]

columns(loc, count) == [loc EXCEPT !.end = ColumnsOn(@, count)]
lines(loc, count) == [loc EXCEPT !.end = LinesOn(@, count)]
step(loc) == [loc EXCEPT !.begin = loc.end]
=============================================================================
