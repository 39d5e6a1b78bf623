----------------------------- MODULE ScopeRules -----------------------------
(***************************************************************************)
(* The rules a SysYF translation unit has to follow, said without a stack  *)
(* of scopes: the unit is listed as occurrences of names in the order of   *)
(* the text, each at the path of the scopes around it.  A declaration is   *)
(* visible after it, at its path and at every path it is a prefix of; the  *)
(* longest path wins.                                                      *)
(***************************************************************************)
EXTENDS Integers, Sequences, SequencesExt

Fault(error) == [what |-> "fault", error |-> error]

(* The declarations of name visible at path after the occurrences occ. *)
Visible(occ, path, name) ==
  {o \in ToSet(occ) : o.what = "decl" /\ o.name = name /\ IsPrefix(o.path, path)}
Declared(occ, path, name) ==
  LET decls == Visible(occ, path, name)
  IN CHOOSE o \in decls : \A p \in decls : Len(p.path) <= Len(o.path)

Known(occ, f) == {o \in ToSet(occ) : o.what = "func" /\ o.name = f}
TheFunction(occ, f) == CHOOSE o \in Known(occ, f) : TRUE

(* Whether an expression without a fault is an int; + and - of a unary     *)
(* expression keep the type.                                               *)
RECURSIVE IsInt(_, _, _)
IsInt(e, path, occ) ==
  CASE e.k = "lit"   -> e.int
    [] e.k = "lval"  -> Visible(occ, path, e.name) # {} /\ Declared(occ, path, e.name).int
    [] e.k = "call"  -> Known(occ, e.name) # {} /\ TheFunction(occ, e.name).int
    [] e.k = "unary" -> IsInt(e.rhs, path, occ)
    [] e.k = "bin"   -> IsInt(e.lhs, path, occ) /\ IsInt(e.rhs, path, occ)

CallFaults(n, path, occ) ==
  IF Known(occ, n.name) = {} THEN <<Fault("FuncUnknown")>>
  ELSE LET args == TheFunction(occ, n.name).args IN
       IF Len(args) # Len(n.params) \/ \E j \in DOMAIN args : args[j] # IsInt(n.params[j], path, occ)
         THEN <<Fault("FuncParams")>> ELSE <<>>

Use(n, path, occ) ==
  IF Visible(occ, path, n.name) = {} THEN Fault("VarUnknown")
  ELSE [what |-> "use", id |-> n.id, decl |-> Declared(occ, path, n.name).id]

Declaration(n, path, occ) ==
  IF \E o \in Visible(occ, path, n.name) : o.path = path THEN Fault("VarDuplicated")
  ELSE [what |-> "decl", id |-> n.id, name |-> n.name, int |-> n.int, path |-> path]

(* occ extended by what node n contributes at path; InScope opens a scope, *)
(* whose place in the list makes its path unlike any other.                *)
RECURSIVE Occurrences(_, _, _)
All(nodes, path, occ) == FoldLeft(LAMBDA o, n : Occurrences(n, path, o), occ, nodes)
InScope(nodes, path, occ) ==
  All(nodes, Append(path, Len(occ) + 1), Append(occ, [what |-> "scope"]))

Occurrences(n, path, occ) ==
  CASE n.k = "assembly" -> All(n.defs, path, occ)
    [] n.k = "func" ->
         InScope(n.params \o n.body.body, path, Append(occ,
           IF Known(occ, n.name) # {} THEN Fault("FuncDuplicated")
           ELSE [what |-> "func", name |-> n.name, int |-> n.int,
                 args |-> [j \in DOMAIN n.params |-> n.params[j].int]]))
    [] n.k = "param" -> Append(occ, Declaration(n, path, occ))
    [] n.k = "decl"  -> LET o == All(n.init, path, occ) IN Append(o, Declaration(n, path, o))
    [] n.k = "block" -> InScope(n.body, path, occ)
    [] n.k = "if"    ->
         LET o == InScope(<<n.then>>, path, Occurrences(n.cond, path, occ))
         IN IF n.else.k = "none" THEN o ELSE InScope(<<n.else>>, path, o)
    [] n.k = "while" -> InScope(<<n.body>>, path, Occurrences(n.cond, path, occ))
    [] n.k = "act"   -> All(<<n.value>>, path, Append(occ, Use(n, path, occ)))
    [] n.k = "ret"   -> Occurrences(n.value, path, occ)
    [] n.k = "expr"  -> Occurrences(n.exp, path, occ)
    [] n.k = "lval"  -> Append(All(n.index, path, occ), Use(n, path, occ))
    [] n.k = "unary" -> Occurrences(n.rhs, path, occ)
    [] n.k \in {"rel", "and", "or"} -> All(<<n.lhs, n.rhs>>, path, occ)
    [] n.k = "bin"   ->
         LET o == All(<<n.lhs, n.rhs>>, path, occ)
         IN IF n.op = "%" /\ ~ IsInt(n, path, o) THEN Append(o, Fault("Modulo")) ELSE o
    [] n.k = "call"  ->
         LET o == All(n.params, path, occ) IN o \o CallFaults(n, path, o)
    [] OTHER -> occ

Faults(occ) == SelectSeq(occ, LAMBDA o : o.what = "fault")

(* What a checker has to answer: the first fault in the order of the text. *)
RightVerdict(unit) ==
  LET faults == Faults(Occurrences(unit, <<>>, <<>>))
  IN IF faults = <<>> THEN "Accepted" ELSE Head(faults).error

(* Which declaration each use stands for. *)
RightResolution(unit) ==
  {<<o.id, o.decl>> : o \in {p \in ToSet(Occurrences(unit, <<>>, <<>>)) : p.what = "use"}}
=============================================================================
