---------------------------- MODULE MCIRBuilder ----------------------------
(***************************************************************************)
(* Programs for IRBuilder and CompiledRun.  Every act uses the one name x, *)
(* which any block may declare anew; the number in a statement is its id.  *)
(***************************************************************************)
EXTENDS CompiledRun, TLC

CONSTANT x

Act(i) == [k |-> "act", id |-> i, name |-> x]
Decl(i) == [k |-> "decl", id |-> i, name |-> x]
Ret(i) == [k |-> "ret", id |-> i]
Brk == [k |-> "brk"]
Cont == [k |-> "cont"]
Empty == [k |-> "empty"]
None == [k |-> "none"]
Block(s) == [k |-> "block", body |-> s]
If(c, t, e) == [k |-> "if", cond |-> c, then |-> t, else |-> e]
While(c, s) == [k |-> "while", cond |-> c, body |-> s]
Atom(i) == [k |-> "atom", id |-> i]
And(l, r) == [k |-> "and", lhs |-> l, rhs |-> r]
Or(l, r) == [k |-> "or", lhs |-> l, rhs |-> r]
p == Atom(1)  q == Atom(2)  r == Atom(3)

(* The conditions of up to three atoms the grammar derives: disjunctions   *)
(* of conjunctions, both associating to the left.                          *)
Conditions == {p, And(p, q), Or(p, q), And(And(p, q), r), Or(Or(p, q), r),
               Or(And(p, q), r), Or(p, And(q, r))}

OnConditions ==
  {<<s, Act(9)>> : s \in {If(c, Act(5), e) : c \in Conditions, e \in {None, Act(6)}}
                         \cup {While(c, Act(5)) : c \in Conditions}}

(* Statements for one position, with ids from i up. *)
Leaf(i) == {Act(i), Ret(i), Block(<<Decl(i), Act(i + 1)>>)}
LoopLeaf(i) == Leaf(i) \cup {Brk, Cont}
Compound(leaf(_)) ==
  leaf(20) \cup {If(q, s, e) : s \in leaf(20), e \in {None} \cup leaf(23)}
           \cup {While(q, s) : s \in leaf(20)}

(* Loops around anything, alone or followed by one more statement. *)
InLoop ==
  {<<While(p, s), Act(9)>> :
     s \in Compound(LoopLeaf)
            \cup {Block(<<s, t>>) : s \in Compound(LoopLeaf),
                                   t \in {Decl(30), Brk, If(r, Cont, Act(30)), While(r, Empty)}}}

(* Conditionals around anything, at the end of the function or before more.*)
InIf ==
  {<<If(p, s, e)>> \o rest :
     s \in Compound(Leaf), e \in {None} \cup Leaf(40), rest \in {<<>>, <<Decl(9), Act(10)>>}}

Functions(bodies, isVoid) == {[body |-> Block(b), void |-> isVoid] : b \in bodies}

AllPrograms ==
  Functions(OnConditions \cup InLoop \cup InIf, FALSE) \cup Functions(OnConditions \cup InIf, TRUE)

-----------------------------------------------------------------------------
(* The parts of a program that are in no loop of it, and the others.       *)
RECURSIVE PartsOf(_)
PartsOf(s) ==
  {s} \cup CASE s.k = "block" -> UNION {PartsOf(s.body[j]) : j \in DOMAIN s.body}
              [] s.k = "if" -> PartsOf(s.then) \cup IF s.else.k = "none" THEN {} ELSE PartsOf(s.else)
              [] OTHER -> {}
RECURSIVE LoopPartsOf(_)
LoopPartsOf(stmts) ==
  LET bodies == UNION {PartsOf(s.body) : s \in {t \in stmts : t.k = "while"}}
  IN IF bodies = {} THEN {} ELSE bodies \cup LoopPartsOf(bodies)

AllStmts == UNION {PartsOf(f.body) : f \in AllPrograms}
AllLoopStmts == LoopPartsOf(AllStmts)
AllConds == Conditions \cup {q, r, And(q, r)}
(* The conditions without ||. *)
AllChains == {c \in AllConds : c.k = "atom"}
             \cup {c \in AllConds : c.k = "and" /\ c.lhs.k # "or" /\ c.rhs.k # "or"}
=============================================================================
