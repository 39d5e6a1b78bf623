-------------------------- MODULE CompiledRun_proofs --------------------------
(***************************************************************************)
(* That IRBuilder compiles statements and conditions right, for every      *)
(* program of FunctionAssumption and SourceAssumption: whatever values the *)
(* conditions take, the blocks show the events of the source, in order.    *)
(***************************************************************************)
EXTENDS CompiledRun, IRBuilder_proofs

(***************************************************************************)
(* The source                                                              *)
(***************************************************************************)
(* A continuation as CompiledRun has it in K, with v for prog.void: does   *)
(* it show an event next, and which; what it unfolds to when it does not;  *)
(* and what is left after the event, with what is then known of a value.   *)
Shows(v, k) ==
  IF k = <<>> THEN ~ v
  ELSE LET s == Last(k).stmt IN
       \/ s.k \in {"act", "decl", "exit"}
       \/ s.k = "ret" /\ ~ v
       \/ s.k = "branch" /\ s.cond.k = "atom"

Shown(k) ==
  IF k = <<>> THEN [op |-> "act", id |-> 0, decl |-> NULL]
  ELSE LET s == Last(k).stmt
           e == Last(k).env
       IN CASE s.k = "act"    -> [op |-> "act", id |-> s.id, decl |-> e[s.name]]
            [] s.k = "decl"   -> [op |-> "act", id |-> s.id, decl |-> s.id]
            [] s.k = "ret"    -> [op |-> "act", id |-> s.id, decl |-> NULL]
            [] s.k = "branch" -> [op |-> "eval", id |-> s.cond.id]
            [] s.k = "exit"   -> [op |-> "ret"]

Instead(k, stmts) == Front(k) \o [j \in DOMAIN stmts |-> Item(stmts[j], Last(k).env)]
LoopIn(k) == CHOOSE j \in DOMAIN k :
               /\ k[j].stmt.k = "while"
               /\ \A l \in DOMAIN k : k[l].stmt.k = "while" => l <= j
BrokenOff(k) == SubSeq(k, 1, LoopIn(k) - 1)
Continued(k) == SubSeq(k, 1, LoopIn(k))
ToExit == <<Item(Exit, GlobalEnv)>>

UnfoldsTo(s, k, u) ==
  \/ s.k = "block" /\ u = Instead(k, <<From(s.body, 1)>>)
  \/ /\ s.k = "seq"
     /\ u = Instead(k, IF s.pos > Len(s.body) THEN <<>>
                       ELSE <<From(s.body, s.pos + 1), s.body[s.pos]>>)
  \/ s.k \in {"empty", "none"} /\ u = Instead(k, <<>>)
  \/ s.k = "if" /\ u = Instead(k, <<Branch(s.cond, s.then, s.else)>>)
  \/ s.k = "while" /\ u = Instead(k, <<s, Branch(s.cond, s.body, [k |-> "brk"])>>)
  \/ /\ s.k = "branch" /\ s.cond.k = "and"
     /\ u = Instead(k, <<Branch(s.cond.lhs, Branch(s.cond.rhs, s.yes, s.no), s.no)>>)
  \/ /\ s.k = "branch" /\ s.cond.k = "or"
     /\ u = Instead(k, <<Branch(s.cond.lhs, s.yes, Branch(s.cond.rhs, s.yes, s.no))>>)
  \/ s.k = "brk" /\ u = BrokenOff(k)
  \/ s.k = "cont" /\ u = Continued(k)
  \/ s.k = "ret" /\ u = ToExit

Unfolds(v, k, u) ==
  /\ ~ Shows(v, k)
  /\ IF k = <<>> THEN u = ToExit ELSE UnfoldsTo(Last(k).stmt, k, u)

ThenLeaves(s, k, u, w) ==
  \/ s.k = "act" /\ u = Instead(k, <<>>) /\ w = {}
  \/ s.k = "decl" /\ u = [Front(k) EXCEPT ![Len(k) - 1].env[s.name] = s.id] /\ w = {}
  \/ s.k = "ret" /\ u = ToExit /\ w = {}
  \/ /\ s.k = "branch"
     /\ \E x \in BOOLEAN : u = Instead(k, <<IF x THEN s.yes ELSE s.no>>) /\ w = {<<s.cond.id, x>>}
Happens(k, u, w) ==
  IF k = <<>> THEN u = ToExit /\ w = {} ELSE ThenLeaves(Last(k).stmt, k, u, w)

-----------------------------------------------------------------------------
(***************************************************************************)
(* The blocks                                                              *)
(***************************************************************************)
(* R has <<k, b, i, w>> when the blocks from position i of block b on do   *)
(* what k does, given the values of conditions in w.                       *)
Entry(R, k, b) == <<k, b, 1, {}>> \in R

Runs(v, m, R, k, b, i, w) ==
  LET instr == m.code[b][i] IN
  /\ i \in 1 .. Len(m.code[b])
  /\ \/ instr.op = "alloca" /\ <<k, b, i + 1, w>> \in R
     \/ instr.op = "br" /\ Entry(R, k, instr.to)
     \/ /\ instr.op = "condbr"
        /\ \E x \in BOOLEAN : <<instr.cond, x>> \in w /\ Entry(R, k, IF x THEN instr.true ELSE instr.false)
     \/ /\ Shows(v, k) /\ Shown(k) = instr
        /\ \A u, z : Happens(k, u, z) => <<u, b, i + 1, z>> \in R

Answered(v, m, R, k, b, i, w) ==
  \/ \E u : Unfolds(v, k, u) /\ <<u, b, i, w>> \in R
  \/ Runs(v, m, R, k, b, i, w)

(* A position in a block, or the end of one that has no terminator.        *)
Spot(m, b, i) ==
  /\ b \in BBs(m) /\ i \in 1 .. Len(m.code[b]) + 1
  /\ i = Len(m.code[b]) + 1 => ~ IsTerminated(m, b)

(* The blocks do what R says, as far as they are filled: what is left to   *)
(* do at the end of one that is not is in O.                               *)
Sim(v, m, R, O) ==
  \A k, b, i, w : <<k, b, i, w>> \in R =>
    /\ Spot(m, b, i)
    /\ b \in InList(m) => \/ Answered(v, m, R, k, b, i, w)
                          \/ i = Len(m.code[b]) + 1 /\ <<k, b, w>> \in O

-----------------------------------------------------------------------------
(***************************************************************************)
(* What the visits in progress leave the source to do                      *)
(***************************************************************************)
Put(k, s, e) == Append(k, Item(s, e))

Nowhere ==
  [K |-> <<>>, env |-> GlobalEnv, depth |-> 1, first |-> FALSE, block |-> FALSE, chain |-> FALSE,
   yes |-> NULL, no |-> NULL, brk |-> <<>>, cont |-> <<>>, at |-> {}, need |-> {}]

InBranch(d, s) == IF s.k = "block" THEN d ELSE d + 1
Rhs(g, t) == Branch(t.node.rhs, g.yes, g.no)
Again(g, t) == Put(g.K, t.node, g.env)
BrkStmt == [k |-> "brk"]

LeftK(f, g, t, e) ==
  IF t.task = "endFunc" THEN <<>>
  ELSE IF t.task = "visit" THEN Put(g.K, IF f.mode = "cond" THEN Branch(t.node, g.yes, g.no) ELSE t.node, g.env)
  ELSE IF t.task = "body" THEN Put(g.K, From(t.node.body, t.pos), e)
  ELSE IF t.task \in LoopTasks THEN Again(g, t) ELSE g.K
LeftDepth(g, t) ==
  IF t.task = "endFunc" THEN 2
  ELSE IF t.task = "body" THEN IF t.exit THEN g.depth + 1 ELSE g.depth
  ELSE IF t.task = "ifThen" THEN InBranch(g.depth, t.node.then)
  ELSE IF t.task = "ifElse" THEN InBranch(g.depth, t.node.else)
  ELSE IF t.task = "whileBody" THEN InBranch(g.depth, t.node.body) ELSE g.depth
LeftYes(g, t) ==
  IF t.task = "ifCond" THEN t.node.then ELSE IF t.task = "whileCond" THEN t.node.body
  ELSE IF t.task = "and" THEN Rhs(g, t) ELSE g.yes
LeftNo(g, t) ==
  IF t.task = "ifCond" THEN t.node.else ELSE IF t.task = "whileCond" THEN BrkStmt
  ELSE IF t.task = "or" THEN Rhs(g, t) ELSE g.no
LeftAt(g, t) ==
  IF t.task = "endFunc" THEN {<<ToExit, ret_BB>>}
  ELSE IF t.task = "ifCond"
    THEN {<<Put(g.K, t.node.then, g.env), t.bbs[1]>>, <<Put(g.K, t.node.else, g.env), t.bbs[2]>>, <<g.K, t.bbs[3]>>}
  ELSE IF t.task = "ifThen" THEN {<<Put(g.K, t.node.else, g.env), t.bbs[2]>>, <<g.K, t.bbs[3]>>}
  ELSE IF t.task \in {"ifElse", "whileBody"} THEN {<<g.K, t.bbs[3]>>}
  ELSE IF t.task = "whileCond" THEN {<<Put(Again(g, t), t.node.body, g.env), t.bbs[2]>>, <<g.K, t.bbs[3]>>}
  ELSE IF t.task \in {"and", "or"} THEN {<<Put(g.K, Rhs(g, t), g.env), t.bbs[1]>>} ELSE {}
LeftNeed(g, t) ==
  IF t.task = "endFunc" THEN {<<ToExit, ret_BB>>}
  ELSE IF t.task \in IfTasks
    THEN {<<Put(g.K, t.node.then, g.env), t.bbs[1]>>, <<g.K, t.bbs[3]>>,
          <<Put(g.K, t.node.else, g.env), IF Alone(t) THEN t.bbs[3] ELSE t.bbs[2]>>}
  ELSE IF t.task \in LoopTasks
    THEN {<<Again(g, t), t.bbs[1]>>, <<Put(Again(g, t), t.node.body, g.env), t.bbs[2]>>,
          <<Put(Again(g, t), BrkStmt, g.env), t.bbs[3]>>, <<g.K, t.bbs[3]>>}
  ELSE IF t.task \in {"and", "or"} THEN {<<Put(g.K, Rhs(g, t), g.env), t.bbs[1]>>} ELSE {}

Left(f, g, t, e) ==
  [K |-> LeftK(f, g, t, e), env |-> IF t.task = "endFunc" THEN GlobalEnv ELSE IF t.task = "body" THEN e ELSE g.env,
   depth |-> LeftDepth(g, t), first |-> t.task = "endFunc" \/ (t.task = "visit" /\ g.first),
   block |-> t.task = "body",
   chain |-> t.task = "and" \/ (t.task = "visit" /\ g.chain),
   yes |-> LeftYes(g, t), no |-> LeftNo(g, t),
   brk |-> IF t.task \in LoopTasks THEN g.K ELSE g.brk,
   cont |-> IF t.task \in LoopTasks THEN Again(g, t) ELSE g.cont,
   at |-> g.at \cup LeftAt(g, t), need |-> g.need \cup LeftNeed(g, t)]

(* e are the declarations names stand for in the innermost d scopes of sc. *)
EnvIs(e, sc, d) ==
  /\ e = [x \in Names |-> e[x]]
  /\ \A x \in Names : \E j \in 1 .. d :
       /\ <<x, e[x]>> \in sc[j]
       /\ \A l \in j + 1 .. d : ~ Declares(sc[l], x)

ScopesOK(sc) ==
  /\ Sequence(sc)
  /\ \A j \in 1 .. Len(sc) : \A a \in sc[j] :
       a = <<a[1], a[2]>> /\ \A c \in sc[j] : a[1] = c[1] => a = c

(* What more is asked of a task, above g, and of what it leaves.           *)
Suits(g, t, sc) ==
  /\ t.task = "visit" =>
       /\ g.chain => t.node \in Chains
       /\ g.first => t.node.k = "block"
       /\ t.node.k = "decl" =>
            /\ g.block /\ ~ Declares(sc[g.depth], t.node.name)
            /\ LET s == Last(g.K).stmt IN s.pos - 1 \in 1 .. Len(s.body) /\ t.node = s.body[s.pos - 1]
  /\ t.task \in {"and", "or"} /\ g.chain => t.node \in Chains
  /\ t.task = "body" =>
       /\ t.exit <=> ~ g.first
       /\ \A a \in sc[LeftDepth(g, t)] : \E j \in 1 .. t.pos - 1 : t.node.body[j].k = "decl" /\ t.node.body[j].name = a[1]
  /\ t.task \notin {"endFunc", "visit", "body"} => ~ g.first

LoopPart(f, g) ==
  f.loops # <<>> =>
    /\ <<g.cont, Last(f.loops)[1]>> \in g.need /\ <<g.brk, Last(f.loops)[2]>> \in g.need
    /\ Sequence(g.brk) /\ g.cont = Append(g.brk, Last(g.cont)) /\ Last(g.cont).stmt.k = "while"
    /\ Len(g.cont) <= Len(g.K)
    /\ \A j \in 1 .. Len(g.cont) : g.K[j] = g.cont[j]
    /\ \A j \in Len(g.cont) + 1 .. Len(g.K) : g.K[j].stmt.k # "while"

CondPart(f, g) ==
  /\ <<Put(g.K, g.no, g.env), Last(f.conds)[2]>> \in g.need
  /\ ~ g.chain => <<Put(g.K, g.yes, g.env), Last(f.conds)[1]>> \in g.need

Joint(f, g) ==
  /\ Sequence(g.K) /\ g.depth \in Nat \ {0} /\ g.first \in BOOLEAN
  /\ g.first => g.env = GlobalEnv /\ g.depth = 2
  /\ f.mode # "start" => <<ToExit, ret_BB>> \in g.need
  /\ g.block => ~ g.first /\ f.mode \in {"stmt", "begin"} /\ Sequence(Front(g.K)) /\ g.K = Put(Front(g.K), Last(g.K).stmt, g.env)
  /\ \A q \in g.at : q = <<q[1], q[2]>> /\ q[2] \in f.held
  /\ f.mode \in {"stmt", "begin", "cond"} => LoopPart(f, g)
  /\ f.mode = "cond" => CondPart(f, g)

(* The scopes in which the names of g stand for what they do for good.     *)
Solid(g) == IF g.first THEN g.depth - 1 ELSE g.depth

KStack(s, fr, kr, sc) ==
  /\ Stack(s, fr) /\ kr[0] = Nowhere
  /\ \A n \in 1 .. Len(s) :
       /\ Suits(kr[n - 1], s[n], sc)
       /\ \E e : kr[n] = Left(fr[n - 1], kr[n - 1], s[n], e)
       /\ ~ kr[n].first => EnvIs(kr[n].env, sc, kr[n].depth)
       /\ Joint(fr[n], kr[n])
  /\ \A n \in 0 .. Len(s) : \A j \in 0 .. n : Solid(kr[j]) <= Solid(kr[n])
KLeaves(s, f, g, sc) == \E fr, kr : KStack(s, fr, kr, sc) /\ f = fr[Len(s)] /\ g = kr[Len(s)]

OpenAt(g) == {<<q[1], q[2], {}>> : q \in g.at}
Here(m, ins, mode, tmp, g) ==
  IF IsTerminated(m, ins) THEN {}
  ELSE IF mode = "cond" THEN {<<Put(g.K, IF x THEN g.yes ELSE g.no, g.env), ins, {<<tmp, x>>}>> : x \in BOOLEAN}
  ELSE {<<g.K, ins, {}>>}

Start(p) == <<Item(p.body, GlobalEnv)>>
Simulates(p, m, R, O, need) ==
  /\ Sim(p.void, m, R, O) /\ \A q \in need : Entry(R, q[1], q[2])
  /\ Entry(R, Start(p), entryBB)

-----------------------------------------------------------------------------
(***************************************************************************)
(* Continuations                                                           *)
(***************************************************************************)
(* A continuation that shows an event unfolds to nothing, and one that     *)
(* does not to one other.                                                  *)
LEMMA UnfoldsOnce ==
  ASSUME NEW v, NEW k, NEW u, NEW w, Unfolds(v, k, u), Unfolds(v, k, w)
  PROVE  u = w
<1>1. CASE k = <<>>
  BY <1>1 DEF Unfolds
<1>2. CASE k # <<>>
  <2> DEFINE s == Last(k).stmt
  <2>1. UnfoldsTo(s, k, u) /\ UnfoldsTo(s, k, w)
    BY <1>2 DEF Unfolds
  <2> HIDE DEF s
  <2>2. CASE s.k = "branch"
    BY <2>1, <2>2 DEF UnfoldsTo
  <2>3. CASE s.k = "seq"
    BY <2>1, <2>3 DEF UnfoldsTo
  <2>4. CASE s.k \in {"block", "if", "while"}
    BY <2>1, <2>4 DEF UnfoldsTo
  <2>5. CASE s.k \in {"brk", "cont", "ret"}
    BY <2>1, <2>5 DEF UnfoldsTo
  <2>6. CASE s.k \in {"empty", "none"}
    BY <2>1, <2>6 DEF UnfoldsTo
  <2>7. s.k \in {"block", "seq", "empty", "none", "if", "while", "branch", "brk", "cont", "ret"}
    BY <2>1 DEF UnfoldsTo
  <2>8. QED
    BY <2>2, <2>3, <2>4, <2>5, <2>6, <2>7
<1>3. QED
  BY <1>1, <1>2

(* The last item of a continuation, and what stands below it.              *)
LEMMA PutFacts ==
  ASSUME NEW c, Sequence(c), NEW s, NEW e
  PROVE  LET k == Put(c, s, e) IN
         /\ Sequence(k) /\ Len(k) = Len(c) + 1 /\ Len(c) \in Nat /\ k # <<>>
         /\ Front(k) = c /\ Last(k).stmt = s /\ Last(k).env = e /\ k[Len(c) + 1] = Item(s, e)
         /\ \A j \in 1 .. Len(c) : k[j] = c[j]
<1>1. Len(c) \in Nat
  BY SequenceFacts1
<1>2. Item(s, e).stmt = s /\ Item(s, e).env = e
  BY DEF Item
<1>3. QED
  BY <1>1, <1>2, AppendSequence DEF Put

(* No, one or two statements in the place of the last.                     *)
LEMMA InsteadOf ==
  ASSUME NEW c, Sequence(c), NEW s, NEW e, NEW k, k = Put(c, s, e)
  PROVE  /\ Instead(k, <<>>) = c
         /\ \A a : Instead(k, <<a>>) = Put(c, a, e)
         /\ \A a, b : Instead(k, <<a, b>>) = Put(Put(c, a, e), b, e)
<1>1. Front(k) = c /\ Last(k).env = e
  BY PutFacts
<1>2. Instead(k, <<>>) = c
  <2>1. [j \in DOMAIN <<>> |-> Item(<<>>[j], e)] = <<>>
    OBVIOUS
  <2>2. c \o <<>> = c
    BY ConcatOne
  <2>3. QED
    BY <1>1, <2>1, <2>2 DEF Instead
<1>3. ASSUME NEW a
      PROVE  Instead(k, <<a>>) = Put(c, a, e)
  <2>1. [j \in DOMAIN <<a>> |-> Item(<<a>>[j], e)] = <<Item(a, e)>>
    OBVIOUS
  <2>2. c \o <<Item(a, e)>> = Append(c, Item(a, e))
    BY ConcatOne
  <2>3. QED
    BY <1>1, <2>1, <2>2 DEF Instead, Put
<1>4. ASSUME NEW a, NEW b
      PROVE  Instead(k, <<a, b>>) = Put(Put(c, a, e), b, e)
  <2>1. [j \in DOMAIN <<a, b>> |-> Item(<<a, b>>[j], e)] = <<Item(a, e), Item(b, e)>>
    OBVIOUS
  <2>2. c \o <<Item(a, e), Item(b, e)>> = Append(Append(c, Item(a, e)), Item(b, e))
    BY ConcatTwo
  <2>3. QED
    BY <1>1, <2>1, <2>2 DEF Instead, Put
<1>5. QED
  BY <1>2, <1>3, <1>4

(* What a last statement that shows no event unfolds to.                   *)
LEMMA PutUnfolds ==
  ASSUME NEW v, NEW c, Sequence(c), NEW s, NEW e, NEW k, k = Put(c, s, e)
  PROVE  /\ s.k = "block" => Unfolds(v, k, Put(c, From(s.body, 1), e))
         /\ s.k = "seq" =>
              IF s.pos > Len(s.body) THEN Unfolds(v, k, c)
              ELSE Unfolds(v, k, Put(Put(c, From(s.body, s.pos + 1), e), s.body[s.pos], e))
         /\ s.k \in {"empty", "none"} => Unfolds(v, k, c)
         /\ s.k = "if" => Unfolds(v, k, Put(c, Branch(s.cond, s.then, s.else), e))
         /\ s.k = "while" => Unfolds(v, k, Put(k, Branch(s.cond, s.body, BrkStmt), e))
         /\ s.k = "branch" /\ s.cond.k = "and" =>
              Unfolds(v, k, Put(c, Branch(s.cond.lhs, Branch(s.cond.rhs, s.yes, s.no), s.no), e))
         /\ s.k = "branch" /\ s.cond.k = "or" =>
              Unfolds(v, k, Put(c, Branch(s.cond.lhs, s.yes, Branch(s.cond.rhs, s.yes, s.no)), e))
         /\ s.k = "brk" => Unfolds(v, k, BrokenOff(k))
         /\ s.k = "cont" => Unfolds(v, k, Continued(k))
         /\ s.k = "ret" /\ v => Unfolds(v, k, ToExit)
<1>1. k # <<>> /\ Last(k).stmt = s
  BY PutFacts
<1>2. /\ Instead(k, <<>>) = c
      /\ \A a : Instead(k, <<a>>) = Put(c, a, e)
      /\ \A a, b : Instead(k, <<a, b>>) = Put(Put(c, a, e), b, e)
  BY InsteadOf
<1>3. s.k \in {"block", "seq", "empty", "none", "if", "while", "brk", "cont"} => ~ Shows(v, k)
  BY <1>1 DEF Shows
<1>4. s.k = "branch" /\ s.cond.k \in {"and", "or"} => ~ Shows(v, k)
  BY <1>1 DEF Shows
<1>5. s.k = "ret" /\ v => ~ Shows(v, k)
  BY <1>1 DEF Shows
<1>6. \A u : Unfolds(v, k, u) <=> ~ Shows(v, k) /\ UnfoldsTo(s, k, u)
  BY <1>1 DEF Unfolds
<1> HIDE DEF Unfolds
<1>7. s.k = "block" => UnfoldsTo(s, k, Put(c, From(s.body, 1), e))
  BY <1>2 DEF UnfoldsTo
<1>8. s.k = "seq" => IF s.pos > Len(s.body) THEN UnfoldsTo(s, k, c)
                     ELSE UnfoldsTo(s, k, Put(Put(c, From(s.body, s.pos + 1), e), s.body[s.pos], e))
  BY <1>2 DEF UnfoldsTo
<1>9. s.k \in {"empty", "none"} => UnfoldsTo(s, k, c)
  BY <1>2 DEF UnfoldsTo
<1>10. s.k = "if" => UnfoldsTo(s, k, Put(c, Branch(s.cond, s.then, s.else), e))
  BY <1>2 DEF UnfoldsTo
<1>11. s.k = "while" => UnfoldsTo(s, k, Put(k, Branch(s.cond, s.body, BrkStmt), e))
  <2>1. k = Put(c, s, e)
    OBVIOUS
  <2>2. Instead(k, <<s, Branch(s.cond, s.body, BrkStmt)>>) = Put(k, Branch(s.cond, s.body, BrkStmt), e)
    BY <1>2, <2>1
  <2>3. QED
    BY <2>2 DEF UnfoldsTo, BrkStmt
<1>12. s.k = "branch" /\ s.cond.k = "and" =>
         UnfoldsTo(s, k, Put(c, Branch(s.cond.lhs, Branch(s.cond.rhs, s.yes, s.no), s.no), e))
  BY <1>2 DEF UnfoldsTo
<1>13. s.k = "branch" /\ s.cond.k = "or" =>
         UnfoldsTo(s, k, Put(c, Branch(s.cond.lhs, s.yes, Branch(s.cond.rhs, s.yes, s.no)), e))
  BY <1>2 DEF UnfoldsTo
<1>14. /\ s.k = "brk" => UnfoldsTo(s, k, BrokenOff(k))
       /\ s.k = "cont" => UnfoldsTo(s, k, Continued(k))
       /\ s.k = "ret" => UnfoldsTo(s, k, ToExit)
  BY DEF UnfoldsTo
<1>15. QED
  BY <1>3, <1>4, <1>5, <1>6, <1>7, <1>8, <1>9, <1>10, <1>11, <1>12, <1>13, <1>14

(* The continuation around the innermost loop in progress, and with it.    *)
InLoop(c, b, r) ==
  /\ Sequence(b) /\ (\E x : r = Append(b, x) /\ x.stmt.k = "while") /\ Len(r) <= Len(c)
  /\ \A j \in 1 .. Len(r) : c[j] = r[j]
  /\ \A j \in Len(r) + 1 .. Len(c) : c[j].stmt.k # "while"

(* What is left once the innermost loop is broken off, and when it goes on. *)
LEMMA LoopFound ==
  ASSUME NEW c, Sequence(c), NEW s, s.k # "while", NEW e, NEW k, k = Put(c, s, e),
         NEW b, NEW r, InLoop(c, b, r)
  PROVE  BrokenOff(k) = b /\ Continued(k) = r
<1>0. /\ Sequence(b) /\ Len(r) <= Len(c)
      /\ \A j \in 1 .. Len(r) : c[j] = r[j]
      /\ \A j \in Len(r) + 1 .. Len(c) : c[j].stmt.k # "while"
  BY DEF InLoop
<1>1. PICK x : r = Append(b, x) /\ x.stmt.k = "while"
  BY DEF InLoop
<1>2. /\ Sequence(k) /\ Len(k) = Len(c) + 1 /\ Len(c) \in Nat /\ k[Len(c) + 1] = Item(s, e)
      /\ \A j \in 1 .. Len(c) : k[j] = c[j]
  BY PutFacts
<1>3. /\ Sequence(r) /\ Len(r) = Len(b) + 1 /\ r[Len(b) + 1] = x /\ Len(b) \in Nat
      /\ \A j \in 1 .. Len(b) : r[j] = b[j]
  BY <1>0, <1>1, AppendSequence, SequenceFacts1
<1>4. DOMAIN k = 1 .. Len(c) + 1
  BY <1>2, SequenceFacts1
<1>5. k[Len(r)].stmt.k = "while" /\ Len(r) \in 1 .. Len(c)
  BY <1>0, <1>1, <1>2, <1>3
<1>6. \A j \in 1 .. Len(c) + 1 : k[j].stmt.k = "while" => j <= Len(r)
  <2>1. SUFFICES ASSUME NEW j \in 1 .. Len(c) + 1, ~ (j <= Len(r))
                 PROVE  k[j].stmt.k # "while"
    OBVIOUS
  <2>2. CASE j \in 1 .. Len(c)
    <3>1. j \in Len(r) + 1 .. Len(c)
      BY <1>3, <2>1, <2>2
    <3>2. QED
      BY <1>0, <1>2, <2>2, <3>1
  <2>3. CASE j = Len(c) + 1
    BY <1>2, <2>3 DEF Item
  <2>4. QED
    BY <1>2, <2>2, <2>3
<1>7. LoopIn(k) = Len(r)
  <2> DEFINE P(j) == /\ j \in DOMAIN k /\ k[j].stmt.k = "while"
                     /\ \A l \in DOMAIN k : k[l].stmt.k = "while" => l <= j
  <2>1. P(Len(r))
    BY <1>2, <1>4, <1>5, <1>6
  <2>2. \A j : P(j) => j = Len(r)
    BY <1>2, <1>3, <1>4, <1>5, <1>6
  <2>3. LoopIn(k) = CHOOSE j : P(j)
    BY DEF LoopIn
  <2> HIDE DEF P
  <2>4. QED
    BY <2>1, <2>2, <2>3
<1>8. \A n \in 0 .. Len(k) : /\ Sequence(SubSeq(k, 1, n)) /\ Len(SubSeq(k, 1, n)) = n
                             /\ \A j \in 1 .. n : SubSeq(k, 1, n)[j] = k[j]
  <2>1. SUFFICES ASSUME NEW n \in 0 .. Len(k)
                 PROVE  /\ Sequence(SubSeq(k, 1, n)) /\ Len(SubSeq(k, 1, n)) = n
                        /\ \A j \in 1 .. n : SubSeq(k, 1, n)[j] = k[j]
    OBVIOUS
  <2>2. k \in Seq(ToSet(k))
    BY <1>2 DEF Sequence
  <2>3. /\ SubSeq(k, 1, n) \in Seq(ToSet(k)) /\ Len(SubSeq(k, 1, n)) = n
        /\ \A j \in 1 .. n : SubSeq(k, 1, n)[j] = k[j]
    BY <2>2, SubSeqProperties
  <2>4. QED
    BY <2>3, TypedSequence
<1>9. BrokenOff(k) = b
  <2>1. Len(b) \in 0 .. Len(k) /\ LoopIn(k) - 1 = Len(b)
    BY <1>2, <1>3, <1>5, <1>7
  <2>2. \A j \in 1 .. Len(b) : k[j] = b[j]
    BY <1>0, <1>2, <1>3, <1>5
  <2> DEFINE u == SubSeq(k, 1, Len(b))
  <2>3. Sequence(u) /\ Len(u) = Len(b) /\ \A j \in 1 .. Len(b) : u[j] = b[j]
    BY <1>8, <2>1, <2>2
  <2> HIDE DEF u
  <2>4. u = b
    BY <1>0, <2>3, SequenceEqual
  <2>5. QED
    BY <2>1, <2>4 DEF BrokenOff, u
<1>10. Continued(k) = r
  <2>1. Len(r) \in 0 .. Len(k)
    BY <1>2, <1>3, <1>5
  <2>2. \A j \in 1 .. Len(r) : k[j] = r[j]
    BY <1>0, <1>2, <1>3, <1>5
  <2> DEFINE u == SubSeq(k, 1, Len(r))
  <2>3. Sequence(u) /\ Len(u) = Len(r) /\ \A j \in 1 .. Len(r) : u[j] = r[j]
    BY <1>8, <2>1, <2>2
  <2> HIDE DEF u
  <2>4. u = r
    BY <1>3, <2>3, SequenceEqual
  <2>5. QED
    BY <1>7, <2>4 DEF Continued, u
<1>11. QED
  BY <1>9, <1>10

(* What the event a last statement shows leaves.                           *)
LEMMA PutHappens ==
  ASSUME NEW v, NEW c, Sequence(c), NEW s, NEW e, NEW k, k = Put(c, s, e), NEW u, NEW z, Happens(k, u, z)
  PROVE  /\ s.k = "act" => u = c /\ z = {}
         /\ s.k = "ret" => u = ToExit /\ z = {}
         /\ s.k = "branch" => \E x \in BOOLEAN : u = Put(c, IF x THEN s.yes ELSE s.no, e) /\ z = {<<s.cond.id, x>>}
         /\ s.k = "decl" => u = [c EXCEPT ![Len(c)].env[s.name] = s.id] /\ z = {}
<1>1. k # <<>> /\ Last(k).stmt = s /\ Front(k) = c /\ Len(k) = Len(c) + 1 /\ Len(c) \in Nat
  BY PutFacts
<1>2. Instead(k, <<>>) = c /\ \A a : Instead(k, <<a>>) = Put(c, a, e)
  BY InsteadOf
<1>3. ThenLeaves(s, k, u, z)
  BY <1>1 DEF Happens
<1>4. Len(k) - 1 = Len(c)
  BY <1>1
<1>5. s.k = "act" => u = c /\ z = {}
  BY <1>2, <1>3 DEF ThenLeaves
<1>6. s.k = "ret" => u = ToExit /\ z = {}
  BY <1>3 DEF ThenLeaves
<1>7. s.k = "branch" => \E x \in BOOLEAN : u = Put(c, IF x THEN s.yes ELSE s.no, e) /\ z = {<<s.cond.id, x>>}
  BY <1>2, <1>3 DEF ThenLeaves
<1>8. s.k = "decl" => u = [c EXCEPT ![Len(c)].env[s.name] = s.id] /\ z = {}
  BY <1>1, <1>3, <1>4 DEF ThenLeaves
<1>9. QED
  BY <1>5, <1>6, <1>7, <1>8

Rebound(e, d, i) == [e EXCEPT ![d] = i]
Redeclares(k, d, i) == [k EXCEPT ![Len(k)].env[d] = i]

(* A declaration changes what its name stands for in the rest of a block.  *)
LEMMA Redeclared ==
  ASSUME NEW c, Sequence(c), NEW s, NEW e, NEW d, NEW i
  PROVE  Redeclares(Put(c, s, e), d, i) = Put(c, s, Rebound(e, d, i))
<1> DEFINE k == Put(c, s, e)
           n == Len(c) + 1
           w == Item(s, [e EXCEPT ![d] = i])
           u == [k EXCEPT ![n] = w]
           x == Put(c, s, [e EXCEPT ![d] = i])
<1>1. Sequence(k) /\ Len(k) = n /\ k[n] = Item(s, e) /\ (\A j \in 1 .. Len(c) : k[j] = c[j]) /\ Len(c) \in Nat
  BY PutFacts
<1>2. Sequence(x) /\ Len(x) = n /\ x[n] = w /\ \A j \in 1 .. Len(c) : x[j] = c[j]
  BY PutFacts
<1>3. [k EXCEPT ![Len(k)].env[d] = i] = u
  <2>1. [k EXCEPT ![n].env[d] = i] = [k EXCEPT ![n] = [k[n] EXCEPT !.env[d] = i]]
    OBVIOUS
  <2>2. [Item(s, e) EXCEPT !.env[d] = i] = w
    BY DEF Item
  <2>3. QED
    BY <1>1, <2>1, <2>2
<1>4. Replaced(u, k, n, w)
  <2>1. n \in 1 .. Len(k)
    BY <1>1
  <2> HIDE DEF k, n, w
  <2>2. QED
    BY <1>1, <2>1, ExceptSequence DEF u
<1> HIDE DEF k, n, w, u, x
<1>5. u = x
  <2>1. Sequence(u) /\ Len(u) = Len(k) /\ u[n] = w /\ \A j \in 1 .. Len(k) : j # n => u[j] = k[j]
    BY <1>1, <1>4 DEF Replaced
  <2>2. ASSUME NEW j \in 1 .. Len(u) PROVE u[j] = x[j]
    <3>1. j = n \/ (j \in 1 .. Len(c) /\ j # n)
      BY <1>1, <2>1 DEF n
    <3>2. QED
      BY <1>1, <1>2, <2>1, <3>1
  <2>3. QED
    BY <1>1, <1>2, <2>1, <2>2, SequenceEqual
<1>6. QED
  BY <1>3, <1>5 DEF x, k, Redeclares, Rebound

-----------------------------------------------------------------------------
(***************************************************************************)
(* What a step of IRBuilder does to what the blocks do                     *)
(***************************************************************************)
(* The blocks of m have the same instructions in n, and may have more.     *)
Lengthens(m, n) ==
  /\ BBs(m) \subseteq BBs(n) /\ InList(n) \cap BBs(m) \subseteq InList(m)
  /\ \A b \in BBs(m) : /\ Len(m.code[b]) \in Nat /\ Len(n.code[b]) \in Nat /\ Len(m.code[b]) <= Len(n.code[b])
                       /\ \A i \in 1 .. Len(m.code[b]) : n.code[b][i] = m.code[b][i]

(* What the blocks do at a position, they do when there are more of them.  *)
LEMMA AnsweredStill ==
  ASSUME NEW v, NEW m, NEW n, Lengthens(m, n), NEW R, NEW S, R \subseteq S,
         NEW k, NEW b \in BBs(m), NEW i, NEW w, Answered(v, m, R, k, b, i, w)
  PROVE  Answered(v, n, S, k, b, i, w)
<1>1. CASE \E u : Unfolds(v, k, u) /\ <<u, b, i, w>> \in R
  BY <1>1 DEF Answered
<1>2. CASE Runs(v, m, R, k, b, i, w)
  <2>1. i \in 1 .. Len(m.code[b]) /\ n.code[b][i] = m.code[b][i] /\ i \in 1 .. Len(n.code[b])
    <3>1. /\ Len(m.code[b]) \in Nat /\ Len(n.code[b]) \in Nat /\ Len(m.code[b]) <= Len(n.code[b])
          /\ \A j \in 1 .. Len(m.code[b]) : n.code[b][j] = m.code[b][j]
      BY DEF Lengthens
    <3>2. i \in 1 .. Len(m.code[b])
      BY <1>2 DEF Runs
    <3>3. n.code[b][i] = m.code[b][i]
      BY <3>1, <3>2
    <3>4. i \in 1 .. Len(n.code[b])
      BY <3>1, <3>2
    <3>5. QED
      BY <3>2, <3>3, <3>4
  <2>2. Runs(v, n, S, k, b, i, w)
    BY <1>2, <2>1 DEF Runs, Entry
  <2>3. QED
    BY <2>2 DEF Answered
<1>3. QED
  BY <1>1, <1>2 DEF Answered

(* So does the rest, when the blocks that are continued answer for it.     *)
LEMMA SimNext ==
  ASSUME NEW v, NEW m, NEW R, NEW O, Sim(v, m, R, O), NEW n, Lengthens(m, n), NEW S, R \subseteq S, NEW P,
         \A k, b, i, w : <<k, b, i, w>> \in S =>
           \/ <<k, b, i, w>> \in R
           \/ /\ Spot(n, b, i)
              /\ b \in InList(n) => \/ Answered(v, n, S, k, b, i, w)
                                    \/ i = Len(n.code[b]) + 1 /\ <<k, b, w>> \in P,
         \A k, b, w : <<k, b, w>> \in O /\ b \in BBs(m) /\ b \in InList(n)
                      /\ <<k, b, Len(m.code[b]) + 1, w>> \in R =>
           \/ Answered(v, n, S, k, b, Len(m.code[b]) + 1, w)
           \/ Len(n.code[b]) = Len(m.code[b]) /\ <<k, b, w>> \in P,
         \A b \in BBs(m) : Len(n.code[b]) = Len(m.code[b]) /\ ~ IsTerminated(m, b) => ~ IsTerminated(n, b)
  PROVE  Sim(v, n, S, P)
<1>1. SUFFICES ASSUME NEW k, NEW b, NEW i, NEW w, <<k, b, i, w>> \in R
               PROVE  /\ Spot(n, b, i)
                      /\ b \in InList(n) => \/ Answered(v, n, S, k, b, i, w)
                                            \/ i = Len(n.code[b]) + 1 /\ <<k, b, w>> \in P
  BY DEF Sim
<1>2. /\ Spot(m, b, i)
      /\ b \in InList(m) => Answered(v, m, R, k, b, i, w) \/ (i = Len(m.code[b]) + 1 /\ <<k, b, w>> \in O)
  BY <1>1 DEF Sim
<1>3. /\ b \in BBs(m) /\ b \in BBs(n) /\ (b \in InList(n) => b \in InList(m))
      /\ Len(m.code[b]) \in Nat /\ Len(n.code[b]) \in Nat /\ Len(m.code[b]) <= Len(n.code[b])
      /\ i \in 1 .. Len(m.code[b]) + 1
  BY <1>2 DEF Spot, Lengthens
<1>4. Spot(n, b, i)
  <2>1. i = Len(n.code[b]) + 1 => ~ IsTerminated(n, b)
    <3>1. SUFFICES ASSUME i = Len(n.code[b]) + 1 PROVE ~ IsTerminated(n, b)
      OBVIOUS
    <3> DEFINE x == Len(m.code[b])
               y == Len(n.code[b])
    <3> x \in Nat /\ y \in Nat /\ x <= y /\ i \in 1 .. x + 1 /\ i = y + 1
      BY <1>3, <3>1
    <3> HIDE DEF x, y
    <3>2. y = x /\ i = x + 1
      OBVIOUS
    <3>3. Len(n.code[b]) = Len(m.code[b]) /\ i = Len(m.code[b]) + 1
      BY <3>2 DEF x, y
    <3>4. QED
      BY <1>2, <1>3, <3>3 DEF Spot
  <2>2. QED
    BY <1>3, <2>1 DEF Spot
<1>5. ASSUME b \in InList(n)
      PROVE  Answered(v, n, S, k, b, i, w) \/ (i = Len(n.code[b]) + 1 /\ <<k, b, w>> \in P)
  <2>1. CASE Answered(v, m, R, k, b, i, w)
    BY <1>3, <2>1, AnsweredStill
  <2>2. CASE i = Len(m.code[b]) + 1 /\ <<k, b, w>> \in O
    BY <1>1, <1>3, <1>5, <2>2
  <2>3. QED
    BY <1>2, <1>3, <1>5, <2>1, <2>2
<1>6. QED
  BY <1>4, <1>5

(* n is m with an instruction more at the end of b. *)
Appended(m, n, b, i) ==
  /\ BBs(n) = BBs(m) /\ InList(n) = InList(m) /\ b \in BBs(m)
  /\ \A x \in BBs(m) : Len(m.code[x]) \in Nat
  /\ Len(n.code[b]) = Len(m.code[b]) + 1 /\ n.code[b][Len(m.code[b]) + 1] = i
  /\ \A j \in 1 .. Len(m.code[b]) : n.code[b][j] = m.code[b][j]
  /\ \A x \in BBs(m) \ {b} : n.code[x] = m.code[x]
  /\ IsTerminated(n, b) <=> i.op \in Terminators

(* Then the other blocks keep theirs.                                      *)
LEMMA AppendedLengthens ==
  ASSUME NEW m, NEW n, NEW b, NEW i, Appended(m, n, b, i)
  PROVE  /\ Lengthens(m, n)
         /\ \A x \in BBs(m) : Len(n.code[x]) = Len(m.code[x]) /\ ~ IsTerminated(m, x) => ~ IsTerminated(n, x)
<1>1. \A x \in BBs(m) \ {b} : n.code[x] = m.code[x] /\ (IsTerminated(n, x) <=> IsTerminated(m, x))
  BY DEF Appended, IsTerminated
<1>2. Len(n.code[b]) # Len(m.code[b]) /\ Len(m.code[b]) <= Len(n.code[b]) /\ Len(n.code[b]) \in Nat
  BY DEF Appended
<1>3. ASSUME NEW x \in BBs(m)
      PROVE  /\ Len(m.code[x]) \in Nat /\ Len(n.code[x]) \in Nat /\ Len(m.code[x]) <= Len(n.code[x])
             /\ \A j \in 1 .. Len(m.code[x]) : n.code[x][j] = m.code[x][j]
             /\ Len(n.code[x]) = Len(m.code[x]) /\ ~ IsTerminated(m, x) => ~ IsTerminated(n, x)
  <2>1. CASE x = b
    BY <1>2, <2>1 DEF Appended
  <2>2. CASE x # b
    BY <1>1, <2>2 DEF Appended
  <2>3. QED
    BY <2>1, <2>2
<1>4. BBs(n) = BBs(m) /\ InList(n) = InList(m)
  BY DEF Appended
<1>5. Lengthens(m, n)
  BY <1>3, <1>4 DEF Lengthens
<1>6. QED
  BY <1>3, <1>5

(* emit, create_br and create_cond_br do that.                             *)
LEMMA EmitAppends ==
  ASSUME NEW m, Shape(m), NEW b \in BBs(m), NEW i
  PROVE  Appended(m, Emit(m, b, i), b, i)
<1>1. Emitted(m, Emit(m, b, i), b, i)
  BY EmitFacts
<1> DEFINE n == Emit(m, b, i)
<1> HIDE DEF n
<1>2. \A x \in BBs(m) : Len(m.code[x]) \in Nat
  <2>1. \A x \in BBs(m) : Sequence(m.code[x])
    BY DEF Shape
  <2>2. QED
    BY <2>1, SequenceFacts1
<1>3. Emitted(m, n, b, i)
  BY <1>1 DEF n
<1>4. Appended(m, n, b, i)
  BY <1>2, <1>3 DEF Emitted, Appended, InList
<1>5. QED
  BY <1>4 DEF n

(* A function with the same code and list has it too.                      *)
LEMMA SameCodeAppends ==
  ASSUME NEW m, NEW e, NEW b, NEW i, Appended(m, e, b, i), NEW n, n.code = e.code, n.list = e.list
  PROVE  Appended(m, n, b, i)
BY DEF Appended, BBs, InList, IsTerminated

(* A jump.                                                                 *)
LEMMA BrAppends ==
  ASSUME NEW m, Shape(m), NEW a \in BBs(m), NEW b \in BBs(m)
  PROVE  Appended(m, create_br(m, a, b), a, [op |-> "br", to |-> b])
<1> DEFINE i == [op |-> "br", to |-> b]
<1>1. Linked(Emit(m, a, i), create_br(m, a, b), a, {b})
  BY BrLinked
<1>2. Appended(m, Emit(m, a, i), a, i)
  BY EmitAppends
<1> HIDE DEF i
<1>3. QED
  BY <1>1, <1>2, SameCodeAppends DEF Linked, i

(* A branch.                                                               *)
LEMMA CondBrAppends ==
  ASSUME NEW m, Shape(m), NEW a \in BBs(m), NEW c, NEW t \in BBs(m), NEW f \in BBs(m), t # f
  PROVE  Appended(m, create_cond_br(m, a, c, t, f), a, [op |-> "condbr", cond |-> c, true |-> t, false |-> f])
<1> DEFINE i == [op |-> "condbr", cond |-> c, true |-> t, false |-> f]
<1>1. Linked(Emit(m, a, i), create_cond_br(m, a, c, t, f), a, {t, f})
  BY CondBrLinked
<1>2. Appended(m, Emit(m, a, i), a, i)
  BY EmitAppends
<1> HIDE DEF i
<1>3. QED
  BY <1>1, <1>2, SameCodeAppends DEF Linked, i

(* What is left to do at the ends of the blocks, as R has it. *)
Triples(P) == \A q \in P : q = <<q[1], q[2], q[3]>>
Ends(n, P) ==
  {<<q[1], q[2], Len(n.code[q[2]]) + 1, q[3]>> : q \in {o \in P : o[2] \in BBs(n) /\ ~ IsTerminated(n, o[2])}}
Grown(v, R, n, S, P) ==
  /\ R \subseteq S /\ Sim(v, n, S, P)
  /\ \A k, b, w : <<k, b, w>> \in P /\ b \in BBs(n) /\ ~ IsTerminated(n, b) => <<k, b, Len(n.code[b]) + 1, w>> \in S
Lengths(n) == \A b \in BBs(n) : Len(n.code[b]) \in Nat
IsEnd(n, P, k, b, i, w) ==
  <<k, b, i, w>> \in Ends(n, P) <=>
    <<k, b, w>> \in P /\ b \in BBs(n) /\ ~ IsTerminated(n, b) /\ i = Len(n.code[b]) + 1
EndsAre(n, P) == \A k, b, i, w : IsEnd(n, P, k, b, i, w)

(* It is in R.                                                             *)
LEMMA EndsFacts ==
  ASSUME NEW n, NEW P, Triples(P), Lengths(n)
  PROVE  EndsAre(n, P)
<1>1. SUFFICES ASSUME NEW k, NEW b, NEW i, NEW w
               PROVE  IsEnd(n, P, k, b, i, w)
  BY DEF EndsAre
<1>2. ASSUME <<k, b, i, w>> \in Ends(n, P)
      PROVE  <<k, b, w>> \in P /\ b \in BBs(n) /\ ~ IsTerminated(n, b) /\ i = Len(n.code[b]) + 1
  <2>1. PICK o \in P : /\ o[2] \in BBs(n) /\ ~ IsTerminated(n, o[2])
                       /\ <<k, b, i, w>> = <<o[1], o[2], Len(n.code[o[2]]) + 1, o[3]>>
    BY <1>2 DEF Ends
  <2>2. k = o[1] /\ b = o[2] /\ i = Len(n.code[o[2]]) + 1 /\ w = o[3] /\ o = <<o[1], o[2], o[3]>>
    BY <2>1 DEF Triples
  <2>3. QED
    BY <2>1, <2>2
<1>3. ASSUME <<k, b, w>> \in P, b \in BBs(n), ~ IsTerminated(n, b), i = Len(n.code[b]) + 1
      PROVE  <<k, b, i, w>> \in Ends(n, P)
  <2> DEFINE o == <<k, b, w>>
  <2>1. o \in P /\ o[1] = k /\ o[2] = b /\ o[3] = w
    BY <1>3
  <2> HIDE DEF o
  <2>2. <<k, b, i, w>> = <<o[1], o[2], Len(n.code[o[2]]) + 1, o[3]>>
    BY <1>3, <2>1
  <2>3. QED
    BY <1>3, <2>1, <2>2 DEF Ends
<1>4. QED
  BY <1>2, <1>3 DEF IsEnd

(* The blocks do what is left to do, as far as they are filled.            *)
LEMMA SimStep ==
  ASSUME NEW v, NEW m, NEW R, NEW O, Sim(v, m, R, O), NEW n, Lengthens(m, n), NEW P, Triples(P),
         Lengths(n), NEW S, S = R \cup Ends(n, P),
         \A b \in BBs(m) : Len(n.code[b]) = Len(m.code[b]) /\ ~ IsTerminated(m, b) => ~ IsTerminated(n, b),
         \A k, b, w : <<k, b, w>> \in O /\ b \in BBs(m) /\ b \in InList(n) /\ ~ IsTerminated(m, b) =>
           \/ Answered(v, n, S, k, b, Len(m.code[b]) + 1, w)
           \/ Len(n.code[b]) = Len(m.code[b]) /\ <<k, b, w>> \in P
  PROVE  Grown(v, R, n, S, P)
<1>1. EndsAre(n, P)
  BY EndsFacts
<1>2. ASSUME NEW k, NEW b, NEW i, NEW w, <<k, b, i, w>> \in S
      PROVE  \/ <<k, b, i, w>> \in R
             \/ /\ Spot(n, b, i)
                /\ b \in InList(n) => \/ Answered(v, n, S, k, b, i, w)
                                      \/ i = Len(n.code[b]) + 1 /\ <<k, b, w>> \in P
  <2>1. CASE <<k, b, i, w>> \in Ends(n, P)
    <3>1. <<k, b, w>> \in P /\ b \in BBs(n) /\ ~ IsTerminated(n, b) /\ i = Len(n.code[b]) + 1
      BY <1>1, <2>1 DEF EndsAre, IsEnd
    <3>2. Len(n.code[b]) \in Nat
      BY <3>1 DEF Lengths
    <3>3. Spot(n, b, i)
      BY <3>1, <3>2 DEF Spot
    <3>4. QED
      BY <3>1, <3>3
  <2>2. QED
    BY <1>2, <2>1
<1>3. ASSUME NEW k, NEW b, NEW w, <<k, b, w>> \in O, b \in BBs(m), b \in InList(n), <<k, b, Len(m.code[b]) + 1, w>> \in R
      PROVE  \/ Answered(v, n, S, k, b, Len(m.code[b]) + 1, w)
             \/ Len(n.code[b]) = Len(m.code[b]) /\ <<k, b, w>> \in P
  <2>1. ~ IsTerminated(m, b)
    BY <1>3 DEF Sim, Spot
  <2>2. QED
    BY <1>3, <2>1
<1>4. Sim(v, n, S, P)
  BY <1>2, <1>3, SimNext
<1>5. QED
  BY <1>1, <1>4 DEF Grown, EndsAre, IsEnd

(* An instruction at the end of b that does what is left to do there.      *)
Does(v, R, P, k, b, i, w) ==
  \/ i.op = "alloca" /\ <<k, b, w>> \in P
  \/ i.op = "br" /\ Entry(R, k, i.to)
  \/ i.op = "condbr" /\ \E x \in BOOLEAN : <<i.cond, x>> \in w /\ Entry(R, k, IF x THEN i.true ELSE i.false)
  \/ Shows(v, k) /\ Shown(k) = i /\ \A u, z : Happens(k, u, z) => <<u, b, z>> \in P /\ i.op \notin Terminators

(* It leaves the others to do.                                             *)
LEMMA SimAppend ==
  ASSUME NEW v, NEW m, NEW R, NEW O, Sim(v, m, R, O), NEW n, NEW a, NEW i, Appended(m, n, a, i), NEW P, Triples(P),
         \A k, b, w : <<k, b, w>> \in O => IF b = a THEN Does(v, R, P, k, a, i, w) ELSE <<k, b, w>> \in P
  PROVE  \E S : Grown(v, R, n, S, P)
<1> DEFINE S == R \cup Ends(n, P)
<1>1. /\ Lengthens(m, n)
      /\ \A x \in BBs(m) : Len(n.code[x]) = Len(m.code[x]) /\ ~ IsTerminated(m, x) => ~ IsTerminated(n, x)
  BY AppendedLengthens
<1>2. Lengths(n)
  BY <1>1 DEF Lengthens, Lengths, Appended
<1>3. EndsAre(n, P)
  BY <1>2, EndsFacts
<1>4. R \subseteq S /\ Ends(n, P) \subseteq S
  OBVIOUS
<1> HIDE DEF S
<1>5. ASSUME NEW k, NEW b, NEW w, <<k, b, w>> \in O, b \in BBs(m), b \in InList(n), ~ IsTerminated(m, b)
      PROVE  \/ Answered(v, n, S, k, b, Len(m.code[b]) + 1, w)
             \/ Len(n.code[b]) = Len(m.code[b]) /\ <<k, b, w>> \in P
  <2>1. CASE b # a
    BY <1>5, <2>1 DEF Appended
  <2>2. CASE b = a
    <3> DEFINE j == Len(m.code[a]) + 1
    <3>1. /\ a \in BBs(n) /\ Len(m.code[a]) \in Nat /\ n.code[a][j] = i /\ Len(n.code[a]) = j
          /\ IsTerminated(n, a) <=> i.op \in Terminators
      BY DEF Appended
    <3>2. j \in 1 .. Len(n.code[a]) /\ Len(n.code[a]) + 1 = j + 1
      BY <3>1
    <3> HIDE DEF j
    <3>3. Does(v, R, P, k, a, i, w)
      BY <1>5, <2>2
    <3>4. Runs(v, n, S, k, a, j, w)
      <4>1. CASE i.op = "alloca" /\ <<k, a, w>> \in P
        <5>1. <<k, a, j + 1, w>> \in S
          BY <1>3, <1>4, <3>1, <3>2, <4>1 DEF Terminators, EndsAre, IsEnd
        <5>2. QED
          BY <3>1, <3>2, <4>1, <5>1 DEF Runs
      <4>2. CASE i.op = "br" /\ Entry(R, k, i.to)
        BY <1>4, <3>1, <3>2, <4>2 DEF Runs, Entry
      <4>3. CASE i.op = "condbr" /\ \E x \in BOOLEAN : <<i.cond, x>> \in w /\ Entry(R, k, IF x THEN i.true ELSE i.false)
        BY <1>4, <3>1, <3>2, <4>3 DEF Runs, Entry
      <4>4. CASE Shows(v, k) /\ Shown(k) = i /\ \A u, z : Happens(k, u, z) => <<u, a, z>> \in P /\ i.op \notin Terminators
        <5>1. \A u, z : Happens(k, u, z) => <<u, a, j + 1, z>> \in S
          BY <1>3, <1>4, <3>1, <3>2, <4>4 DEF EndsAre, IsEnd
        <5>2. QED
          BY <3>1, <3>2, <4>4, <5>1 DEF Runs
      <4>5. QED
        BY <3>3, <4>1, <4>2, <4>3, <4>4 DEF Does
    <3>5. QED
      BY <2>2, <3>4 DEF Answered, j
  <2>3. QED
    BY <2>1, <2>2
<1>6. Grown(v, R, n, S, P)
  BY <1>1, <1>2, <1>5, SimStep DEF S
<1>7. QED
  BY <1>6

(* No instruction more: something left to do unfolds, there are new blocks *)
(* or there is one less.                                                   *)
LEMMA SimSame ==
  ASSUME NEW v, NEW m, NEW R, NEW O, Sim(v, m, R, O), NEW n, Lengthens(m, n), Lengths(n), NEW P, Triples(P),
         \A b \in BBs(m) : n.code[b] = m.code[b],
         \A k, b, w : <<k, b, w>> \in O /\ b \in InList(n) =>
           <<k, b, w>> \in P \/ \E u : Unfolds(v, k, u) /\ <<u, b, w>> \in P
  PROVE  \E S : Grown(v, R, n, S, P)
<1> DEFINE S == R \cup Ends(n, P)
<1>1. EndsAre(n, P)
  BY EndsFacts
<1>2. \A b \in BBs(m) : b \in BBs(n) /\ (IsTerminated(n, b) <=> IsTerminated(m, b))
  BY DEF IsTerminated, Lengthens
<1>3. Ends(n, P) \subseteq S
  OBVIOUS
<1> HIDE DEF S
<1>4. ASSUME NEW k, NEW b, NEW w, <<k, b, w>> \in O, b \in BBs(m), b \in InList(n), ~ IsTerminated(m, b)
      PROVE  \/ Answered(v, n, S, k, b, Len(m.code[b]) + 1, w)
             \/ Len(n.code[b]) = Len(m.code[b]) /\ <<k, b, w>> \in P
  <2>1. Len(n.code[b]) = Len(m.code[b])
    BY <1>4
  <2>2. CASE <<k, b, w>> \in P
    BY <2>1, <2>2
  <2>3. CASE \E u : Unfolds(v, k, u) /\ <<u, b, w>> \in P
    <3>1. PICK u : Unfolds(v, k, u) /\ <<u, b, w>> \in P
      BY <2>3
    <3>2. <<u, b, Len(m.code[b]) + 1, w>> \in S
      BY <1>1, <1>2, <1>3, <1>4, <2>1, <3>1 DEF EndsAre, IsEnd
    <3>3. QED
      BY <3>1, <3>2 DEF Answered
  <2>4. QED
    BY <1>4, <2>2, <2>3
<1>5. Grown(v, R, n, S, P)
  BY <1>2, <1>4, SimStep DEF S
<1>6. QED
  BY <1>5

(* The same function.                                                      *)
LEMMA SimUnfold ==
  ASSUME NEW v, NEW m, Shape(m), NEW R, NEW O, Sim(v, m, R, O), NEW P, Triples(P),
         \A k, b, w : <<k, b, w>> \in O => <<k, b, w>> \in P \/ \E u : Unfolds(v, k, u) /\ <<u, b, w>> \in P
  PROVE  \E S : Grown(v, R, m, S, P)
<1>1. Lengths(m)
  BY EdgeLists, SequenceFacts1 DEF Lengths
<1>2. Lengthens(m, m)
  BY <1>1 DEF Lengthens, Lengths
<1>3. QED
  BY <1>1, <1>2, SimSame

(* New blocks, in which something is to be done.                           *)
LEMMA SimAdded ==
  ASSUME NEW v, NEW m, Shape(m), NEW R, NEW O, Sim(v, m, R, O), NEW n, NEW New, Added(m, n, New), NEW P, Triples(P),
         O \subseteq P
  PROVE  \E S : Grown(v, R, n, S, P)
<1>1. Shape(n) /\ BBs(n) = BBs(m) \cup New /\ BBs(m) \cap New = {} /\ InList(n) = InList(m) \cup New
      /\ \A b \in BBs(m) : n.code[b] = m.code[b]
  BY DEF Added
<1>2. Lengths(n)
  BY <1>1, EdgeLists, SequenceFacts1 DEF Lengths
<1>3. Lengthens(m, n)
  BY <1>1, <1>2 DEF Lengthens, Lengths
<1>4. QED
  BY <1>1, <1>2, <1>3, SimSame

(* A block is given up.                                                    *)
LEMMA SimErased ==
  ASSUME NEW v, NEW m, Shape(m), Edges(m), NEW R, NEW O, Sim(v, m, R, O), NEW a \in BBs(m), m.code[a] = <<>>, m.pre[a] = <<>>,
         NEW P, Triples(P), \A k, b, w : <<k, b, w>> \in O /\ b # a => <<k, b, w>> \in P
  PROVE  \E S : Grown(v, R, erase_from_parent(m, a), S, P)
<1> DEFINE n == erase_from_parent(m, a)
<1>1. n.code = m.code /\ InList(n) = InList(m) \ {a}
  BY EraseFacts
<1> HIDE DEF n
<1>2. Lengths(m)
  BY EdgeLists, SequenceFacts1 DEF Lengths
<1>3. BBs(n) = BBs(m) /\ Lengths(n) /\ Lengthens(m, n)
  BY <1>1, <1>2 DEF BBs, Lengths, Lengthens
<1>4. \E S : Grown(v, R, n, S, P)
  BY <1>1, <1>3, SimSame
<1>5. QED
  BY <1>4 DEF n

(* n is m with an instruction before the terminator of b. *)
Inserted(m, n, b, i) ==
  LET l == Len(m.code[b]) IN
  /\ BBs(n) = BBs(m) /\ InList(n) = InList(m) /\ b \in BBs(m) /\ Lengths(m)
  /\ l \in Nat \ {0} /\ Len(n.code[b]) = l + 1 /\ n.code[b][l] = i /\ n.code[b][l + 1] = m.code[b][l]
  /\ \A j \in 1 .. l - 1 : n.code[b][j] = m.code[b][j]
  /\ \A x \in BBs(m) \ {b} : n.code[x] = m.code[x]
  /\ IsTerminated(m, b) /\ IsTerminated(n, b)

(* An alloca is put at the end of the entry block, or before its           *)
(* terminator.                                                             *)
LEMMA AllocatedInserts ==
  ASSUME NEW m, NEW ins, NEW H, UnderWay(m, ins, H), ~ IsTerminated(m, ins),
         NEW i, i.op = "alloca", NEW n, n = Allocated(m, ins, ins, i)
  PROVE  /\ ins = entryBB => Appended(m, n, entryBB, i)
         /\ ins # entryBB => Inserted(m, n, entryBB, i)
<1> DEFINE c == m.code[entryBB]
<1>1. /\ Shape(m) /\ ins \in BBs(m) /\ entryBB \in BBs(m) /\ Sequence(c)
      /\ IsTerminated(n, entryBB) <=> IsTerminated(m, entryBB)
      /\ BBs(n) = BBs(m) /\ InList(n) = InList(m)
  BY InsertListed, EdgeLists, AllocatedUnderWay DEF UnderWay, SameGraph, InList
<1>2. Lengths(m)
  BY <1>1, EdgeLists, SequenceFacts1 DEF Lengths
<1>3. /\ ins = entryBB => OtherCode(m, n, entryBB, Append(c, i))
      /\ ins # entryBB => /\ c # <<>> /\ Last(c).op \in Terminators /\ Sequence(c)
                          /\ OtherCode(m, n, entryBB, Append(Append(Front(c), i), Last(c)))
  BY AllocatedCode
<1>4. CASE ins = entryBB
  <2> DEFINE d == Append(c, i)
  <2>1. Len(d) = Len(c) + 1 /\ d[Len(c) + 1] = i /\ \A j \in 1 .. Len(c) : d[j] = c[j]
    BY <1>1, AppendSequence
  <2>2. n.code[entryBB] = d /\ \A x \in BBs(m) \ {entryBB} : n.code[x] = m.code[x]
    BY <1>3, <1>4 DEF OtherCode
  <2> HIDE DEF d
  <2>3. i.op \notin Terminators /\ ~ IsTerminated(n, entryBB)
    BY <1>1, <1>4 DEF Terminators
  <2>4. QED
    BY <1>1, <1>2, <1>4, <2>1, <2>2, <2>3 DEF Appended, Lengths
<1>5. CASE ins # entryBB
  <2> DEFINE f == Front(c)
             l == Last(c)
             g == Append(f, i)
             d == Append(g, l)
  <2>1. OtherCode(m, n, entryBB, d) /\ c # <<>> /\ l.op \in Terminators
    BY <1>3, <1>5
  <2>2. IsTerminated(m, entryBB)
    BY <2>1 DEF IsTerminated
  <2> HIDE DEF c
  <2>3. /\ Sequence(f) /\ Len(f) = Len(c) - 1 /\ Len(c) - 1 \in Nat
        /\ \A k \in 1 .. Len(c) - 1 : f[k] = c[k]
        /\ l = c[Len(c)]
    BY <1>1, <2>1, FrontSequence
  <2> HIDE DEF f, l
  <2>4. /\ Sequence(g) /\ Len(g) = Len(f) + 1 /\ g[Len(f) + 1] = i
        /\ \A k \in 1 .. Len(f) : g[k] = f[k]
    BY <2>3, AppendSequence
  <2> HIDE DEF g
  <2>5. /\ Len(d) = Len(g) + 1 /\ d[Len(g) + 1] = l
        /\ \A k \in 1 .. Len(g) : d[k] = g[k]
    BY <2>4, AppendSequence
  <2> HIDE DEF d
  <2>6. Len(c) \in Nat
    BY <1>1, SequenceFacts1
  <2>7. /\ Len(d) = Len(c) + 1 /\ d[Len(c)] = i /\ d[Len(c) + 1] = c[Len(c)] /\ Len(c) \in Nat \ {0}
        /\ \A k \in 1 .. Len(c) - 1 : d[k] = c[k]
    <3>1. Len(g) = Len(c) /\ Len(f) + 1 = Len(c)
      BY <2>3, <2>4, <2>6
    <3>2. \A k \in 1 .. Len(c) - 1 : k \in 1 .. Len(f) /\ k \in 1 .. Len(g)
      BY <2>3, <2>6, <3>1
    <3>3. Len(c) \in 1 .. Len(g)
      BY <2>3, <2>6, <3>1
    <3>4. QED
      BY <2>3, <2>4, <2>5, <2>6, <3>1, <3>2, <3>3
  <2>8. n.code[entryBB] = d /\ \A x \in BBs(m) \ {entryBB} : n.code[x] = m.code[x]
    BY <2>1 DEF OtherCode
  <2>9. IsTerminated(n, entryBB)
    BY <1>1, <2>2
  <2> DEFINE y == n.code[entryBB]
  <2>10. y = d /\ c = m.code[entryBB]
    BY <2>8 DEF c
  <2>11. LET e == Len(m.code[entryBB]) IN
         /\ e \in Nat \ {0} /\ Len(y) = e + 1 /\ y[e] = i /\ y[e + 1] = m.code[entryBB][e]
         /\ \A j \in 1 .. e - 1 : y[j] = m.code[entryBB][j]
    BY <2>7, <2>10
  <2>12. QED
    BY <1>1, <1>2, <1>5, <2>2, <2>8, <2>9, <2>11 DEF Inserted
<1>6. QED
  BY <1>4, <1>5

(* What is done before the terminator is done before the instruction.      *)
LEMMA SimInserted ==
  ASSUME NEW v, NEW m, NEW R, NEW O, Sim(v, m, R, O), NEW n, NEW a, NEW i, i.op = "alloca", Inserted(m, n, a, i),
         Triples(O), a \in InList(m)
  PROVE  \E S : Grown(v, R, n, S, O)
<1> DEFINE l == Len(m.code[a])
           Later == {<<q[1], a, l + 1, q[4]>> : q \in {o \in R : o[2] = a /\ o[3] = l /\ o = <<o[1], o[2], o[3], o[4]>>}}
           S == R \cup Ends(n, O) \cup Later
<1>1. /\ BBs(n) = BBs(m) /\ InList(n) = InList(m) /\ a \in BBs(m)
      /\ l \in Nat \ {0} /\ Len(n.code[a]) = l + 1 /\ n.code[a][l] = i /\ n.code[a][l + 1] = m.code[a][l]
      /\ \A j \in 1 .. l - 1 : n.code[a][j] = m.code[a][j]
      /\ \A x \in BBs(m) \ {a} : n.code[x] = m.code[x]
      /\ IsTerminated(m, a) /\ IsTerminated(n, a)
  BY DEF Inserted
<1>2. \A x \in BBs(m) \ {a} : IsTerminated(n, x) <=> IsTerminated(m, x)
  BY <1>1 DEF IsTerminated
<1>3. Lengths(n)
  BY <1>1 DEF Inserted, Lengths
<1>4. EndsAre(n, O)
  BY <1>3, EndsFacts
<1>5. ASSUME NEW k, NEW w PROVE <<k, a, l, w>> \in R => <<k, a, l + 1, w>> \in S
  <2>1. SUFFICES ASSUME <<k, a, l, w>> \in R PROVE <<k, a, l + 1, w>> \in Later
    OBVIOUS
  <2> DEFINE o == <<k, a, l, w>>
  <2>2. o \in R /\ o[2] = a /\ o[3] = l /\ o[1] = k /\ o[4] = w /\ o = <<o[1], o[2], o[3], o[4]>>
    BY <2>1
  <2> HIDE DEF o, l
  <2>3. <<k, a, l + 1, w>> = <<o[1], a, l + 1, o[4]>>
    BY <2>2
  <2>4. QED
    BY <2>2, <2>3
<1>6. ASSUME NEW k, NEW b, NEW j, NEW w, <<k, b, j, w>> \in Later PROVE b = a /\ j = l + 1 /\ <<k, a, l, w>> \in R
  <2>1. PICK o \in R : o[2] = a /\ o[3] = l /\ o = <<o[1], o[2], o[3], o[4]>> /\ <<k, b, j, w>> = <<o[1], a, l + 1, o[4]>>
    BY <1>6
  <2> HIDE DEF l
  <2>2. QED
    BY <2>1
<1>7. R \subseteq S /\ Ends(n, O) \subseteq S
  OBVIOUS
<1>8. \A q \in S : q \in R \/ q \in Ends(n, O) \/ q \in Later
  OBVIOUS
<1> HIDE DEF l, Later, S
<1>9. ASSUME NEW k, NEW b, NEW j, NEW w, <<k, b, j, w>> \in R, b # a
      PROVE  /\ Spot(n, b, j)
             /\ b \in InList(n) => Answered(v, n, S, k, b, j, w) \/ (j = Len(n.code[b]) + 1 /\ <<k, b, w>> \in O)
  <2>1. /\ Spot(m, b, j)
        /\ b \in InList(m) => Answered(v, m, R, k, b, j, w) \/ (j = Len(m.code[b]) + 1 /\ <<k, b, w>> \in O)
    BY <1>9 DEF Sim
  <2>2. n.code[b] = m.code[b] /\ b \in BBs(m)
    BY <1>1, <1>9, <2>1 DEF Spot
  <2>3. Spot(n, b, j)
    BY <1>1, <1>2, <1>9, <2>1, <2>2 DEF Spot
  <2>4. Answered(v, m, R, k, b, j, w) => Answered(v, n, S, k, b, j, w)
    BY <1>7, <2>2 DEF Answered, Runs, Entry
  <2>5. QED
    BY <1>1, <2>1, <2>2, <2>3, <2>4
<1>10. ASSUME NEW k, NEW j, NEW w, <<k, a, j, w>> \in R
       PROVE  /\ Spot(n, a, j)
              /\ Answered(v, n, S, k, a, j, w)
              /\ Answered(v, m, R, k, a, j, w)
  <2>1. /\ Spot(m, a, j)
        /\ Answered(v, m, R, k, a, j, w) \/ (j = Len(m.code[a]) + 1 /\ <<k, a, w>> \in O)
    BY <1>10 DEF Sim
  <2>2. j \in 1 .. l /\ Answered(v, m, R, k, a, j, w)
    BY <1>1, <2>1 DEF Spot, l
  <2>3. j \in 1 .. Len(n.code[a]) + 1 /\ j # Len(n.code[a]) + 1 /\ j \in 1 .. Len(n.code[a])
    <3> l \in Nat /\ Len(n.code[a]) = l + 1 /\ j \in 1 .. l
      BY <1>1, <2>2
    <3> j \in 1 .. l + 1 /\ j # l + 1 + 1 /\ j \in 1 .. l + 1 + 1
      OBVIOUS
    <3> QED
      OBVIOUS
  <2>4. Spot(n, a, j)
    BY <1>1, <2>3 DEF Spot
  <2>5. CASE j = l
    <3>1. <<k, a, j + 1, w>> \in S
      BY <1>5, <1>10, <2>5
    <3>2. Runs(v, n, S, k, a, j, w)
      BY <1>1, <2>3, <2>5, <3>1 DEF Runs
    <3>3. QED
      BY <2>2, <2>4, <3>2 DEF Answered
  <2>6. CASE j # l
    <3>1. j \in 1 .. l - 1
      BY <1>1, <2>2, <2>6
    <3>2. n.code[a][j] = m.code[a][j]
      BY <1>1, <3>1
    <3>3. Answered(v, n, S, k, a, j, w)
      BY <1>7, <2>2, <2>3, <3>2 DEF Answered, Runs, Entry
    <3>4. QED
      BY <2>2, <2>4, <3>3
  <2>7. QED
    BY <2>5, <2>6
<1>11. ASSUME NEW k, NEW w, <<k, a, l, w>> \in R
       PROVE  Spot(n, a, l + 1) /\ Answered(v, n, S, k, a, l + 1, w)
  <2>1. Answered(v, m, R, k, a, l, w)
    BY <1>10, <1>11
  <2>2. l + 1 \in 1 .. Len(n.code[a]) /\ l + 1 # Len(n.code[a]) + 1 /\ l + 1 \in 1 .. Len(n.code[a]) + 1
    BY <1>1
  <2>3. Spot(n, a, l + 1)
    BY <1>1, <2>2 DEF Spot
  <2>4. CASE \E u : Unfolds(v, k, u) /\ <<u, a, l, w>> \in R
    <3>1. PICK u : Unfolds(v, k, u) /\ <<u, a, l, w>> \in R
      BY <2>4
    <3>2. <<u, a, l + 1, w>> \in S
      BY <1>5, <3>1
    <3>3. QED
      BY <2>3, <3>1, <3>2 DEF Answered
  <2>5. CASE Runs(v, m, R, k, a, l, w)
    <3>1. \A u, z : <<u, a, l + 1, z>> \notin R
      <4>1. SUFFICES ASSUME NEW u, NEW z, <<u, a, l + 1, z>> \in R PROVE FALSE
        OBVIOUS
      <4>2. Spot(m, a, l + 1)
        BY <4>1 DEF Sim
      <4>3. QED
        BY <1>1, <4>2 DEF Spot, l
    <3> DEFINE d == m.code[a][l]
    <3>2. n.code[a][l + 1] = d
      BY <1>1
    <3>3. \/ d.op = "br" /\ Entry(R, k, d.to)
          \/ d.op = "condbr" /\ \E x \in BOOLEAN : <<d.cond, x>> \in w /\ Entry(R, k, IF x THEN d.true ELSE d.false)
          \/ Shows(v, k) /\ Shown(k) = d /\ \A u, z : ~ Happens(k, u, z)
      BY <2>5, <3>1 DEF Runs
    <3> HIDE DEF d
    <3>4. Runs(v, n, S, k, a, l + 1, w)
      BY <1>7, <2>2, <3>2, <3>3 DEF Runs, Entry
    <3>5. QED
      BY <2>3, <3>4 DEF Answered
  <2>6. QED
    BY <2>1, <2>4, <2>5 DEF Answered
<1>12. ASSUME NEW k, NEW b, NEW j, NEW w, <<k, b, j, w>> \in S
       PROVE  /\ Spot(n, b, j)
              /\ b \in InList(n) => Answered(v, n, S, k, b, j, w) \/ (j = Len(n.code[b]) + 1 /\ <<k, b, w>> \in O)
  <2>1. CASE <<k, b, j, w>> \in R /\ b # a
    BY <1>9, <2>1
  <2>2. CASE <<k, b, j, w>> \in R /\ b = a
    BY <1>10, <2>2
  <2>3. CASE <<k, b, j, w>> \in Later
    <3>1. b = a /\ j = l + 1 /\ <<k, a, l, w>> \in R
      BY <1>6, <2>3
    <3>2. QED
      BY <1>11, <3>1
  <2>4. CASE <<k, b, j, w>> \in Ends(n, O)
    <3>1. <<k, b, w>> \in O /\ b \in BBs(n) /\ ~ IsTerminated(n, b) /\ j = Len(n.code[b]) + 1
      BY <1>4, <2>4 DEF EndsAre, IsEnd
    <3>2. Len(n.code[b]) \in Nat
      BY <1>3, <3>1 DEF Lengths
    <3>3. QED
      BY <3>1, <3>2 DEF Spot
  <2>5. QED
    BY <1>8, <1>12, <2>1, <2>2, <2>3, <2>4
<1>13. Sim(v, n, S, O)
  BY <1>12 DEF Sim
<1>14. QED
  BY <1>4, <1>7, <1>13 DEF Grown, EndsAre, IsEnd

(* The alloca of a declaration does not change what the blocks do.         *)
LEMMA SimAllocated ==
  ASSUME NEW v, NEW m, NEW R, NEW O, Sim(v, m, R, O), Triples(O), NEW ins, NEW H, UnderWay(m, ins, H),
         ~ IsTerminated(m, ins), NEW i, i.op = "alloca", NEW n, n = Allocated(m, ins, ins, i)
  PROVE  \E S : Grown(v, R, n, S, O)
<1>1. CASE ins = entryBB
  <2>1. Appended(m, n, entryBB, i)
    BY <1>1, AllocatedInserts
  <2>2. \A k, b, w : <<k, b, w>> \in O => IF b = entryBB THEN Does(v, R, O, k, entryBB, i, w) ELSE <<k, b, w>> \in O
    BY DEF Does
  <2>3. QED
    BY <2>1, <2>2, SimAppend
<1>2. CASE ins # entryBB
  <2>1. Inserted(m, n, entryBB, i) /\ entryBB \in InList(m)
    BY <1>2, AllocatedInserts DEF UnderWay, Placed
  <2>2. QED
    BY <2>1, SimInserted
<1>3. QED
  BY <1>1, <1>2

-----------------------------------------------------------------------------
(***************************************************************************)
(* What the visits in progress leave                                       *)
(***************************************************************************)
(* There is one thing a stack of tasks leaves.                             *)
LEMMA LeavesOnce ==
  ASSUME NEW s, NEW f, NEW g, Leaves(s, f), Leaves(s, g)
  PROVE  f = g
<1>1. PICK fr : Stack(s, fr) /\ f = fr[Len(s)]
  BY DEF Leaves
<1>2. PICK gr : Stack(s, gr) /\ g = gr[Len(s)]
  BY DEF Leaves
<1>3. Sequence(s) /\ Len(s) \in Nat
  BY <1>1, SequenceFacts1 DEF Stack
<1> DEFINE N == {n \in Nat : n <= Len(s) => fr[n] = gr[n]}
<1>4. 0 \in N
  BY <1>1, <1>2 DEF Stack
<1>5. ASSUME NEW n \in N PROVE n + 1 \in N
  <2>1. SUFFICES ASSUME n + 1 <= Len(s) PROVE fr[n + 1] = gr[n + 1]
    OBVIOUS
  <2>2. n + 1 \in 1 .. Len(s) /\ n + 1 - 1 = n /\ fr[n] = gr[n]
    BY <1>3, <2>1
  <2>3. fr[n + 1] = Over(fr[n], s[n + 1]) /\ gr[n + 1] = Over(gr[n], s[n + 1])
    BY <1>1, <1>2, <2>2 DEF Stack
  <2>4. QED
    BY <2>2, <2>3
<1>6. N = Nat
  <2> N \in SUBSET Nat
    OBVIOUS
  <2> HIDE DEF N
  <2> QED
    BY <1>4, <1>5, Induction
<1>7. Len(s) \in N
  BY <1>3, <1>6
<1>8. QED
  BY <1>1, <1>2, <1>3, <1>7

(* The fields of what a task leaves. *)
IsLeft(f, g, t, e, o) ==
  /\ o.K = LeftK(f, g, t, e)
  /\ o.env = IF t.task = "endFunc" THEN GlobalEnv ELSE IF t.task = "body" THEN e ELSE g.env
  /\ o.depth = LeftDepth(g, t) /\ o.first = (t.task = "endFunc" \/ (t.task = "visit" /\ g.first))
  /\ o.block = (t.task = "body") /\ o.chain = (t.task = "and" \/ (t.task = "visit" /\ g.chain))
  /\ o.yes = LeftYes(g, t) /\ o.no = LeftNo(g, t)
  /\ o.brk = IF t.task \in LoopTasks THEN g.K ELSE g.brk
  /\ o.cont = IF t.task \in LoopTasks THEN Again(g, t) ELSE g.cont
  /\ o.at = g.at \cup LeftAt(g, t) /\ o.need = g.need \cup LeftNeed(g, t)

(* Left gives these fields.                                                *)
LEMMA LeftIs ==
  ASSUME NEW f, NEW g, NEW t, NEW e
  PROVE  IsLeft(f, g, t, e, Left(f, g, t, e))
BY DEF IsLeft, Left

(* What is so where nothing is in progress.                                *)
LEMMA JointNowhere == Joint(Outside, Nowhere) /\ Solid(Nowhere) = 1
<1>1. Sequence(<<>>)
  BY ShortSequences
<1>2. /\ Nowhere.K = <<>> /\ Nowhere.depth = 1 /\ Nowhere.first = FALSE /\ Nowhere.block = FALSE /\ Nowhere.at = {}
      /\ Outside.mode = "start"
  BY DEF Nowhere, Outside
<1>3. Sequence(Nowhere.K) /\ Nowhere.depth \in Nat \ {0} /\ Nowhere.first \in BOOLEAN
  <2>1. Nowhere.depth \in Nat \ {0}
    <3>1. Nowhere.depth = 1
      BY <1>2
    <3>2. QED
      BY <3>1
  <2>2. Nowhere.first \in BOOLEAN
    BY <1>2, Zenon
  <2>3. Sequence(Nowhere.K)
    BY <1>1, <1>2
  <2>4. QED
    BY <2>1, <2>2, <2>3
<1>4. \A q \in Nowhere.at : q = <<q[1], q[2]>> /\ q[2] \in Outside.held
  BY <1>2
<1>5. Joint(Outside, Nowhere)
  BY <1>2, <1>3, <1>4 DEF Joint
<1>6. Solid(Nowhere) = 1
  BY <1>2 DEF Solid
<1>7. QED
  BY <1>5, <1>6

(* Nothing in progress leaves nothing.                                     *)
LEMMA KLeavesNothing == \A sc : KLeaves(<<>>, Outside, Nowhere, sc)
<1>1. TAKE sc
<1> DEFINE fr == [k \in {0} |-> Outside]
           kr == [k \in {0} |-> Nowhere]
<1>2. Sequence(<<>>) /\ Len(<<>>) = 0
  BY ShortSequences
<1>3. fr[0] = Outside /\ kr[0] = Nowhere
  OBVIOUS
<1> HIDE DEF fr, kr
<1>4. Stack(<<>>, fr)
  BY <1>2, <1>3 DEF Stack
<1>5. KStack(<<>>, fr, kr, sc)
  <2>1. Solid(kr[0]) <= Solid(kr[0])
    BY <1>3, JointNowhere
  <2>2. \A n \in 0 .. 0 : \A j \in 0 .. n : n = 0 /\ j = 0
    OBVIOUS
  <2>3. QED
    BY <1>2, <1>3, <1>4, <2>1, <2>2 DEF KStack
<1>6. QED
  BY <1>2, <1>3, <1>5 DEF KLeaves

(* What is known of what a stack leaves.                                   *)
LEMMA KLeavesFacts ==
  ASSUME NEW s, NEW f, NEW g, NEW sc, KLeaves(s, f, g, sc)
  PROVE  /\ Leaves(s, f) /\ Good(f) /\ Joint(f, g) /\ Sequence(s)
         /\ f.mode # "start" /\ ~ g.first => EnvIs(g.env, sc, g.depth)
         /\ Solid(g) \in Nat
<1>1. PICK fr, kr : KStack(s, fr, kr, sc) /\ f = fr[Len(s)] /\ g = kr[Len(s)]
  BY DEF KLeaves
<1>2. Leaves(s, f)
  BY <1>1 DEF KStack, Leaves
<1>3. Good(f) /\ Sequence(s)
  BY <1>2, LeavesGood
<1>4. CASE s = <<>>
  <2>1. Len(s) = 0 /\ f = Outside /\ g = Nowhere
    BY <1>1, <1>2, <1>3, <1>4, SequenceFacts1, LeavesGood DEF KStack
  <2>2. f.mode = "start"
    BY <2>1 DEF Outside
  <2>3. QED
    BY <1>2, <1>3, <2>1, <2>2, JointNowhere
<1>5. CASE s # <<>>
  <2>1. Len(s) \in 1 .. Len(s)
    BY <1>3, <1>5, SequenceFacts1
  <2>2. Joint(f, g) /\ (~ g.first => EnvIs(g.env, sc, g.depth))
    BY <1>1, <2>1 DEF KStack
  <2>3. Solid(g) \in Nat
    BY <2>2 DEF Joint, Solid
  <2>4. QED
    BY <1>2, <1>3, <2>2, <2>3
<1>6. QED
  BY <1>4, <1>5

(* One more task.                                                          *)
LEMMA KMore ==
  ASSUME NEW s, NEW f, NEW g, NEW sc, KLeaves(s, f, g, sc), NEW t, Fits(f, t), Suits(g, t, sc),
         NEW e, NEW o, o = Left(f, g, t, e), ~ o.first => EnvIs(o.env, sc, o.depth), Joint(Over(f, t), o), Solid(g) <= Solid(o)
  PROVE  KLeaves(Append(s, t), Over(f, t), o, sc)
<1> DEFINE n == Len(s)
           r == Append(s, t)
           p == Over(f, t)
<1>1. PICK fr, kr : KStack(s, fr, kr, sc) /\ f = fr[n] /\ g = kr[n]
  BY DEF KLeaves
<1>2. Stack(s, fr)
  BY <1>1 DEF KStack
<1>3. Sequence(s) /\ n \in Nat
  BY <1>2, SequenceFacts1 DEF Stack
<1>4. Sequence(r) /\ Len(r) = n + 1 /\ r[n + 1] = t /\ \A k \in 1 .. n : r[k] = s[k]
  BY <1>3, AppendSequence
<1>5. Good(p)
  BY GoodOver, KLeavesFacts
<1> DEFINE gr == [k \in 0 .. n + 1 |-> IF k = n + 1 THEN p ELSE fr[k]]
           lr == [k \in 0 .. n + 1 |-> IF k = n + 1 THEN o ELSE kr[k]]
<1> HIDE DEF n, r, p
<1>6. gr[n + 1] = p /\ lr[n + 1] = o /\ \A k \in 0 .. n : gr[k] = fr[k] /\ lr[k] = kr[k]
  BY <1>3
<1> HIDE DEF gr, lr
<1>7. ASSUME NEW k \in 1 .. n + 1
      PROVE  /\ Fits(gr[k - 1], r[k]) /\ gr[k] = Over(gr[k - 1], r[k]) /\ Good(gr[k])
             /\ Suits(lr[k - 1], r[k], sc) /\ (\E x : lr[k] = Left(gr[k - 1], lr[k - 1], r[k], x))
             /\ (~ lr[k].first => EnvIs(lr[k].env, sc, lr[k].depth)) /\ Joint(gr[k], lr[k])
  <2>1. CASE k = n + 1
    <3>1. k - 1 = n /\ n \in 0 .. n
      BY <1>3, <2>1
    <3>2. gr[k - 1] = f /\ lr[k - 1] = g /\ r[k] = t /\ gr[k] = p /\ lr[k] = o
      BY <1>1, <1>4, <1>6, <2>1, <3>1
    <3>3. QED
      BY <1>5, <3>2 DEF p
  <2>2. CASE k # n + 1
    <3>1. k \in 1 .. n /\ k - 1 \in 0 .. n /\ k \in 0 .. n
      BY <1>3, <2>2
    <3>2. gr[k - 1] = fr[k - 1] /\ gr[k] = fr[k] /\ r[k] = s[k] /\ lr[k - 1] = kr[k - 1] /\ lr[k] = kr[k]
      BY <1>4, <1>6, <3>1
    <3>3. Fits(fr[k - 1], s[k]) /\ fr[k] = Over(fr[k - 1], s[k]) /\ Good(fr[k])
      BY <1>2, <3>1 DEF Stack, n
    <3>4. /\ Suits(kr[k - 1], s[k], sc) /\ (\E x : kr[k] = Left(fr[k - 1], kr[k - 1], s[k], x))
          /\ (~ kr[k].first => EnvIs(kr[k].env, sc, kr[k].depth)) /\ Joint(fr[k], kr[k])
      BY <1>1, <3>1 DEF KStack, n
    <3>5. QED
      BY <3>2, <3>3, <3>4
  <2>3. QED
    BY <2>1, <2>2
<1>8. gr[0] = Outside /\ lr[0] = Nowhere
  BY <1>1, <1>2, <1>3, <1>6 DEF Stack, KStack
<1>9. Stack(r, gr)
  BY <1>4, <1>7, <1>8 DEF Stack
<1>10. \A k \in 0 .. n : \A j \in 0 .. k : Solid(kr[j]) <= Solid(kr[k])
  BY <1>1 DEF KStack, n
<1>11. ASSUME NEW k \in 0 .. n PROVE Solid(kr[k]) \in Int
  <2>1. CASE k = 0
    <3>1. kr[k] = Nowhere
      BY <1>1, <2>1 DEF KStack
    <3>2. QED
      BY <3>1, JointNowhere
  <2>2. CASE k # 0
    <3>1. k \in 1 .. n
      BY <1>3, <2>2
    <3>2. Joint(fr[k], kr[k])
      BY <1>1, <3>1 DEF KStack, n
    <3>3. QED
      BY <3>2 DEF Joint, Solid
  <2>3. QED
    BY <2>1, <2>2
<1>12. Solid(o) \in Int
  BY DEF Joint, Solid
<1>13. ASSUME NEW k \in 0 .. n + 1, NEW j \in 0 .. k PROVE Solid(lr[j]) <= Solid(lr[k])
  <2>1. CASE k # n + 1
    <3>1. k \in 0 .. n /\ j \in 0 .. n
      BY <1>3, <2>1
    <3>2. lr[k] = kr[k] /\ lr[j] = kr[j]
      BY <1>6, <3>1
    <3>3. QED
      BY <1>10, <3>1, <3>2
  <2>2. CASE k = n + 1 /\ j # n + 1
    <3>1. j \in 0 .. n /\ n \in 0 .. n
      BY <1>3, <2>2
    <3>2. lr[k] = o /\ lr[j] = kr[j] /\ kr[n] = g
      BY <1>1, <1>6, <2>2, <3>1
    <3>3. Solid(kr[j]) <= Solid(kr[n])
      BY <1>3, <1>10, <3>1
    <3>4. Solid(kr[j]) \in Int /\ Solid(kr[n]) \in Int
      BY <1>11, <3>1
    <3>5. QED
      BY <1>12, <3>2, <3>3, <3>4
  <2>3. CASE k = n + 1 /\ j = n + 1
    BY <1>6, <1>12, <2>3
  <2>4. QED
    BY <2>1, <2>2, <2>3
<1>14. KStack(r, gr, lr, sc)
  BY <1>4, <1>7, <1>8, <1>9, <1>13 DEF KStack
<1>15. QED
  BY <1>4, <1>6, <1>14 DEF KLeaves, r, p

(* What a task on top of a stack adds, t over f and g to p and o. *)
Adds(f, g, t, p, o, sc) ==
  /\ Fits(f, t) /\ p = Over(f, t) /\ Good(f) /\ Good(p)
  /\ Suits(g, t, sc) /\ (\E e : o = Left(f, g, t, e)) /\ Joint(p, o) /\ Solid(g) <= Solid(o)
  /\ ~ o.first => EnvIs(o.env, sc, o.depth)

(* One task less.                                                          *)
LEMMA KFewer ==
  ASSUME NEW s, NEW p, NEW o, NEW sc, KLeaves(s, p, o, sc), s # <<>>
  PROVE  \E f, g : KLeaves(Front(s), f, g, sc) /\ Adds(f, g, Last(s), p, o, sc)
<1> DEFINE n == Len(s)
           r == Front(s)
<1>1. PICK fr, kr : KStack(s, fr, kr, sc) /\ p = fr[n] /\ o = kr[n]
  BY DEF KLeaves
<1>2. Stack(s, fr)
  BY <1>1 DEF KStack
<1>3. Sequence(s) /\ n \in Nat /\ n \in 1 .. n
  BY <1>2, SequenceFacts1 DEF Stack
<1>4. Sequence(r) /\ Len(r) = n - 1 /\ n - 1 \in Nat /\ (\A k \in 1 .. n - 1 : r[k] = s[k]) /\ Last(s) = s[n]
  BY <1>3, FrontSequence
<1>5. \A k \in 1 .. n : /\ Fits(fr[k - 1], s[k]) /\ fr[k] = Over(fr[k - 1], s[k]) /\ Good(fr[k])
                        /\ Suits(kr[k - 1], s[k], sc) /\ (\E x : kr[k] = Left(fr[k - 1], kr[k - 1], s[k], x))
                        /\ (~ kr[k].first => EnvIs(kr[k].env, sc, kr[k].depth)) /\ Joint(fr[k], kr[k])
  BY <1>1, <1>2 DEF Stack, KStack
<1>6. \A k \in 0 .. n : \A j \in 0 .. k : Solid(kr[j]) <= Solid(kr[k])
  BY <1>1 DEF KStack
<1>7. fr[0] = Outside /\ kr[0] = Nowhere
  BY <1>1, <1>2 DEF Stack, KStack
<1> HIDE DEF n, r
<1>8. \A k \in 1 .. n - 1 : k \in 1 .. n
  BY <1>3
<1>9. Stack(r, fr)
  BY <1>4, <1>5, <1>7, <1>8 DEF Stack
<1>10. KStack(r, fr, kr, sc)
  <2>1. \A k \in 1 .. Len(r) : /\ Suits(kr[k - 1], r[k], sc) /\ (\E x : kr[k] = Left(fr[k - 1], kr[k - 1], r[k], x))
                        /\ (~ kr[k].first => EnvIs(kr[k].env, sc, kr[k].depth)) /\ Joint(fr[k], kr[k])
    BY <1>4, <1>5, <1>8
  <2>2. \A k \in 0 .. Len(r) : k \in 0 .. n
    BY <1>3, <1>4
  <2>3. QED
    BY <1>6, <1>7, <1>9, <2>1, <2>2 DEF KStack
<1> DEFINE f == fr[n - 1]
           g == kr[n - 1]
<1>11. KLeaves(r, f, g, sc)
  BY <1>4, <1>10 DEF KLeaves
<1>12. Good(f)
  BY <1>11, KLeavesFacts
<1>13. Solid(g) <= Solid(o)
  <2>1. n \in 0 .. n /\ n - 1 \in 0 .. n
    BY <1>3, <1>4
  <2>2. QED
    BY <1>1, <1>6, <2>1
<1>14. Adds(f, g, s[n], p, o, sc)
  BY <1>1, <1>3, <1>5, <1>12, <1>13 DEF Adds, n
<1> HIDE DEF f, g
<1>15. QED
  BY <1>4, <1>11, <1>14 DEF r

(* Scopes in which no name of g stands for anything may change.            *)
LEMMA KScope ==
  ASSUME NEW s, NEW f, NEW g, NEW sc, KLeaves(s, f, g, sc), NEW sd, \A j \in 1 .. Solid(g) : sd[j] = sc[j]
  PROVE  KLeaves(s, f, g, sd)
<1> DEFINE n == Len(s)
           top == Solid(g)
<1>1. PICK fr, kr : KStack(s, fr, kr, sc) /\ f = fr[n] /\ g = kr[n]
  BY DEF KLeaves
<1>2. Stack(s, fr) /\ Sequence(s) /\ n \in Nat
  BY <1>1, SequenceFacts1 DEF KStack, Stack
<1>3. top \in Nat
  BY KLeavesFacts
<1> HIDE DEF n, top
<1>4. ASSUME NEW k \in 1 .. n
      PROVE  /\ Suits(kr[k - 1], s[k], sc) /\ Joint(fr[k], kr[k])
             /\ ~ kr[k].first => EnvIs(kr[k].env, sc, kr[k].depth)
             /\ \E e : kr[k] = Left(fr[k - 1], kr[k - 1], s[k], e)
  BY <1>1 DEF KStack, n
<1>5. \A k \in 0 .. n : Solid(kr[k]) <= top
  <2>1. n \in 0 .. n
    BY <1>2
  <2>2. \A k \in 0 .. n : Solid(kr[k]) <= Solid(kr[n])
    BY <1>1, <2>1 DEF KStack, n
  <2>3. QED
    BY <1>1, <2>2 DEF top
<1>6. ASSUME NEW k \in 1 .. n, ~ kr[k].first
      PROVE  kr[k].depth \in Nat \ {0} /\ kr[k].depth <= top /\ \A j \in 1 .. kr[k].depth : sd[j] = sc[j]
  <2>1. kr[k].depth \in Nat \ {0} /\ Solid(kr[k]) = kr[k].depth
    BY <1>4, <1>6 DEF Joint, Solid
  <2>2. Solid(kr[k]) <= top
    BY <1>5
  <2>3. \A j \in 1 .. kr[k].depth : j \in 1 .. top
    BY <1>3, <2>1, <2>2
  <2>4. QED
    BY <2>1, <2>2, <2>3 DEF top
<1>7. ASSUME NEW k \in 1 .. n, ~ kr[k].first PROVE EnvIs(kr[k].env, sd, kr[k].depth)
  <2>1. EnvIs(kr[k].env, sc, kr[k].depth)
    BY <1>4, <1>7
  <2> DEFINE d == kr[k].depth
  <2>2. d \in Nat \ {0} /\ \A j \in 1 .. d : sd[j] = sc[j]
    BY <1>6, <1>7
  <2> HIDE DEF d
  <2>3. \A j \in 1 .. d : \A l \in j + 1 .. d : l \in 1 .. d
    BY <2>2
  <2>4. QED
    BY <2>1, <2>2, <2>3 DEF EnvIs, d
<1>8. ASSUME NEW k \in 1 .. n PROVE Suits(kr[k - 1], s[k], sd)
  <2>1. Suits(kr[k - 1], s[k], sc)
    BY <1>4
  <2>2. CASE s[k].task = "visit" /\ kr[k - 1].block
    <3>1. k - 1 \in 1 .. n /\ ~ kr[k - 1].first
      <4>1. CASE k = 1
        <5>1. kr[k - 1] = Nowhere
          BY <1>1, <4>1 DEF KStack
        <5>2. QED
          BY <2>2, <5>1 DEF Nowhere
      <4>2. CASE k # 1
        <5>1. k - 1 \in 1 .. n
          BY <1>2, <4>2
        <5>2. Joint(fr[k - 1], kr[k - 1])
          BY <1>4, <5>1
        <5>3. QED
          BY <2>2, <5>1, <5>2 DEF Joint
      <4>3. QED
        BY <4>1, <4>2
    <3> DEFINE d == kr[k - 1].depth
    <3>2. d \in Nat \ {0} /\ \A j \in 1 .. d : sd[j] = sc[j]
      BY <1>6, <3>1
    <3> HIDE DEF d
    <3>3. sd[d] = sc[d]
      BY <3>2
    <3>4. QED
      BY <2>1, <2>2, <3>3 DEF Suits, d
  <2>3. CASE s[k].task = "body"
    <3>1. PICK e : kr[k] = Left(fr[k - 1], kr[k - 1], s[k], e)
      BY <1>4
    <3>2. IsLeft(fr[k - 1], kr[k - 1], s[k], e, kr[k])
      BY <3>1, LeftIs
    <3>3. kr[k].depth = LeftDepth(kr[k - 1], s[k]) /\ ~ kr[k].first
      BY <2>3, <3>2 DEF IsLeft
    <3> DEFINE d == kr[k].depth
    <3>4. d \in Nat \ {0} /\ \A j \in 1 .. d : sd[j] = sc[j]
      BY <1>6, <3>3
    <3> HIDE DEF d
    <3>5. sd[d] = sc[d]
      BY <3>4
    <3>6. sd[LeftDepth(kr[k - 1], s[k])] = sc[LeftDepth(kr[k - 1], s[k])]
      BY <3>3, <3>5 DEF d
    <3>7. QED
      BY <2>1, <2>3, <3>6 DEF Suits
  <2>4. CASE s[k].task = "visit" /\ ~ kr[k - 1].block
    BY <2>1, <2>4 DEF Suits
  <2>5. CASE s[k].task \notin {"visit", "body"}
    BY <2>1, <2>5 DEF Suits
  <2>6. QED
    BY <2>2, <2>3, <2>4, <2>5
<1>9. KStack(s, fr, kr, sd)
  BY <1>1, <1>7, <1>8 DEF KStack, n
<1>10. QED
  BY <1>1, <1>9 DEF KLeaves, n

-----------------------------------------------------------------------------
(***************************************************************************)
(* Scopes                                                                  *)
(***************************************************************************)
(* A name resolves to what it stands for.                                  *)
LEMMA FindIs ==
  ASSUME NEW sc, ScopesOK(sc), NEW e, EnvIs(e, sc, Len(sc)), NEW x \in Names
  PROVE  find(sc, x) = e[x]
<1>1. Len(sc) \in Nat /\ DOMAIN sc = 1 .. Len(sc)
  BY SequenceFacts1 DEF ScopesOK
<1>2. PICK j \in 1 .. Len(sc) : <<x, e[x]>> \in sc[j] /\ \A l \in j + 1 .. Len(sc) : ~ Declares(sc[l], x)
  BY DEF EnvIs
<1>3. Declares(sc[j], x)
  BY <1>2 DEF Declares
<1> DEFINE D == {k \in DOMAIN sc : Declares(sc[k], x)}
           P(i) == i \in D /\ \A k \in D : k <= i
<1>4. j \in D
  BY <1>1, <1>3
<1>5. \A k \in D : k <= j
  <2>1. SUFFICES ASSUME NEW k \in D, ~ (k <= j) PROVE FALSE
    OBVIOUS
  <2>2. k \in j + 1 .. Len(sc) /\ Declares(sc[k], x)
    BY <1>1, <2>1
  <2>3. QED
    BY <1>2, <2>2
<1>6. P(j) /\ \A i : P(i) => i = j
  <2>1. D \in SUBSET Nat
    BY <1>1
  <2> HIDE DEF D
  <2>2. P(j)
    BY <1>4, <1>5
  <2>3. ASSUME NEW i, P(i) PROVE i = j
    <3>1. i \in D /\ j <= i /\ i <= j
      BY <1>4, <1>5, <2>3
    <3>2. i \in Nat /\ j \in Nat
      BY <1>4, <2>1, <3>1
    <3>3. QED
      BY <3>1, <3>2
  <2>4. QED
    BY <2>2, <2>3
<1>7. (CHOOSE i \in D : \A k \in D : k <= i) = j
  <2>1. (CHOOSE i : P(i)) = j
    <3> HIDE DEF P
    <3>1. QED
      BY <1>6
  <2>2. QED
    BY <2>1
<1>8. (CHOOSE a \in sc[j] : a[1] = x) = <<x, e[x]>>
  <2> DEFINE Q(a) == a \in sc[j] /\ a[1] = x
             b == <<x, e[x]>>
  <2>1. \A a \in sc[j] : \A c \in sc[j] : a[1] = c[1] => a = c
    BY <1>2 DEF ScopesOK
  <2>2. b \in sc[j] /\ b[1] = x
    BY <1>2
  <2> HIDE DEF b
  <2>3. Q(b) /\ \A a : Q(a) => a = b
    BY <2>1, <2>2
  <2>4. (CHOOSE a : Q(a)) = b
    <3> HIDE DEF Q
    <3>1. QED
      BY <2>3
  <2>5. QED
    BY <2>4 DEF b
<1>9. find(sc, x) = (CHOOSE a \in sc[j] : a[1] = x)[2]
  <2>1. D # {}
    BY <1>4
  <2>2. find(sc, x) = IF D = {} THEN NULL ELSE (CHOOSE a \in sc[CHOOSE i \in D : \A k \in D : k <= i] : a[1] = x)[2]
    BY DEF find
  <2> HIDE DEF D
  <2>3. QED
    BY <1>7, <2>1, <2>2
<1>10. <<x, e[x]>>[2] = e[x]
  OBVIOUS
<1>11. QED
  BY <1>8, <1>9, <1>10

(* A new scope hides no name.                                              *)
LEMMA EnvDeeper ==
  ASSUME NEW e, NEW sc, NEW d \in Nat, EnvIs(e, sc, d), NEW sd, \A j \in 1 .. d : sd[j] = sc[j], sd[d + 1] = {}
  PROVE  EnvIs(e, sd, d + 1)
<1>1. ASSUME NEW x \in Names
      PROVE  \E j \in 1 .. d + 1 : <<x, e[x]>> \in sd[j] /\ \A l \in j + 1 .. d + 1 : ~ Declares(sd[l], x)
  <2>1. PICK j \in 1 .. d : <<x, e[x]>> \in sc[j] /\ \A l \in j + 1 .. d : ~ Declares(sc[l], x)
    BY DEF EnvIs
  <2>2. <<x, e[x]>> \in sd[j] /\ j \in 1 .. d + 1
    BY <2>1
  <2>3. ASSUME NEW l \in j + 1 .. d + 1 PROVE ~ Declares(sd[l], x)
    <3>1. l = d + 1 \/ (l \in j + 1 .. d /\ l \in 1 .. d)
      OBVIOUS
    <3>2. ~ Declares({}, x)
      BY DEF Declares
    <3>3. QED
      BY <2>1, <3>1, <3>2
  <2>4. QED
    BY <2>2, <2>3
<1>2. QED
  BY <1>1 DEF EnvIs

(* It is entered and left again.                                           *)
LEMMA ScopeEntered ==
  ASSUME NEW sc, ScopesOK(sc)
  PROVE  LET sd == Append(sc, {}) IN
         /\ ScopesOK(sd) /\ Len(sd) = Len(sc) + 1 /\ sd[Len(sc) + 1] = {} /\ Len(sc) \in Nat
         /\ \A j \in 1 .. Len(sc) : sd[j] = sc[j]
<1> DEFINE sd == Append(sc, {})
<1>1. Sequence(sc) /\ Len(sc) \in Nat
  BY SequenceFacts1 DEF ScopesOK
<1>2. Sequence(sd) /\ Len(sd) = Len(sc) + 1 /\ sd[Len(sc) + 1] = {} /\ \A j \in 1 .. Len(sc) : sd[j] = sc[j]
  BY <1>1, AppendSequence
<1> HIDE DEF sd
<1>3. ASSUME NEW j \in 1 .. Len(sd), NEW a \in sd[j]
      PROVE  a = <<a[1], a[2]>> /\ \A c \in sd[j] : a[1] = c[1] => a = c
  <2>1. j \in 1 .. Len(sc)
    BY <1>1, <1>2, <1>3
  <2>2. QED
    BY <1>2, <1>3, <2>1 DEF ScopesOK
<1>4. QED
  BY <1>1, <1>2, <1>3 DEF ScopesOK, sd

(* And it is left.                                                         *)
LEMMA ScopeLeft ==
  ASSUME NEW sc, ScopesOK(sc), sc # <<>>
  PROVE  LET sd == Front(sc) IN
         /\ ScopesOK(sd) /\ Len(sd) = Len(sc) - 1 /\ Len(sc) - 1 \in Nat
         /\ \A j \in 1 .. Len(sc) - 1 : sd[j] = sc[j]
<1> DEFINE sd == Front(sc)
<1>1. Sequence(sc) /\ Len(sc) \in Nat
  BY SequenceFacts1 DEF ScopesOK
<1>2. Sequence(sd) /\ Len(sd) = Len(sc) - 1 /\ Len(sc) - 1 \in Nat /\ \A j \in 1 .. Len(sc) - 1 : sd[j] = sc[j]
  BY <1>1, FrontSequence
<1> HIDE DEF sd
<1>3. \A j \in 1 .. Len(sd) : j \in 1 .. Len(sc) /\ sd[j] = sc[j]
  BY <1>1, <1>2
<1>4. QED
  BY <1>2, <1>3 DEF ScopesOK, sd

(* A name is declared in the innermost scope. *)
InScope(sc, sd, n, b) ==
  /\ ScopesOK(sd) /\ Len(sd) = n /\ (\A j \in 1 .. n - 1 : sd[j] = sc[j]) /\ sd[n] = sc[n] \cup {b}

(* It stands for what is declared there.                                   *)
LEMMA ScopePushed ==
  ASSUME NEW sc, ScopesOK(sc), NEW n \in Nat \ {0}, Len(sc) = n, NEW x \in Names, ~ Declares(sc[n], x), NEW d,
         NEW e, EnvIs(e, sc, n), NEW sd, sd = push(sc, x, d)
  PROVE  InScope(sc, sd, n, <<x, d>>) /\ EnvIs(Rebound(e, x, d), sd, n)
<1> DEFINE last == sc[n] \cup {<<x, d>>}
           b == <<x, d>>
           h == [e EXCEPT ![x] = d]
<1>1. Sequence(sc) /\ sc # <<>> /\ n \in 1 .. Len(sc) /\ Last(sc) = sc[n]
  <2>1. Sequence(sc) /\ sc # <<>>
    BY SequenceFacts1 DEF ScopesOK
  <2>2. Last(sc) = sc[n]
    BY <2>1, FrontSequence
  <2>3. QED
    BY <2>1, <2>2
<1>2. sd = [sc EXCEPT ![n] = last]
  BY <1>1 DEF push
<1>3. Sequence(sd) /\ Len(sd) = n /\ sd[n] = last /\ \A j \in 1 .. n : j # n => sd[j] = sc[j]
  <2> HIDE DEF last, b, h
  <2>1. Replaced(sd, sc, n, last)
    <3>1. Sequence(sc) /\ n \in 1 .. Len(sc)
      BY <1>1
    <3>2. Replaced([sc EXCEPT ![n] = last], sc, n, last)
      BY <3>1, ExceptSequence
    <3>3. QED
      BY <1>2, <3>2
  <2>2. QED
    BY <2>1 DEF Replaced
<1>4. b[1] = x /\ b = <<b[1], b[2]>> /\ \A a \in sc[n] : a[1] # x
  BY DEF Declares
<1> HIDE DEF b, last
<1>5. \A a : a \in last <=> a \in sc[n] \/ a = b
  BY DEF last, b
<1>6. ASSUME NEW j \in 1 .. n, NEW a \in sd[j]
      PROVE  a = <<a[1], a[2]>> /\ \A c \in sd[j] : a[1] = c[1] => a = c
  <2>1. \A a1 \in sc[j] : a1 = <<a1[1], a1[2]>> /\ \A c \in sc[j] : a1[1] = c[1] => a1 = c
    BY DEF ScopesOK
  <2>2. CASE j = n
    BY <1>3, <1>4, <1>5, <1>6, <2>1, <2>2
  <2>3. CASE j # n
    BY <1>3, <1>6, <2>1, <2>3
  <2>4. QED
    BY <2>2, <2>3
<1>7. ScopesOK(sd)
  BY <1>3, <1>6 DEF ScopesOK
<1>8. h = [y \in Names |-> h[y]] /\ h[x] = d /\ \A y \in Names : y # x => h[y] = e[y]
  <2>1. e = [y \in Names |-> e[y]]
    BY DEF EnvIs
  <2>2. QED
    BY <2>1
<1> HIDE DEF h
<1>9. ASSUME NEW y \in Names
      PROVE  \E j \in 1 .. n : <<y, h[y]>> \in sd[j] /\ \A l \in j + 1 .. n : ~ Declares(sd[l], y)
  <2>1. CASE y = x
    <3>1. <<y, h[y]>> = b
      BY <1>8, <2>1 DEF b
    <3>2. <<y, h[y]>> \in sd[n]
      BY <1>3, <1>5, <3>1
    <3>3. n \in 1 .. n /\ n + 1 .. n = {}
      OBVIOUS
    <3>4. QED
      BY <3>2, <3>3
  <2>2. CASE y # x
    <3>1. PICK j \in 1 .. n : <<y, e[y]>> \in sc[j] /\ \A l \in j + 1 .. n : ~ Declares(sc[l], y)
      BY DEF EnvIs
    <3>2. <<y, h[y]>> \in sd[j]
      BY <1>3, <1>5, <1>8, <2>2, <3>1
    <3>3. ASSUME NEW l \in j + 1 .. n PROVE ~ Declares(sd[l], y)
      <4>1. ~ Declares(sc[l], y) /\ l \in 1 .. n
        BY <3>1
      <4>2. CASE l = n
        BY <1>3, <1>4, <1>5, <2>2, <4>1, <4>2 DEF Declares
      <4>3. CASE l # n
        BY <1>3, <4>1, <4>3
      <4>4. QED
        BY <4>2, <4>3
    <3>4. QED
      BY <3>2, <3>3
  <2>3. QED
    BY <2>1, <2>2
<1>10. EnvIs(h, sd, n)
  BY <1>8, <1>9 DEF EnvIs
<1>11. \A j \in 1 .. n - 1 : sd[j] = sc[j]
  BY <1>3
<1>12. QED
  BY <1>3, <1>7, <1>10, <1>11 DEF h, last, Rebound, InScope

-----------------------------------------------------------------------------
(***************************************************************************)
(* A task more                                                             *)
(***************************************************************************)
(* What a visit leaves, the visits below it leave too.                     *)
LEMMA PushVisit ==
  ASSUME NEW s, NEW f, NEW g, NEW sc, KLeaves(s, f, g, sc), NEW t, t.task = "visit", Fits(f, t), Suits(g, t, sc),
         NEW o, o = Left(f, g, t, NULL)
  PROVE  KLeaves(Append(s, t), Over(f, t), o, sc)
<1> DEFINE p == Over(f, t)
<1>1. /\ Good(f) /\ Joint(f, g) /\ Solid(g) \in Nat
      /\ f.mode # "start" /\ ~ g.first => EnvIs(g.env, sc, g.depth)
  BY KLeavesFacts
<1>2. IsLeft(f, g, t, NULL, o)
  BY LeftIs
<1>3. /\ Like(p, f) /\ f.mode \in {"stmt", "cond"}
      /\ p.mode \in {"condvisit", "stmtvisit"}
  BY <1>1, VisitLike
<1>4. /\ o.K = Put(g.K, IF f.mode = "cond" THEN Branch(t.node, g.yes, g.no) ELSE t.node, g.env)
      /\ o.env = g.env /\ o.depth = g.depth /\ o.first = g.first /\ o.block = FALSE
      /\ o.at = g.at /\ o.need = g.need
  <2>1. g.first \in BOOLEAN
    BY <1>1 DEF Joint
  <2>2. LeftAt(g, t) = {} /\ LeftNeed(g, t) = {} /\ LeftDepth(g, t) = g.depth
    BY DEF LeftAt, LeftNeed, LeftDepth, IfTasks, LoopTasks
  <2>3. o.at = g.at /\ o.need = g.need /\ o.depth = g.depth
    BY <1>2, <2>2 DEF IsLeft
  <2>4. o.K = Put(g.K, IF f.mode = "cond" THEN Branch(t.node, g.yes, g.no) ELSE t.node, g.env)
    BY <1>2 DEF IsLeft, LeftK
  <2>5. o.env = g.env /\ o.first = g.first /\ o.block = FALSE
    BY <1>2, <2>1 DEF IsLeft
  <2>6. QED
    BY <2>3, <2>4, <2>5
<1>5. Sequence(o.K)
  <2>1. Sequence(g.K)
    BY <1>1 DEF Joint
  <2>2. QED
    BY <1>4, <2>1, PutFacts
<1> HIDE DEF p
<1>6. Joint(p, o)
  <2>1. \A q \in o.at : q = <<q[1], q[2]>> /\ q[2] \in p.held
    BY <1>1, <1>3, <1>4 DEF Joint, Like
  <2>2. o.depth \in Nat \ {0} /\ o.first \in BOOLEAN
    BY <1>1, <1>4 DEF Joint
  <2>3. <<ToExit, ret_BB>> \in o.need
    BY <1>1, <1>3, <1>4 DEF Joint
  <2>4. o.first => o.env = GlobalEnv /\ o.depth = 2
    BY <1>1, <1>4 DEF Joint
  <2>5. QED
    BY <1>3, <1>4, <1>5, <2>1, <2>2, <2>3, <2>4 DEF Joint
<1>7. Solid(o) = Solid(g)
  BY <1>4 DEF Solid
<1>8. ~ o.first => EnvIs(o.env, sc, o.depth)
  BY <1>1, <1>3, <1>4
<1>9. Solid(g) <= Solid(o)
  BY <1>1, <1>7
<1>10. QED
  BY <1>6, <1>8, <1>9, KMore DEF p

(* The rest of a block, in the scope of the block.                         *)
LEMMA PushBody ==
  ASSUME NEW s, NEW f, NEW g, NEW sc, KLeaves(s, f, g, sc), NEW t, t.task = "body", Fits(f, t), Suits(g, t, sc),
         NEW e, NEW o, o = Left(f, g, t, e), EnvIs(e, sc, o.depth)
  PROVE  KLeaves(Append(s, t), Over(f, t), o, sc)
<1> DEFINE p == Over(f, t)
<1>1. Good(f) /\ Joint(f, g) /\ Solid(g) \in Nat
  BY KLeavesFacts
<1>2. IsLeft(f, g, t, e, o)
  BY LeftIs
<1>3. /\ Like(p, f) /\ f.mode = "stmt" /\ p.mode \in {"begin", "stmt"}
  BY <1>1, VisitLike
<1>4. /\ o.K = Put(g.K, From(t.node.body, t.pos), e)
      /\ o.env = e /\ o.depth = (IF t.exit THEN g.depth + 1 ELSE g.depth) /\ o.first = FALSE /\ o.block = TRUE
      /\ o.at = g.at /\ o.need = g.need /\ o.brk = g.brk /\ o.cont = g.cont
  <2>2. LeftAt(g, t) = {} /\ LeftNeed(g, t) = {} /\ LeftDepth(g, t) = IF t.exit THEN g.depth + 1 ELSE g.depth
    BY DEF LeftAt, LeftNeed, LeftDepth, IfTasks, LoopTasks
  <2>3. o.at = g.at /\ o.need = g.need /\ o.depth = IF t.exit THEN g.depth + 1 ELSE g.depth
    BY <1>2, <2>2 DEF IsLeft
  <2>4. o.K = Put(g.K, From(t.node.body, t.pos), e)
    BY <1>2 DEF IsLeft, LeftK
  <2>5. o.env = e /\ o.first = FALSE /\ o.block = TRUE
    BY <1>2 DEF IsLeft
  <2>6. o.brk = g.brk /\ o.cont = g.cont
    BY <1>2 DEF IsLeft, LoopTasks
  <2>7. QED
    BY <2>3, <2>4, <2>5, <2>6
<1>5. /\ Sequence(g.K) /\ Sequence(o.K) /\ Front(o.K) = g.K /\ Last(o.K).stmt = From(t.node.body, t.pos)
      /\ Len(o.K) = Len(g.K) + 1 /\ Len(g.K) \in Nat /\ \A j \in 1 .. Len(g.K) : o.K[j] = g.K[j]
      /\ o.K[Len(g.K) + 1].stmt.k = "seq"
  <2>1. Sequence(g.K)
    BY <1>1 DEF Joint
  <2>2. o.K[Len(g.K) + 1] = Item(From(t.node.body, t.pos), e)
    BY <1>4, <2>1, PutFacts
  <2>3. Item(From(t.node.body, t.pos), e).stmt.k = "seq"
    BY DEF Item, From
  <2>4. QED
    BY <1>4, <2>1, <2>2, <2>3, PutFacts
<1> HIDE DEF p
<1>6. Joint(p, o)
  <2>1. \A q \in o.at : q = <<q[1], q[2]>> /\ q[2] \in p.held
    BY <1>1, <1>3, <1>4 DEF Joint, Like
  <2>2. o.depth \in Nat \ {0} /\ o.first \in BOOLEAN
    <3>1. g.depth \in Nat \ {0}
      BY <1>1 DEF Joint
    <3>2. o.depth \in Nat \ {0}
      BY <1>4, <3>1
    <3>3. QED
      BY <1>4, <3>2
  <2>3. <<ToExit, ret_BB>> \in o.need
    BY <1>1, <1>3, <1>4 DEF Joint
  <2>4. o.block => /\ ~ o.first /\ p.mode \in {"stmt", "begin"} /\ Sequence(Front(o.K))
                   /\ o.K = Put(Front(o.K), Last(o.K).stmt, o.env)
    BY <1>3, <1>4, <1>5
  <2>5. LoopPart(p, o)
    <3>1. SUFFICES ASSUME p.loops # <<>> PROVE LoopPart(p, o)
      BY DEF LoopPart
    <3>2. LoopPart(f, g) /\ p.loops = f.loops
      BY <1>1, <1>3 DEF Joint, Like
    <3>3. /\ <<g.cont, Last(f.loops)[1]>> \in g.need /\ <<g.brk, Last(f.loops)[2]>> \in g.need
          /\ Sequence(g.brk) /\ g.cont = Append(g.brk, Last(g.cont)) /\ Last(g.cont).stmt.k = "while"
          /\ Len(g.cont) <= Len(g.K)
          /\ \A j \in 1 .. Len(g.cont) : g.K[j] = g.cont[j]
          /\ \A j \in Len(g.cont) + 1 .. Len(g.K) : g.K[j].stmt.k # "while"
      BY <3>1, <3>2 DEF LoopPart
    <3> DEFINE l == Len(g.cont)
               n == Len(g.K)
    <3>4. l \in Nat /\ n \in Nat /\ l <= n /\ Len(o.K) = n + 1
      <4>1. Sequence(g.cont)
        <5>1. PICK x : g.cont = Append(g.brk, x) /\ Sequence(g.brk)
          BY <3>3
        <5>2. QED
          BY <5>1, AppendSequence
      <4>2. QED
        BY <1>5, <3>3, <4>1, SequenceFacts1
    <3> HIDE DEF l, n
    <3>5. l <= Len(o.K)
      BY <3>4
    <3>6. \A j \in 1 .. l : o.K[j] = g.cont[j]
      <4>1. \A j \in 1 .. l : j \in 1 .. n
        BY <3>4
      <4>2. QED
        BY <1>5, <3>3, <4>1 DEF l, n
    <3>7. \A j \in l + 1 .. n + 1 : o.K[j].stmt.k # "while"
      <4>1. ASSUME NEW j \in l + 1 .. n + 1 PROVE o.K[j].stmt.k # "while"
        <5>1. j = n + 1 \/ (j \in l + 1 .. n /\ j \in 1 .. n)
          BY <3>4
        <5>2. QED
          BY <1>5, <3>3, <5>1 DEF l, n
      <4>2. QED
        BY <4>1
    <3>8. QED
      BY <1>4, <3>2, <3>3, <3>4, <3>5, <3>6, <3>7 DEF LoopPart, l
  <2>6. QED
    BY <1>3, <1>4, <1>5, <2>1, <2>2, <2>3, <2>4, <2>5 DEF Joint
<1>7. Solid(g) <= Solid(o)
  <2>1. g.depth \in Nat /\ Solid(o) = o.depth /\ Solid(g) \in {g.depth, g.depth - 1}
    BY <1>1, <1>4 DEF Solid, Joint
  <2>2. QED
    BY <1>4, <2>1
<1>8. QED
  BY <1>4, <1>6, <1>7, KMore DEF p

(* The function, before its body.                                          *)
LEMMA PushEnd ==
  ASSUME NEW sc, NEW t, t.task = "endFunc", NEW o, o = Left(Outside, Nowhere, t, NULL)
  PROVE  KLeaves(Append(<<>>, t), Over(Outside, t), o, sc)
<1> DEFINE f == Outside
           g == Nowhere
           p == Over(f, t)
<1>1. f.mode = "start" /\ f.loops = <<>> /\ f.held = {} /\ f.own = {} /\ g.at = {} /\ g.need = {}
  BY DEF Outside, Nowhere
<1>2. Fits(f, t)
  BY <1>1 DEF Fits
<1>3. IsLeft(f, g, t, NULL, o)
  BY LeftIs
<1>4. Fields(f, t, p)
  BY OverFields
<1>5. Joint(f, g) /\ Solid(g) = 1
  BY JointNowhere
<1>6. KLeaves(<<>>, f, g, sc)
  BY KLeavesNothing
<1>7. Suits(g, t, sc)
  BY DEF Suits
<1> HIDE DEF f, g, p
<1>8. /\ o.K = <<>> /\ o.env = GlobalEnv /\ o.depth = 2 /\ o.first = TRUE /\ o.block = FALSE
      /\ o.at = {<<ToExit, ret_BB>>} /\ o.need = {<<ToExit, ret_BB>>}
  <2>1. LeftK(f, g, t, NULL) = <<>> /\ LeftDepth(g, t) = 2
        /\ LeftAt(g, t) = {<<ToExit, ret_BB>>} /\ LeftNeed(g, t) = {<<ToExit, ret_BB>>}
    BY DEF LeftK, LeftDepth, LeftAt, LeftNeed
  <2>2. o.at = {<<ToExit, ret_BB>>} /\ o.need = {<<ToExit, ret_BB>>}
    BY <1>1, <1>3, <2>1 DEF IsLeft
  <2>3. QED
    BY <1>3, <2>1, <2>2 DEF IsLeft
<1>9. p.mode = "stmt" /\ p.loops = <<>> /\ p.held = {ret_BB}
  <2>1. Own(t) = {ret_BB} /\ Entered(t) = {}
    BY DEF Own, Entered, IfTasks, LoopTasks
  <2>2. QED
    BY <1>1, <1>4, <2>1 DEF Fields, ModeOf, LoopsOf, CondTasks, LoopTasks
<1>10. Joint(p, o)
  <2>1. \A q \in o.at : q = <<q[1], q[2]>> /\ q[2] \in p.held
    BY <1>8, <1>9
  <2>2. Sequence(<<>>)
    BY ShortSequences
  <2>3. LoopPart(p, o)
    BY <1>9 DEF LoopPart
  <2>4. o.depth \in Nat \ {0}
    BY <1>8
  <2>5. QED
    BY <1>8, <1>9, <2>1, <2>2, <2>3, <2>4 DEF Joint
<1>11. Solid(g) <= Solid(o)
  BY <1>5, <1>8 DEF Solid
<1>12. QED
  BY <1>2, <1>6, <1>7, <1>8, <1>10, <1>11, KMore DEF p, f, g

(* The blocks a task is left at are blocks it holds.                       *)
LEMMA LeftAtHeld ==
  ASSUME NEW f, NEW g, NEW t, t.task \in IfTasks \cup LoopTasks \cup {"and", "or"}, Fits(f, t)
  PROVE  \A q \in LeftAt(g, t) : q = <<q[1], q[2]>> /\ q[2] \in Own(t) \ Entered(t)
<1>1. t.task \in IfTasks \cup LoopTasks => NewThree(f, t)
  BY FitsKinds DEF Kinds
<1>2. t.task \in {"ifCond", "ifThen", "ifElse", "whileCond", "whileBody", "and", "or"}
  BY DEF IfTasks, LoopTasks
<1> DEFINE b1 == t.bbs[1]
           b2 == t.bbs[2]
           b3 == t.bbs[3]
           E(q) == q = <<q[1], q[2]>> /\ q[2] \in Own(t) \ Entered(t)
<1>3. \A k, b : b \in Own(t) \ Entered(t) => E(<<k, b>>)
  OBVIOUS
<1>4. t.task \in IfTasks \cup LoopTasks => b1 # b2 /\ b1 # b3 /\ b2 # b3 /\ Own(t) = {b1, b2, b3}
  BY <1>1 DEF NewThree, Own, IfTasks, LoopTasks
<1>5. \A q \in LeftAt(g, t) : \E k, b : q = <<k, b>> /\ b \in Own(t) \ Entered(t)
  <2>1. CASE t.task = "ifCond"
    <3>1. Entered(t) = {} /\ b1 \in Own(t) /\ b2 \in Own(t) /\ b3 \in Own(t)
      BY <1>4, <2>1 DEF Entered, IfTasks
    <3> HIDE DEF b1, b2, b3
    <3>2. LeftAt(g, t) = {<<Put(g.K, t.node.then, g.env), b1>>, <<Put(g.K, t.node.else, g.env), b2>>, <<g.K, b3>>}
      BY <2>1 DEF LeftAt, b1, b2, b3
    <3>3. QED
      BY <3>1, <3>2
  <2>2. CASE t.task = "ifThen"
    <3>1. Entered(t) = {b1} /\ b2 \in Own(t) \ Entered(t) /\ b3 \in Own(t) \ Entered(t)
      BY <1>4, <2>2 DEF Entered, IfTasks
    <3> HIDE DEF b1, b2, b3
    <3>2. LeftAt(g, t) = {<<Put(g.K, t.node.else, g.env), b2>>, <<g.K, b3>>}
      BY <2>2 DEF LeftAt, b2, b3
    <3>3. QED
      BY <3>1, <3>2
  <2>3. CASE t.task \in {"ifElse", "whileBody"}
    <3>1. Entered(t) = {b1, b2} /\ b3 \in Own(t) \ Entered(t)
      BY <1>4, <2>3 DEF Entered, IfTasks, LoopTasks
    <3> HIDE DEF b1, b2, b3
    <3>2. LeftAt(g, t) = {<<g.K, b3>>}
      BY <2>3 DEF LeftAt, b3
    <3>3. QED
      BY <3>1, <3>2
  <2>4. CASE t.task = "whileCond"
    <3>1. Entered(t) = {b1} /\ b2 \in Own(t) \ Entered(t) /\ b3 \in Own(t) \ Entered(t)
      BY <1>4, <2>4 DEF Entered, LoopTasks
    <3> HIDE DEF b1, b2, b3
    <3>2. LeftAt(g, t) = {<<Put(Again(g, t), t.node.body, g.env), b2>>, <<g.K, b3>>}
      BY <2>4 DEF LeftAt, b2, b3
    <3>3. QED
      BY <3>1, <3>2
  <2>5. CASE t.task \in {"and", "or"}
    <3>1. Entered(t) = {} /\ b1 \in Own(t)
      BY <2>5 DEF Entered, Own
    <3> HIDE DEF b1
    <3>2. LeftAt(g, t) = {<<Put(g.K, Rhs(g, t), g.env), b1>>}
      BY <2>5 DEF LeftAt, b1
    <3>3. QED
      BY <3>1, <3>2
  <2>6. QED
    BY <1>2, <2>1, <2>2, <2>3, <2>4, <2>5
<1> HIDE DEF E
<1>6. \A q \in LeftAt(g, t) : E(q)
  BY <1>3, <1>5
<1>7. QED
  BY <1>6 DEF E

(* Where break and continue go to in what is left.                         *)
LEMMA PushLoops ==
  ASSUME NEW f, NEW g, Good(f), Joint(f, g), NEW t, t.task \in IfTasks \cup LoopTasks \cup {"and", "or"}, Fits(f, t),
         NEW o, IsLeft(f, g, t, NULL, o), NEW p, Fields(f, t, p)
  PROVE  LoopPart(p, o) /\ Sequence(o.K)
<1>1. Kinds(f, t)
  BY FitsKinds
<1>2. Sequence(g.K)
  BY DEF Joint
<1>3. CASE t.task \in LoopTasks
  <2>1. o.K = Again(g, t) /\ o.cont = Again(g, t) /\ o.brk = g.K
    BY <1>3 DEF IsLeft, LeftK, LoopTasks
  <2> DEFINE a == Item(t.node, g.env)
             w == <<t.bbs[1], t.bbs[3]>>
  <2>2. o.cont = Append(g.K, a) /\ a.stmt.k = "while"
    <3>1. t.node.k = "while"
      BY <1>3 DEF Fits, IfTasks, LoopTasks
    <3>2. QED
      BY <2>1, <3>1 DEF Again, Put, Item
  <2>3. p.loops = Append(f.loops, w) /\ Sequence(f.loops) /\ w[1] = t.bbs[1] /\ w[2] = t.bbs[3]
    BY <1>3 DEF Fields, LoopsOf, Good
  <2>4. <<Again(g, t), t.bbs[1]>> \in o.need /\ <<g.K, t.bbs[3]>> \in o.need
    <3>1. LeftNeed(g, t) \subseteq o.need
      BY DEF IsLeft
    <3>2. <<Again(g, t), t.bbs[1]>> \in LeftNeed(g, t) /\ <<g.K, t.bbs[3]>> \in LeftNeed(g, t)
      BY <1>3 DEF LeftNeed, LoopTasks, IfTasks
    <3>3. QED
      BY <3>1, <3>2
  <2> HIDE DEF a, w
  <2>5. Last(p.loops) = w
    BY <2>3, AppendSequence
  <2>6. Sequence(o.cont) /\ Last(o.cont) = a /\ Len(o.cont) \in Nat
    BY <1>2, <2>2, AppendSequence, SequenceFacts1
  <2>7. \A j \in Len(o.cont) + 1 .. Len(o.cont) : FALSE
    BY <2>6
  <2>8. Len(o.cont) <= Len(o.K)
    BY <2>1, <2>6
  <2>9. LoopPart(p, o)
    BY <1>2, <2>1, <2>2, <2>3, <2>4, <2>5, <2>6, <2>7, <2>8 DEF LoopPart
  <2>10. QED
    BY <2>1, <2>6, <2>9
<1>4. CASE t.task \notin LoopTasks
  <2>1. o.K = g.K /\ o.cont = g.cont /\ o.brk = g.brk /\ g.need \subseteq o.need
    BY <1>4 DEF IsLeft, LeftK, LoopTasks, IfTasks
  <2>2. p.loops = f.loops
    BY <1>4 DEF Fields, LoopsOf
  <2>3. LoopPart(f, g)
    BY <1>1, <1>4 DEF Joint, Kinds, IfTasks, LoopTasks
  <2>4. QED
    BY <1>2, <2>1, <2>2, <2>3 DEF LoopPart
<1>5. QED
  BY <1>3, <1>4

(* Where the condition that is visited goes on to.                         *)
LEMMA PushConds ==
  ASSUME NEW f, NEW g, Good(f), Joint(f, g), NEW t, t.task \in CondTasks, Fits(f, t),
         t.task \in {"and", "or"} /\ g.chain => t.node \in Chains,
         NEW o, IsLeft(f, g, t, NULL, o), NEW p, Fields(f, t, p)
  PROVE  CondPart(p, o)
<1>1. Kinds(f, t)
  BY FitsKinds
<1>2. p.conds = CondsOf(f, t) /\ Sequence(f.conds)
  BY DEF Fields, Good
<1>3. o.env = g.env /\ LeftNeed(g, t) \subseteq o.need /\ g.need \subseteq o.need /\ o.yes = LeftYes(g, t) /\ o.no = LeftNo(g, t)
      /\ o.K = LeftK(f, g, t, NULL) /\ (o.chain <=> t.task = "and")
  BY DEF IsLeft, CondTasks
<1>4. CASE t.task = "ifCond"
  <2> DEFINE w == CondPair(t)
             els == IF Alone(t) THEN t.bbs[3] ELSE t.bbs[2]
  <2>1. Last(p.conds) = w
    <3>1. p.conds = Append(f.conds, w)
      BY <1>2, <1>4 DEF CondsOf
    <3> HIDE DEF w
    <3>2. QED
      BY <1>2, <3>1, AppendSequence
  <2>2. w[1] = t.bbs[1] /\ w[2] = els
    BY <1>4 DEF CondPair
  <2>3. o.K = g.K /\ o.yes = t.node.then /\ o.no = t.node.else
    BY <1>3, <1>4 DEF LeftK, LeftYes, LeftNo, LoopTasks
  <2> HIDE DEF w
  <2>4. <<Put(g.K, t.node.then, g.env), t.bbs[1]>> \in LeftNeed(g, t) /\ <<Put(g.K, t.node.else, g.env), els>> \in LeftNeed(g, t)
    BY <1>4 DEF LeftNeed, IfTasks
  <2> HIDE DEF els
  <2>5. QED
    BY <1>3, <2>1, <2>2, <2>3, <2>4 DEF CondPart
<1>5. CASE t.task = "whileCond"
  <2> DEFINE w == CondPair(t)
  <2>1. Last(p.conds) = w
    <3>1. p.conds = Append(f.conds, w)
      BY <1>2, <1>5 DEF CondsOf
    <3> HIDE DEF w
    <3>2. QED
      BY <1>2, <3>1, AppendSequence
  <2>2. w[1] = t.bbs[2] /\ w[2] = t.bbs[3]
    BY <1>5 DEF CondPair
  <2>3. o.K = Again(g, t) /\ o.yes = t.node.body /\ o.no = BrkStmt
    BY <1>3, <1>5 DEF LeftK, LeftYes, LeftNo, LoopTasks
  <2> HIDE DEF w
  <2>4. <<Put(Again(g, t), t.node.body, g.env), t.bbs[2]>> \in LeftNeed(g, t)
        /\ <<Put(Again(g, t), BrkStmt, g.env), t.bbs[3]>> \in LeftNeed(g, t)
    BY <1>5 DEF LeftNeed, IfTasks, LoopTasks
  <2>5. QED
    BY <1>3, <2>1, <2>2, <2>3, <2>4 DEF CondPart
<1>6. CASE t.task = "and"
  <2>1. f.mode = "cond"
    BY <1>1, <1>6 DEF Kinds
  <2>2. CondPart(f, g)
    BY <2>1 DEF Joint
  <2>3. o.K = g.K /\ o.no = g.no /\ p.conds = f.conds /\ o.chain
    BY <1>2, <1>3, <1>6 DEF LeftK, LeftNo, LoopTasks, CondsOf
  <2>4. QED
    BY <1>3, <2>2, <2>3 DEF CondPart
<1>7. CASE t.task = "or"
  <2> DEFINE w == <<Last(f.conds)[1], t.bbs[1]>>
  <2>1. f.mode = "cond" /\ ~ g.chain
    <3>1. t.node.k = "or"
      BY <1>7 DEF Fits, IfTasks, LoopTasks
    <3>2. t.node \notin Chains
      BY <3>1, SourceAssumption
    <3>3. QED
      BY <1>1, <1>7, <3>2 DEF Kinds
  <2>2. CondPart(f, g)
    BY <2>1 DEF Joint
  <2>3. Last(p.conds) = w
    <3>1. p.conds = Append(f.conds, w)
      BY <1>2, <1>7 DEF CondsOf
    <3> HIDE DEF w
    <3>2. QED
      BY <1>2, <3>1, AppendSequence
  <2>4. w[1] = Last(f.conds)[1] /\ w[2] = t.bbs[1]
    OBVIOUS
  <2>5. o.K = g.K /\ o.yes = g.yes /\ o.no = Rhs(g, t)
    BY <1>3, <1>7 DEF LeftK, LeftYes, LeftNo, LoopTasks
  <2>6. <<Put(g.K, Rhs(g, t), g.env), t.bbs[1]>> \in LeftNeed(g, t)
    BY <1>7 DEF LeftNeed, IfTasks, LoopTasks
  <2> HIDE DEF w
  <2>7. QED
    BY <1>3, <2>1, <2>2, <2>3, <2>4, <2>5, <2>6 DEF CondPart
<1>8. QED
  BY <1>4, <1>5, <1>6, <1>7 DEF CondTasks

(* What waits for a condition or for a branch.                             *)
LEMMA PushTask ==
  ASSUME NEW s, NEW f, NEW g, NEW sc, KLeaves(s, f, g, sc), NEW t, t.task \in IfTasks \cup LoopTasks \cup {"and", "or"},
         Fits(f, t), Suits(g, t, sc), EnvIs(g.env, sc, LeftDepth(g, t)), NEW o, o = Left(f, g, t, NULL)
  PROVE  KLeaves(Append(s, t), Over(f, t), o, sc)
<1> DEFINE p == Over(f, t)
<1>1. Good(f) /\ Joint(f, g) /\ Solid(g) \in Nat
  BY KLeavesFacts
<1>2. IsLeft(f, g, t, NULL, o)
  BY LeftIs
<1>3. Fields(f, t, p) /\ Kinds(f, t)
  BY OverFields, FitsKinds
<1> HIDE DEF p
<1>4. t.task \notin {"endFunc", "visit", "body"}
  BY DEF IfTasks, LoopTasks
<1>5. ~ g.first /\ o.first = FALSE /\ o.block = FALSE /\ o.env = g.env /\ o.depth = LeftDepth(g, t)
  BY <1>2, <1>4 DEF Suits, IsLeft
<1>6. p.mode \in {"stmt", "cond"} /\ (p.mode = "cond" => t.task \in CondTasks)
  BY <1>3, <1>4 DEF Fields, ModeOf
<1>7. g.depth \in Nat \ {0} /\ o.depth \in Nat \ {0} /\ g.depth <= o.depth
  <2>1. g.depth \in Nat \ {0}
    BY <1>1 DEF Joint
  <2>2. o.depth \in {g.depth, g.depth + 1}
    BY <1>4, <1>5 DEF LeftDepth, InBranch
  <2>3. QED
    BY <2>1, <2>2
<1>8. \A q \in o.at : q = <<q[1], q[2]>> /\ q[2] \in p.held
  <2>1. o.at = g.at \cup LeftAt(g, t) /\ p.held = f.held \cup (Own(t) \ Entered(t))
    BY <1>2, <1>3 DEF IsLeft, Fields
  <2>2. \A q \in g.at : q = <<q[1], q[2]>> /\ q[2] \in f.held
    BY <1>1 DEF Joint
  <2>3. \A q \in LeftAt(g, t) : q = <<q[1], q[2]>> /\ q[2] \in Own(t) \ Entered(t)
    BY LeftAtHeld
  <2>4. QED
    BY <2>1, <2>2, <2>3
<1>9. LoopPart(p, o) /\ Sequence(o.K)
  BY <1>1, <1>2, <1>3, PushLoops
<1>10. p.mode = "cond" => CondPart(p, o)
  <2>1. t.task \in {"and", "or"} /\ g.chain => t.node \in Chains
    BY DEF Suits
  <2>2. QED
    BY <1>1, <1>2, <1>3, <1>6, <2>1, PushConds
<1>11. <<ToExit, ret_BB>> \in o.need
  <2>1. f.mode # "start"
    BY <1>3, <1>4 DEF Kinds
  <2>2. QED
    BY <1>1, <1>2, <2>1 DEF Joint, IsLeft
<1>12. Joint(p, o)
  BY <1>5, <1>6, <1>7, <1>8, <1>9, <1>10, <1>11 DEF Joint
<1>13. Solid(g) <= Solid(o)
  BY <1>5, <1>7 DEF Solid
<1>14. EnvIs(o.env, sc, o.depth)
  BY <1>5
<1>15. QED
  BY <1>12, <1>13, <1>14, KMore DEF p

-----------------------------------------------------------------------------
(***************************************************************************)
(* The invariant                                                           *)
(***************************************************************************)
(* The visits in progress, which left o, and the scopes they entered.      *)
Tracks(ag, f, o, sc, pre) ==
  /\ KLeaves(ag, f, o, sc) /\ ag # <<>> /\ ScopesOK(sc) /\ Len(sc) = o.depth
  /\ pre = (f.mode = "stmtvisit" /\ o.first)
  /\ pre => sc = Append(GlobalScope, {})
Filled(p, m, ins, tmp, f, o) ==
  \E R : Simulates(p, m, R, OpenAt(o) \cup Here(m, ins, f.mode, tmp, o), o.need)

KBegun == Begun /\ scope = GlobalScope /\ pre_enter_scope = FALSE
KGoing ==
  \E f, o : Tracks(agenda, f, o, scope, pre_enter_scope) /\ Filled(prog, ir, insert, tmp_val, f, o)
KEnded == agenda = <<>> /\ \E R : Simulates(prog, ir, R, {}, {})
KInv == KBegun \/ KGoing \/ KEnded

(* g is what the visits below the one on top left, o what it left.         *)
KOn(f, g, o) ==
  /\ On(f) /\ KLeaves(Front(agenda), f, g, scope) /\ Joint(f, g) /\ Solid(g) \in Nat
  /\ ~ g.first /\ f.mode # "start" => EnvIs(g.env, scope, g.depth)
  /\ Adds(f, g, Top, Over(f, Top), o, scope)
  /\ ScopesOK(scope) /\ Len(scope) = o.depth
  /\ pre_enter_scope = (Over(f, Top).mode = "stmtvisit" /\ o.first)
  /\ pre_enter_scope => scope = Append(GlobalScope, {})
  /\ Filled(prog, ir, insert, tmp_val, Over(f, Top), o)

(* Before a step of a function that is begun there are these.              *)
LEMMA KOpening ==
  ASSUME IInv, KInv, agenda # <<>>, Top.task # "func"
  PROVE  \E f, g, o : KOn(f, g, o)
<1>1. ~ Begun
  <2>1. SUFFICES ASSUME Begun PROVE FALSE
    OBVIOUS
  <2>2. Last(<<After("func", prog, <<>>)>>) = After("func", prog, <<>>)
    BY ShortSequences, FrontSequence
  <2>3. QED
    BY <2>1, <2>2 DEF Begun, Top, After
<1>2. PICK p, o : Tracks(agenda, p, o, scope, pre_enter_scope) /\ Filled(prog, ir, insert, tmp_val, p, o)
  BY <1>1 DEF KInv, KBegun, KEnded, KGoing
<1>3. PICK f, g : KLeaves(Front(agenda), f, g, scope) /\ Adds(f, g, Last(agenda), p, o, scope)
  BY <1>2, KFewer DEF Tracks
<1>4. Leaves(Front(agenda), f) /\ Joint(f, g) /\ Solid(g) \in Nat /\ (f.mode # "start" /\ ~ g.first => EnvIs(g.env, scope, g.depth))
  BY <1>3, KLeavesFacts
<1>5. PICK f2 : On(f2)
  BY Opening
<1>6. f2 = f
  BY <1>4, <1>5, LeavesOnce DEF On
<1>7. p = Over(f, Top) /\ Top = Last(agenda)
  BY <1>3 DEF Adds, Top
<1>8. QED
  BY <1>2, <1>3, <1>4, <1>5, <1>6, <1>7 DEF KOn, Tracks

(* It holds when the visits and the blocks are as they should be.          *)
LEMMA KClosing ==
  ASSUME NEW f, NEW o, Tracks(agenda', f, o, scope', pre_enter_scope'), prog' = prog,
         Filled(prog, ir', insert', tmp_val', f, o)
  PROVE  KInv'
BY DEF KInv, KGoing

(* After a return to the tasks below.                                      *)
LEMMA TracksBack ==
  ASSUME NEW s, NEW f, NEW g, NEW sc, KLeaves(s, f, g, sc), f.mode \in {"stmt", "cond"},
         NEW sd, ScopesOK(sd), Len(sd) = g.depth, \A j \in 1 .. Solid(g) : sd[j] = sc[j]
  PROVE  Tracks(s, f, g, sd, FALSE)
<1>1. KLeaves(s, f, g, sd)
  BY KScope
<1>2. s # <<>>
  <2>1. Leaves(s, f)
    BY KLeavesFacts
  <2>2. s = <<>> => f = Outside
    BY <2>1, LeavesGood
  <2>3. Outside.mode = "start"
    BY DEF Outside
  <2>4. QED
    BY <2>2, <2>3
<1>3. QED
  BY <1>1, <1>2 DEF Tracks

-----------------------------------------------------------------------------
(* What is left to do at a place.                                          *)
LEMMA TriplesFacts ==
  /\ \A g : Triples(OpenAt(g))
  /\ \A k, b, w : Triples({<<k, b, w>>})
  /\ \A P, Q : Triples(P) /\ Triples(Q) => Triples(P \cup Q)
  /\ Triples({})
<1>1. ASSUME NEW g PROVE Triples(OpenAt(g))
  BY DEF Triples, OpenAt
<1>2. ASSUME NEW k, NEW b, NEW w PROVE Triples({<<k, b, w>>})
  BY DEF Triples
<1>3. ASSUME NEW P, NEW Q, Triples(P), Triples(Q) PROVE Triples(P \cup Q)
  BY <1>3 DEF Triples
<1>4. Triples({})
  BY DEF Triples
<1>5. QED
  BY <1>1, <1>2, <1>3, <1>4

(* Here is one thing, one for each value of a condition, or none.          *)
LEMMA HereIs ==
  ASSUME NEW m, NEW ins, NEW mode, NEW tmp, NEW g
  PROVE  LET h == Here(m, ins, mode, tmp, g) IN
         /\ IsTerminated(m, ins) => h = {}
         /\ ~ IsTerminated(m, ins) /\ mode # "cond" => h = {<<g.K, ins, {}>>}
         /\ ~ IsTerminated(m, ins) /\ mode = "cond" =>
              h = {<<Put(g.K, IF x THEN g.yes ELSE g.no, g.env), ins, {<<tmp, x>>}>> : x \in BOOLEAN}
BY DEF Here

(* In either case a set of triples.                                        *)
LEMMA HereTriples ==
  ASSUME NEW m, NEW ins, NEW mode, NEW tmp, NEW g
  PROVE  Triples(Here(m, ins, mode, tmp, g))
<1>1. CASE IsTerminated(m, ins)
  BY <1>1, HereIs, TriplesFacts
<1>2. CASE ~ IsTerminated(m, ins) /\ mode # "cond"
  <2>1. Here(m, ins, mode, tmp, g) = {<<g.K, ins, {}>>}
    BY <1>2, HereIs
  <2>2. Triples({<<g.K, ins, {}>>})
    BY TriplesFacts
  <2>3. QED
    BY <2>1, <2>2
<1>3. CASE ~ IsTerminated(m, ins) /\ mode = "cond"
  <2>1. \A q \in Here(m, ins, mode, tmp, g) : \E k, b, w : q = <<k, b, w>>
    BY <1>3, HereIs
  <2>2. QED
    BY <2>1 DEF Triples
<1>4. QED
  BY <1>1, <1>2, <1>3

(* Blocks left for later are held blocks.                                  *)
OnlyHeld(g, H) == \A q \in g.at : q = <<q[1], q[2]>> /\ q[2] \in H

(* What is left at the open blocks is left at held blocks, and nothing is  *)
(* known there of the conditions.                                          *)
LEMMA OpenHeld ==
  ASSUME NEW g, NEW H, OnlyHeld(g, H), NEW k, NEW b, NEW w, <<k, b, w>> \in OpenAt(g)
  PROVE  b \in H /\ w = {} /\ <<k, b>> \in g.at
<1>1. PICK q \in g.at : <<k, b, w>> = <<q[1], q[2], {}>>
  BY DEF OpenAt
<1>2. k = q[1] /\ b = q[2] /\ w = {} /\ q = <<q[1], q[2]>> /\ q[2] \in H
  BY <1>1 DEF OnlyHeld
<1>3. QED
  BY <1>2

(* What a visit leaves at a block is left there.                           *)
LEMMA HeldOpen ==
  ASSUME NEW g, NEW k, NEW b, <<k, b>> \in g.at
  PROVE  <<k, b, {}>> \in OpenAt(g)
<1> DEFINE q == <<k, b>>
<1>1. q[1] = k /\ q[2] = b /\ q \in g.at
  OBVIOUS
<1> HIDE DEF q
<1>2. <<q[1], q[2], {}>> \in OpenAt(g)
  BY <1>1 DEF OpenAt
<1>3. QED
  BY <1>1, <1>2

(* What grows goes on to have the entries it had.                          *)
LEMMA GrownSimulates ==
  ASSUME NEW p, NEW m, NEW R, NEW O, NEW need, Simulates(p, m, R, O, need), NEW n, NEW P,
         \E S : Grown(p.void, R, n, S, P)
  PROVE  \E S : Simulates(p, n, S, P, need)
BY DEF Grown, Simulates, Entry

AllDo(v, R, T, Q, a, i) == \A k, b, w : <<k, b, w>> \in Q => b = a /\ Does(v, R, T, k, a, i, w)

(* One instruction at the end of a block.                                  *)
LEMMA StepAppend ==
  ASSUME NEW p, NEW m, NEW R, NEW g, NEW H, OnlyHeld(g, H), NEW a, a \notin H, NEW Q, NEW need,
         Simulates(p, m, R, OpenAt(g) \cup Q, need), NEW n, NEW i, Appended(m, n, a, i), NEW P, Triples(P),
         AllDo(p.void, R, OpenAt(g) \cup P, Q, a, i)
  PROVE  \E S : Simulates(p, n, S, OpenAt(g) \cup P, need)
<1> DEFINE O == OpenAt(g) \cup Q
           T == OpenAt(g) \cup P
<1>1. Triples(T)
  BY TriplesFacts
<1>2. ASSUME NEW k, NEW b, NEW w, <<k, b, w>> \in O
      PROVE  IF b = a THEN Does(p.void, R, T, k, a, i, w) ELSE <<k, b, w>> \in T
  <2>1. CASE <<k, b, w>> \in OpenAt(g)
    <3>1. b # a
      BY <2>1, OpenHeld
    <3>2. QED
      BY <2>1, <3>1
  <2>2. CASE <<k, b, w>> \in Q
    BY <2>2 DEF AllDo
  <2>3. QED
    BY <1>2, <2>1, <2>2
<1>3. Sim(p.void, m, R, O)
  BY DEF Simulates
<1> HIDE DEF O, T
<1>4. \E S : Grown(p.void, R, n, S, T)
  BY <1>1, <1>2, <1>3, SimAppend
<1>5. QED
  BY <1>4, GrownSimulates DEF O, T

(* One that does what is left to do in the block.                          *)
LEMMA StepOne ==
  ASSUME NEW p, NEW m, NEW R, NEW g, NEW H, OnlyHeld(g, H), NEW a, a \notin H, NEW c, NEW z, NEW need,
         Simulates(p, m, R, OpenAt(g) \cup {<<c, a, z>>}, need), NEW n, NEW i, Appended(m, n, a, i), NEW P, Triples(P),
         Does(p.void, R, OpenAt(g) \cup P, c, a, i, z)
  PROVE  \E S : Simulates(p, n, S, OpenAt(g) \cup P, need)
<1> DEFINE T == OpenAt(g) \cup P
           Q == {<<c, a, z>>}
<1>1. ASSUME NEW k, NEW b, NEW w, <<k, b, w>> \in Q
      PROVE  b = a /\ Does(p.void, R, T, k, a, i, w)
  <2>1. k = c /\ b = a /\ w = z
    BY <1>1
  <2>2. Does(p.void, R, T, c, a, i, z)
    OBVIOUS
  <2> HIDE DEF T, Q
  <2>3. QED
    BY <2>1, <2>2
<1>2. AllDo(p.void, R, T, Q, a, i)
  <2> HIDE DEF T, Q
  <2>1. QED
    BY <1>1 DEF AllDo
<1>3. QED
  BY <1>2, StepAppend

(* The source unfolds.                                                     *)
LEMMA StepUnfold ==
  ASSUME NEW p, NEW m, Shape(m), NEW R, NEW A, NEW a, NEW k, NEW w, NEW need, Triples(A),
         Simulates(p, m, R, A \cup {<<k, a, w>>}, need), NEW u, Unfolds(p.void, k, u)
  PROVE  \E S : Simulates(p, m, S, A \cup {<<u, a, w>>}, need)
<1> DEFINE O == A \cup {<<k, a, w>>}
           T == A \cup {<<u, a, w>>}
<1>1. Triples(T)
  BY TriplesFacts
<1>2. ASSUME NEW k1, NEW b1, NEW w1, <<k1, b1, w1>> \in O
      PROVE  <<k1, b1, w1>> \in T \/ \E u1 : Unfolds(p.void, k1, u1) /\ <<u1, b1, w1>> \in T
  <2>1. CASE <<k1, b1, w1>> \in A
    BY <2>1
  <2>2. CASE <<k1, b1, w1>> = <<k, a, w>>
    <3>1. k1 = k /\ b1 = a /\ w1 = w
      BY <2>2
    <3>2. QED
      BY <3>1
  <2>3. QED
    BY <1>2, <2>1, <2>2
<1>3. Sim(p.void, m, R, O)
  BY DEF Simulates
<1> HIDE DEF O, T
<1>4. \E S : Grown(p.void, R, m, S, T)
  BY <1>1, <1>2, <1>3, SimUnfold
<1>5. QED
  BY <1>4, GrownSimulates DEF O, T

(* More may be left to do than is.                                         *)
LEMMA StepMore ==
  ASSUME NEW p, NEW m, Shape(m), NEW R, NEW O, NEW need, Simulates(p, m, R, O, need), NEW P, Triples(P), O \subseteq P
  PROVE  \E S : Simulates(p, m, S, P, need)
<1>1. Sim(p.void, m, R, O)
  BY DEF Simulates
<1>2. \E S : Grown(p.void, R, m, S, P)
  <2>1. \A k, b, w : <<k, b, w>> \in O => <<k, b, w>> \in P \/ \E u : Unfolds(p.void, k, u) /\ <<u, b, w>> \in P
    OBVIOUS
  <2>2. QED
    BY <1>1, <2>1, SimUnfold
<1>3. QED
  BY <1>2, GrownSimulates

(* Fewer entries may be needed than there are.                             *)
LEMMA FewerNeeds ==
  ASSUME NEW p, NEW m, NEW R, NEW O, NEW need, Simulates(p, m, R, O, need), NEW less, less \subseteq need
  PROVE  Simulates(p, m, R, O, less)
BY DEF Simulates

-----------------------------------------------------------------------------
(***************************************************************************)
(* Visits of statements                                                    *)
(***************************************************************************)
(* A node of kind k is visited, g is what the visits below left to do.     *)
Visited(f, g) == Put(g.K, IF f.mode = "cond" THEN Branch(node, g.yes, g.no) ELSE node, g.env)
VisitOn(f, g, k) ==
  /\ prog \in Programs /\ Good(f) /\ KLeaves(Front(agenda), f, g, scope) /\ Joint(f, g) /\ Solid(g) \in Nat
  /\ OnlyHeld(g, f.held) /\ Sequence(g.K)
  /\ UnderWay(ir, insert, f.held) /\ Shape(ir) /\ insert \in BBs(ir) /\ insert \notin f.held /\ ~ IsTerminated(ir, insert)
  /\ f.own \subseteq BBs(ir) /\ f.held \subseteq f.own
  /\ While_Stack = f.loops /\ Or_Cond_Stack = f.conds
  /\ ScopesOK(scope) /\ Len(scope) = g.depth
  /\ Top.task = "visit" /\ node.k = k /\ Suits(g, Top, scope)
  /\ ~ g.first => EnvIs(g.env, scope, g.depth)
  /\ pre_enter_scope = (f.mode = "stmt" /\ g.first)
  /\ pre_enter_scope => scope = Append(GlobalScope, {})
  /\ k # "block" => ~ g.first /\ pre_enter_scope = FALSE
  /\ k \in {"atom", "and", "or"} => f.mode = "cond" /\ node \in Conds
  /\ k \notin {"atom", "and", "or"} =>
       f.mode = "stmt" /\ Statement(f, node) /\ StmtParts(f, node) /\ cur_basic_block_list = <<insert>>
  /\ \E R : Simulates(prog, ir, R, OpenAt(g) \cup {<<Visited(f, g), insert, {}>>}, g.need)

(* What a visit finds.                                                     *)
LEMMA KVisit ==
  ASSUME IInv, KInv, NEW k, Visiting(k)
  PROVE  \E f, g : VisitOn(f, g, k)
<1>1. agenda # <<>> /\ Top.task = "visit" /\ node.k = k /\ node = Top.node
  BY DEF Visiting, Doing, node
<1>2. PICK f, g, o : KOn(f, g, o)
  BY <1>1, KOpening
<1>3. PICK h : /\ On(h) /\ Like(Over(h, Top), h)
               /\ k \in {"atom", "and", "or"} => h.mode = "cond" /\ Top.node \in Conds
                    /\ Over(h, Top).mode = "condvisit" /\ ~ IsTerminated(ir, insert)
               /\ k \notin {"atom", "and", "or"} => h.mode = "stmt" /\ Statement(h, Top.node)
                    /\ Over(h, Top).mode = "stmtvisit" /\ ~ IsTerminated(ir, insert)
                    /\ cur_basic_block_list = <<insert>> /\ StmtParts(h, Top.node)
  BY VisitOpening
<1>4. h = f
  <2>1. Leaves(Front(agenda), h) /\ Leaves(Front(agenda), f)
    BY <1>2, <1>3 DEF KOn, On
  <2>2. QED
    BY <2>1, LeavesOnce
<1> DEFINE p == Over(f, Top)
<1>5. /\ On(f) /\ KLeaves(Front(agenda), f, g, scope) /\ Joint(f, g) /\ Solid(g) \in Nat
      /\ ~ g.first /\ f.mode # "start" => EnvIs(g.env, scope, g.depth)
      /\ Suits(g, Top, scope) /\ (\E e : o = Left(f, g, Top, e))
      /\ ScopesOK(scope) /\ Len(scope) = o.depth
      /\ pre_enter_scope = (p.mode = "stmtvisit" /\ o.first)
      /\ pre_enter_scope => scope = Append(GlobalScope, {})
      /\ Filled(prog, ir, insert, tmp_val, p, o)
  BY <1>2 DEF KOn, Adds
<1>6. /\ prog \in Programs /\ Good(f) /\ Good(p) /\ At(ir, insert, cur_basic_block_list, While_Stack, Or_Cond_Stack, p)
  BY <1>5 DEF On
<1>7. PICK e : o = Left(f, g, Top, e)
  BY <1>5
<1>8. IsLeft(f, g, Top, e, o)
  BY <1>7, LeftIs
<1>9. Like(p, f)
  BY <1>3, <1>4
<1>10. p.mode \in {"condvisit", "stmtvisit"} /\ (p.mode = "stmtvisit" <=> f.mode = "stmt") /\ f.mode \in {"stmt", "cond"}
       /\ ~ IsTerminated(ir, insert)
  BY <1>3, <1>4
<1> HIDE DEF p
<1>11. /\ UnderWay(ir, insert, f.held) /\ Shape(ir) /\ insert \in BBs(ir) /\ insert \notin f.held
       /\ f.own \subseteq BBs(ir) /\ f.held \subseteq f.own
       /\ While_Stack = f.loops /\ Or_Cond_Stack = f.conds
  BY <1>6, <1>9, AtFacts DEF Like
<1>12. /\ o.K = Visited(f, g) /\ o.depth = g.depth /\ o.at = g.at /\ o.need = g.need
  <2>1. LeftAt(g, Top) = {} /\ LeftNeed(g, Top) = {} /\ LeftDepth(g, Top) = g.depth
    BY <1>1 DEF LeftAt, LeftNeed, LeftDepth, IfTasks, LoopTasks
  <2>2. o.at = g.at /\ o.need = g.need /\ o.depth = g.depth
    BY <1>8, <2>1 DEF IsLeft
  <2>3. o.K = Visited(f, g)
    BY <1>1, <1>8 DEF IsLeft, LeftK, Visited
  <2>4. QED
    BY <2>2, <2>3
<1>13. o.first = g.first
  <2>1. g.first \in BOOLEAN
    BY <1>5 DEF Joint
  <2>2. QED
    BY <1>1, <1>8, <2>1 DEF IsLeft
<1>14. Here(ir, insert, p.mode, tmp_val, o) = {<<Visited(f, g), insert, {}>>}
  <2>1. p.mode # "cond"
    BY <1>10
  <2>2. QED
    BY <1>10, <1>12, <2>1, HereIs
<1>15. \E R : Simulates(prog, ir, R, OpenAt(g) \cup {<<Visited(f, g), insert, {}>>}, g.need)
  <2>1. OpenAt(o) = OpenAt(g)
    BY <1>12 DEF OpenAt
  <2>2. QED
    BY <1>5, <1>12, <1>14, <2>1 DEF Filled
<1>16. k # "block" => ~ g.first
  BY <1>1, <1>5 DEF Suits
<1>17. pre_enter_scope = (f.mode = "stmt" /\ g.first)
  BY <1>5, <1>10, <1>13
<1>18. k # "block" => pre_enter_scope = FALSE
  BY <1>16, <1>17
<1>19. OnlyHeld(g, f.held) /\ Sequence(g.K)
  BY <1>5 DEF Joint, OnlyHeld
<1>20. ~ g.first => EnvIs(g.env, scope, g.depth)
  BY <1>5, <1>10
<1>21. /\ k \in {"atom", "and", "or"} => f.mode = "cond" /\ node \in Conds
       /\ k \notin {"atom", "and", "or"} =>
            f.mode = "stmt" /\ Statement(f, node) /\ StmtParts(f, node) /\ cur_basic_block_list = <<insert>>
  BY <1>1, <1>3, <1>4
<1>22. Len(scope) = g.depth /\ ScopesOK(scope) /\ (pre_enter_scope => scope = Append(GlobalScope, {}))
  BY <1>5, <1>12
<1>23. QED
  BY <1>1, <1>5, <1>6, <1>10, <1>11, <1>15, <1>16, <1>17, <1>18, <1>19, <1>20, <1>21, <1>22 DEF VisitOn

(* A statement or a condition that is done.                                *)
LEMMA VisitEnds ==
  ASSUME NEW f, NEW g, NEW k, VisitOn(f, g, k), k # "block", Return, prog' = prog,
         scope' = scope, pre_enter_scope' = pre_enter_scope,
         NEW P, P = OpenAt(g) \cup Here(ir', insert', f.mode, tmp_val', g),
         \E R : Simulates(prog, ir', R, P, g.need)
  PROVE  KInv'
<1>1. /\ KLeaves(Front(agenda), f, g, scope) /\ ScopesOK(scope) /\ Len(scope) = g.depth
      /\ f.mode \in {"stmt", "cond"} /\ pre_enter_scope = FALSE
  BY DEF VisitOn
<1>2. Tracks(Front(agenda), f, g, scope, FALSE)
  BY <1>1, TracksBack
<1>3. Tracks(agenda', f, g, scope', pre_enter_scope')
  BY <1>1, <1>2 DEF Return
<1>4. Filled(prog, ir', insert', tmp_val', f, g)
  BY DEF Filled
<1>5. QED
  BY <1>3, <1>4, KClosing

(* A statement that computes: its name stands for what the source says.    *)
LEMMA VisitActSame ==
  ASSUME IInv, KInv, VisitAct
  PROVE  KInv'
<1> DEFINE i == [op |-> "act", id |-> node.id, decl |-> find(scope, node.name)]
<1>1. /\ Visiting("act") /\ Return /\ ir' = Emit(ir, insert, i) /\ prog' = prog
      /\ insert' = insert /\ scope' = scope /\ pre_enter_scope' = pre_enter_scope
  BY DEF VisitAct
<1>2. PICK f, g : VisitOn(f, g, "act")
  BY <1>1, KVisit
<1>3. /\ f.mode = "stmt" /\ Statement(f, node) /\ node.k = "act" /\ ~ g.first /\ EnvIs(g.env, scope, g.depth)
      /\ ScopesOK(scope) /\ Len(scope) = g.depth /\ OnlyHeld(g, f.held) /\ insert \notin f.held /\ Sequence(g.K)
      /\ UnderWay(ir, insert, f.held) /\ ~ IsTerminated(ir, insert) /\ Shape(ir) /\ insert \in BBs(ir)
  BY <1>2 DEF VisitOn
<1>4. PICK R : Simulates(prog, ir, R, OpenAt(g) \cup {<<Visited(f, g), insert, {}>>}, g.need)
  BY <1>2 DEF VisitOn
<1> DEFINE c == Visited(f, g)
<1>5. c = Put(g.K, node, g.env)
  BY <1>3 DEF Visited
<1>6. find(scope, node.name) = g.env[node.name]
  <2>1. node.name \in Names
    BY <1>3, SourceAssumption DEF Statement
  <2>2. QED
    BY <1>3, <2>1, FindIs
<1>7. Shows(prog.void, c) /\ Shown(c) = i
  <2>1. c # <<>> /\ Last(c).stmt = node /\ Last(c).env = g.env
    BY <1>3, <1>5, PutFacts
  <2> HIDE DEF c
  <2>2. QED
    BY <1>3, <1>6, <2>1 DEF Shows, Shown
<1>8. i.op = "act"
  OBVIOUS
<1> HIDE DEF i, c
<1> DEFINE P == {<<g.K, insert, {}>>}
<1>9. Appended(ir, ir', insert, i)
  BY <1>1, <1>3, EmitAppends
<1>10. ~ IsTerminated(ir', insert)
  BY <1>1, <1>3, <1>8, EmitOpen
<1>11. Does(prog.void, R, OpenAt(g) \cup P, c, insert, i, {})
  <2>1. i.op \notin Terminators
    BY <1>8 DEF Terminators
  <2>2. \A u, z : Happens(c, u, z) => u = g.K /\ z = {}
    BY <1>3, <1>5, PutHappens
  <2>3. QED
    BY <1>7, <2>1, <2>2 DEF Does
<1>12. Triples(P)
  BY TriplesFacts
<1>13. \E S : Simulates(prog, ir', S, OpenAt(g) \cup P, g.need)
  <2>1. Simulates(prog, ir, R, OpenAt(g) \cup {<<c, insert, {}>>}, g.need)
    BY <1>4 DEF c
  <2> HIDE DEF P
  <2>2. QED
    BY <1>3, <1>9, <1>11, <1>12, <2>1, StepOne
<1>14. P = Here(ir', insert', f.mode, tmp_val', g)
  BY <1>1, <1>3, <1>10, HereIs
<1> HIDE DEF P
<1>15. QED
  BY <1>1, <1>2, <1>13, <1>14, VisitEnds

(* An atom is evaluated, and both its values go on.                        *)
LEMMA VisitAtomSame ==
  ASSUME IInv, KInv, VisitAtom
  PROVE  KInv'
<1> DEFINE i == [op |-> "eval", id |-> node.id]
<1>1. /\ Visiting("atom") /\ Return /\ ir' = Emit(ir, insert, i) /\ prog' = prog /\ tmp_val' = node.id
      /\ insert' = insert /\ scope' = scope /\ pre_enter_scope' = pre_enter_scope
  BY DEF VisitAtom
<1>2. PICK f, g : VisitOn(f, g, "atom")
  BY <1>1, KVisit
<1>3. /\ f.mode = "cond" /\ node \in Conds /\ node.k = "atom"
      /\ OnlyHeld(g, f.held) /\ insert \notin f.held /\ Sequence(g.K)
      /\ UnderWay(ir, insert, f.held) /\ ~ IsTerminated(ir, insert) /\ Shape(ir) /\ insert \in BBs(ir)
  BY <1>2 DEF VisitOn
<1>4. PICK R : Simulates(prog, ir, R, OpenAt(g) \cup {<<Visited(f, g), insert, {}>>}, g.need)
  BY <1>2 DEF VisitOn
<1> DEFINE c == Visited(f, g)
           s == Branch(node, g.yes, g.no)
<1>5. c = Put(g.K, s, g.env) /\ s.k = "branch" /\ s.cond = node /\ s.yes = g.yes /\ s.no = g.no
  BY <1>3 DEF Visited, Branch
<1> HIDE DEF s
<1>7. Shows(prog.void, c) /\ Shown(c) = i
  <2>1. c # <<>> /\ Last(c).stmt = s
    BY <1>3, <1>5, PutFacts
  <2> HIDE DEF c
  <2>2. QED
    BY <1>3, <1>5, <2>1 DEF Shows, Shown
<1>8. i.op = "eval"
  OBVIOUS
<1> HIDE DEF i, c
<1> DEFINE P == Here(ir', insert', f.mode, tmp_val', g)
<1>9. Appended(ir, ir', insert, i)
  BY <1>1, <1>3, EmitAppends
<1>10. ~ IsTerminated(ir', insert)
  BY <1>1, <1>3, <1>8, EmitOpen
<1>11. Does(prog.void, R, OpenAt(g) \cup P, c, insert, i, {})
  <2>1. i.op \notin Terminators
    BY <1>8 DEF Terminators
  <2>2. ASSUME NEW u, NEW z, Happens(c, u, z)
        PROVE  <<u, insert, z>> \in P
    <3>1. PICK x \in BOOLEAN : u = Put(g.K, IF x THEN g.yes ELSE g.no, g.env) /\ z = {<<node.id, x>>}
      BY <1>3, <1>5, <2>2, PutHappens
    <3>2. P = {<<Put(g.K, IF y THEN g.yes ELSE g.no, g.env), insert, {<<node.id, y>>}>> : y \in BOOLEAN}
      BY <1>1, <1>3, <1>10, HereIs
    <3> HIDE DEF P
    <3>3. QED
      BY <3>1, <3>2
  <2>3. QED
    BY <1>7, <2>1, <2>2 DEF Does
<1>12. Triples(P)
  BY HereTriples
<1>13. \E S : Simulates(prog, ir', S, OpenAt(g) \cup P, g.need)
  <2>1. Simulates(prog, ir, R, OpenAt(g) \cup {<<c, insert, {}>>}, g.need)
    BY <1>4 DEF c
  <2> HIDE DEF P
  <2>2. QED
    BY <1>3, <1>9, <1>11, <1>12, <2>1, StepOne
<1>14. QED
  BY <1>1, <1>2, <1>13, VisitEnds

(* The empty statement does nothing.                                       *)
LEMMA EmptyStmtSame ==
  ASSUME IInv, KInv, EmptyStmt
  PROVE  KInv'
<1>1. /\ Visiting("empty") /\ Return /\ ir' = ir /\ prog' = prog
      /\ insert' = insert /\ scope' = scope /\ pre_enter_scope' = pre_enter_scope
  BY DEF EmptyStmt
<1>2. PICK f, g : VisitOn(f, g, "empty")
  BY <1>1, KVisit
<1>3. /\ f.mode = "stmt" /\ node.k = "empty" /\ Sequence(g.K) /\ Shape(ir) /\ ~ IsTerminated(ir, insert)
  BY <1>2 DEF VisitOn
<1>4. PICK R : Simulates(prog, ir, R, OpenAt(g) \cup {<<Visited(f, g), insert, {}>>}, g.need)
  BY <1>2 DEF VisitOn
<1> DEFINE c == Visited(f, g)
           P == {<<g.K, insert, {}>>}
<1>5. Unfolds(prog.void, c, g.K)
  <2>1. c = Put(g.K, node, g.env)
    BY <1>3 DEF Visited
  <2> HIDE DEF c
  <2>2. QED
    BY <1>3, <2>1, PutUnfolds
<1>6. \E S : Simulates(prog, ir, S, OpenAt(g) \cup P, g.need)
  <2> HIDE DEF c
  <2>1. Triples(OpenAt(g))
    BY TriplesFacts
  <2>2. QED
    BY <1>3, <1>4, <1>5, <2>1, StepUnfold DEF c
<1>7. P = Here(ir', insert', f.mode, tmp_val', g)
  BY <1>1, <1>3, HereIs
<1> HIDE DEF P
<1>8. QED
  BY <1>1, <1>2, <1>6, <1>7, VisitEnds

(* A jump to where the rest is done.                                       *)
LEMMA StepJump ==
  ASSUME NEW p, NEW m, Shape(m), NEW R, NEW g, NEW H, OnlyHeld(g, H), NEW a \in BBs(m), a \notin H, NEW c, NEW z, NEW need,
         Simulates(p, m, R, OpenAt(g) \cup {<<c, a, z>>}, need), NEW b \in BBs(m), <<c, b>> \in need,
         NEW n, n = create_br(m, a, b)
  PROVE  IsTerminated(n, a) /\ \E S : Simulates(p, n, S, OpenAt(g), need)
<1> DEFINE i == [op |-> "br", to |-> b]
           q == <<c, b>>
<1>1. Appended(m, n, a, i)
  BY BrAppends
<1>2. i.op = "br" /\ i.to = b /\ i.op \in Terminators
  BY DEF Terminators
<1>3. Entry(R, c, b)
  <2>1. q[1] = c /\ q[2] = b /\ q \in need
    OBVIOUS
  <2> HIDE DEF q
  <2>2. QED
    BY <2>1 DEF Simulates
<1> HIDE DEF i, q
<1>4. Does(p.void, R, OpenAt(g) \cup {}, c, a, i, z)
  BY <1>2, <1>3 DEF Does
<1>5. \E S : Simulates(p, n, S, OpenAt(g) \cup {}, need)
  BY <1>1, <1>4, StepOne, TriplesFacts
<1>6. IsTerminated(n, a)
  BY <1>1, <1>2 DEF Appended
<1>7. QED
  BY <1>5, <1>6

(* return shows its value, if there is one, and goes to the exit.          *)
LEMMA ReturnStmtSame ==
  ASSUME IInv, KInv, ReturnStmt
  PROVE  KInv'
<1> DEFINE i == [op |-> "act", id |-> node.id, decl |-> NULL]
           m == IF prog.void THEN ir ELSE Emit(ir, insert, i)
<1>1. /\ Visiting("ret") /\ Return /\ ir' = create_br(m, insert, ret_BB) /\ prog' = prog
      /\ insert' = insert /\ scope' = scope /\ pre_enter_scope' = pre_enter_scope
  BY DEF ReturnStmt
<1>2. PICK f, g : VisitOn(f, g, "ret")
  BY <1>1, KVisit
<1>3. /\ f.mode = "stmt" /\ node.k = "ret" /\ OnlyHeld(g, f.held) /\ insert \notin f.held /\ Sequence(g.K)
      /\ UnderWay(ir, insert, f.held) /\ ~ IsTerminated(ir, insert) /\ Shape(ir) /\ insert \in BBs(ir)
      /\ Joint(f, g) /\ Good(f) /\ f.own \subseteq BBs(ir) /\ f.held \subseteq f.own /\ prog \in Programs
  BY <1>2 DEF VisitOn
<1>4. PICK R : Simulates(prog, ir, R, OpenAt(g) \cup {<<Visited(f, g), insert, {}>>}, g.need)
  BY <1>2 DEF VisitOn
<1> DEFINE c == Visited(f, g)
           P == {<<ToExit, insert, {}>>}
<1>5. c = Put(g.K, node, g.env)
  BY <1>3 DEF Visited
<1>6. c # <<>> /\ Last(c).stmt = node
  BY <1>3, <1>5, PutFacts
<1>7. i.op = "act"
  OBVIOUS
<1>8. ~ prog.void => Shows(prog.void, c) /\ Shown(c) = i
  <2> HIDE DEF c
  <2>1. QED
    BY <1>3, <1>6 DEF Shows, Shown
<1> HIDE DEF i, c
<1>9. prog.void \in BOOLEAN
  BY <1>3, FunctionAssumption
<1>10. Triples(OpenAt(g)) /\ Triples(P)
  BY TriplesFacts
<1>11. Shape(m) /\ BBs(m) = BBs(ir) /\ \E S : Simulates(prog, m, S, OpenAt(g) \cup P, g.need)
  <2>1. CASE prog.void
    <3>1. m = ir
      BY <2>1
    <3>2. Unfolds(prog.void, c, ToExit)
      BY <1>3, <1>5, <2>1, PutUnfolds
    <3>3. Simulates(prog, ir, R, OpenAt(g) \cup {<<c, insert, {}>>}, g.need)
      BY <1>4 DEF c
    <3> HIDE DEF m
    <3>4. \E S : Simulates(prog, ir, S, OpenAt(g) \cup P, g.need)
      BY <1>3, <1>10, <3>2, <3>3, StepUnfold
    <3> HIDE DEF P
    <3>5. QED
      BY <1>3, <3>1, <3>4
  <2>2. CASE ~ prog.void
    <3>1. m = Emit(ir, insert, i)
      BY <2>2
    <3> HIDE DEF m
    <3>2. Appended(ir, m, insert, i) /\ Shape(m) /\ BBs(m) = BBs(ir)
      <4>1. Appended(ir, m, insert, i)
        BY <1>3, <3>1, EmitAppends
      <4>2. Emitted(ir, m, insert, i)
        BY <1>3, <3>1, EmitFacts
      <4>3. QED
        BY <4>1, <4>2 DEF Emitted
    <3>3. Does(prog.void, R, OpenAt(g) \cup P, c, insert, i, {})
      <4>1. i.op \notin Terminators
        BY <1>7 DEF Terminators
      <4>2. \A u, z : Happens(c, u, z) => u = ToExit /\ z = {}
        BY <1>3, <1>5, PutHappens
      <4>3. QED
        BY <1>8, <2>2, <4>1, <4>2 DEF Does
    <3>4. Simulates(prog, ir, R, OpenAt(g) \cup {<<c, insert, {}>>}, g.need)
      BY <1>4 DEF c
    <3> HIDE DEF P
    <3>5. QED
      BY <1>3, <1>10, <3>2, <3>3, <3>4, StepOne
  <2>3. QED
    BY <2>1, <2>2
<1> HIDE DEF m
<1>12. PICK S : Simulates(prog, m, S, OpenAt(g) \cup P, g.need)
  BY <1>11
<1>13. <<ToExit, ret_BB>> \in g.need /\ ret_BB \in BBs(m)
  BY <1>3, <1>11 DEF Joint, Good
<1>14. IsTerminated(ir', insert) /\ \E T : Simulates(prog, ir', T, OpenAt(g), g.need)
  BY <1>1, <1>3, <1>11, <1>12, <1>13, StepJump
<1>15. Here(ir', insert', f.mode, tmp_val', g) = {}
  BY <1>1, <1>14, HereIs
<1>16. QED
  BY <1>1, <1>2, <1>14, <1>15, VisitEnds

(* break and continue go on where the source does.                         *)
LEMMA LeaveSame ==
  ASSUME IInv, KInv, NEW index \in {1, 2}, Leave(index), NEW k, k = (IF index = 2 THEN "brk" ELSE "cont"), Visiting(k)
  PROVE  KInv'
<1>1. /\ Return /\ prog' = prog /\ insert' = insert /\ scope' = scope /\ pre_enter_scope' = pre_enter_scope
      /\ ir' = (IF While_Stack = <<>> THEN ir ELSE create_br(ir, insert, Last(While_Stack)[index]))
  BY DEF Leave
<1>2. PICK f, g : VisitOn(f, g, k)
  BY KVisit
<1>3. k \in {"brk", "cont"} /\ k # "block" /\ k \notin {"atom", "and", "or"}
  OBVIOUS
<1>4. /\ f.mode = "stmt" /\ node.k = k /\ OnlyHeld(g, f.held) /\ insert \notin f.held /\ Sequence(g.K)
      /\ ~ IsTerminated(ir, insert) /\ Shape(ir) /\ insert \in BBs(ir)
      /\ Joint(f, g) /\ Good(f) /\ f.own \subseteq BBs(ir) /\ f.held \subseteq f.own
      /\ While_Stack = f.loops /\ StmtParts(f, node)
  BY <1>2, <1>3 DEF VisitOn
<1>5. f.loops # <<>>
  BY <1>3, <1>4 DEF StmtParts
<1>6. PICK R : Simulates(prog, ir, R, OpenAt(g) \cup {<<Visited(f, g), insert, {}>>}, g.need)
  BY <1>2 DEF VisitOn
<1> DEFINE c == Visited(f, g)
           w == Last(f.loops)
           u == IF index = 2 THEN g.brk ELSE g.cont
<1>7. c = Put(g.K, node, g.env)
  BY <1>4 DEF Visited
<1>8. w[index] \in BBs(ir)
  <2>1. Sequence(f.loops)
    BY <1>4 DEF Good
  <2>2. w = f.loops[Len(f.loops)] /\ Len(f.loops) \in 1 .. Len(f.loops)
    BY <1>5, <2>1, FrontSequence, SequenceFacts1
  <2>3. w[1] \in f.own /\ w[2] \in f.own
    BY <1>4, <2>2 DEF Good
  <2> HIDE DEF w
  <2>4. QED
    BY <1>4, <2>3
<1>9. ir' = create_br(ir, insert, w[index])
  BY <1>1, <1>4, <1>5
<1>10. LoopPart(f, g)
  BY <1>4 DEF Joint
<1>11. <<u, w[index]>> \in g.need
  BY <1>5, <1>10 DEF LoopPart
<1>12. Unfolds(prog.void, c, u)
  <2>1. /\ Sequence(g.brk) /\ g.cont = Append(g.brk, Last(g.cont)) /\ Last(g.cont).stmt.k = "while"
        /\ Len(g.cont) <= Len(g.K)
        /\ \A j \in 1 .. Len(g.cont) : g.K[j] = g.cont[j]
        /\ \A j \in Len(g.cont) + 1 .. Len(g.K) : g.K[j].stmt.k # "while"
    BY <1>5, <1>10 DEF LoopPart
  <2>2. node.k # "while"
    BY <1>3, <1>4
  <2>3. BrokenOff(c) = g.brk /\ Continued(c) = g.cont
    <3>1. InLoop(g.K, g.brk, g.cont)
      BY <2>1 DEF InLoop
    <3> HIDE DEF c
    <3>2. QED
      BY <1>4, <1>7, <2>2, <3>1, LoopFound
  <2> HIDE DEF c
  <2>4. /\ node.k = "brk" => Unfolds(prog.void, c, BrokenOff(c))
        /\ node.k = "cont" => Unfolds(prog.void, c, Continued(c))
    BY <1>4, <1>7, PutUnfolds
  <2>5. QED
    BY <1>4, <2>3, <2>4
<1> HIDE DEF c, w, u
<1>13. PICK S : Simulates(prog, ir, S, OpenAt(g) \cup {<<u, insert, {}>>}, g.need)
  <2>1. Triples(OpenAt(g))
    BY TriplesFacts
  <2>2. QED
    BY <1>4, <1>6, <1>12, <2>1, StepUnfold DEF c
<1>14. IsTerminated(ir', insert) /\ \E T : Simulates(prog, ir', T, OpenAt(g), g.need)
  BY <1>4, <1>8, <1>9, <1>11, <1>13, StepJump
<1>15. Here(ir', insert', f.mode, tmp_val', g) = {}
  BY <1>1, <1>14, HereIs
<1>16. QED
  BY <1>1, <1>2, <1>3, <1>14, <1>15, VisitEnds

(* break leaves the loop.                                                  *)
LEMMA BreakStmtSame ==
  ASSUME IInv, KInv, BreakStmt
  PROVE  KInv'
<1>1. Visiting("brk") /\ Leave(2)
  BY DEF BreakStmt
<1> DEFINE index == 2
           k == "brk"
<1>2. index \in {1, 2} /\ Leave(index) /\ k = (IF index = 2 THEN "brk" ELSE "cont") /\ Visiting(k)
  BY <1>1
<1> HIDE DEF index, k
<1>3. QED
  BY <1>2, LeaveSame

(* continue goes back to its condition.                                    *)
LEMMA ContinueStmtSame ==
  ASSUME IInv, KInv, ContinueStmt
  PROVE  KInv'
<1>1. Visiting("cont") /\ Leave(1)
  BY DEF ContinueStmt
<1> DEFINE index == 1
           k == "cont"
<1>2. index \in {1, 2} /\ Leave(index) /\ k = (IF index = 2 THEN "brk" ELSE "cont") /\ Visiting(k)
  BY <1>1
<1> HIDE DEF index, k
<1>3. QED
  BY <1>2, LeaveSame

-----------------------------------------------------------------------------
(***************************************************************************)
(* After a step                                                            *)
(***************************************************************************)
(* A list of one.                                                          *)
LEMMA LastOfOne ==
  ASSUME NEW a
  PROVE  Last(<<a>>) = a /\ <<a>> # <<>>
<1> DEFINE s == <<a>>
<1>2. Sequence(s) /\ Len(s) = 1 /\ s[1] = a
  BY ShortSequences
<1> HIDE DEF s
<1>3. s # <<>>
  BY <1>2, SequenceFacts1
<1>4. Last(s) = a
  BY <1>2, <1>3, FrontSequence
<1>5. QED
  BY <1>3, <1>4 DEF s

(* What the tasks of a function that is begun leave, the next state is at. *)
NextAt(f) == At(ir', insert', cur_basic_block_list', While_Stack', Or_Cond_Stack', f)

(* The function that the tasks left over are about is the one built.       *)
LEMMA NextNone ==
  ASSUME IInv', NEW s, NEW f, Leaves(s, f), f.mode # "start", agenda' = s
  PROVE  Good(f) /\ NextAt(f)
<1>1. Good(f) /\ (s = <<>> => f = Outside) /\ Outside.mode = "start"
  BY LeavesGood DEF Outside
<1>2. CASE Begun'
  <2> DEFINE a == After("func", prog', <<>>)
  <2>1. s = <<a>> /\ a.task = "func"
    BY <1>2 DEF Begun, After
  <2> HIDE DEF a
  <2>2. Last(s) = a /\ s # <<>>
    BY <2>1, ShortSequences, FrontSequence
  <2>3. PICK g : Fits(g, a)
    BY <2>2, LeavesFewer
  <2>4. FALSE
    BY <2>1, <2>3 DEF Fits, IfTasks, LoopTasks
  <2>5. QED
    BY <2>4
<1>3. CASE Ended'
  BY <1>1, <1>3 DEF Ended
<1>4. CASE Going(agenda', ir', insert', cur_basic_block_list', While_Stack', Or_Cond_Stack')
  <2>1. PICK h : Leaves(s, h) /\ NextAt(h)
    BY <1>4 DEF Going, NextAt
  <2>2. h = f
    BY <2>1, LeavesOnce
  <2>3. QED
    BY <1>1, <2>1, <2>2
<1>5. QED
  BY <1>2, <1>3, <1>4 DEF IInv

(* With one task more.                                                     *)
LEMMA NextOne ==
  ASSUME IInv', NEW s, NEW f, Leaves(s, f), NEW t, t.task # "func", agenda' = Append(s, t)
  PROVE  Fits(f, t) /\ Good(Over(f, t)) /\ NextAt(Over(f, t))
<1>1. Sequence(s)
  BY LeavesGood
<1>2. agenda' # <<>> /\ Last(agenda') = t /\ Front(agenda') = s
  BY <1>1, AppendSequence
<1>3. CASE Begun'
  <2> DEFINE a == After("func", prog', <<>>)
  <2>1. agenda' = <<a>> /\ a.task = "func"
    BY <1>3 DEF Begun, After
  <2> HIDE DEF a
  <2>2. Last(<<a>>) = a
    BY LastOfOne
  <2>3. QED
    BY <1>2, <2>1, <2>2
<1>4. CASE Ended'
  BY <1>2, <1>4 DEF Ended
<1>5. CASE Going(agenda', ir', insert', cur_basic_block_list', While_Stack', Or_Cond_Stack')
  <2>1. PICK h : Leaves(agenda', h) /\ NextAt(h)
    BY <1>5 DEF Going, NextAt
  <2>2. PICK g : Leaves(s, g) /\ Fits(g, t) /\ h = Over(g, t) /\ Good(h)
    BY <1>2, <2>1, LeavesFewer
  <2>3. g = f
    BY <2>2, LeavesOnce
  <2>4. QED
    BY <2>1, <2>2, <2>3
<1>6. QED
  BY <1>3, <1>4, <1>5 DEF IInv

(* With two.                                                               *)
LEMMA NextTwo ==
  ASSUME IInv', NEW s, NEW f, Leaves(s, f), NEW t, NEW u, u.task # "func", agenda' = Append(Append(s, t), u)
  PROVE  Fits(f, t) /\ Good(Over(f, t)) /\ Fits(Over(f, t), u) /\ Good(Over(Over(f, t), u)) /\ NextAt(Over(Over(f, t), u))
<1> DEFINE r == Append(s, t)
<1>1. Sequence(s)
  BY LeavesGood
<1>2. Sequence(r) /\ r # <<>> /\ Last(r) = t /\ Front(r) = s
  BY <1>1, AppendSequence
<1> HIDE DEF r
<1>3. agenda' = Append(r, u)
  BY DEF r
<1>4. agenda' # <<>> /\ Last(agenda') = u /\ Front(agenda') = r
  BY <1>2, <1>3, AppendSequence
<1>5. \E h : Leaves(r, h)
  <2>1. CASE Begun'
    <3> DEFINE a == After("func", prog', <<>>)
    <3>1. agenda' = <<a>> /\ a.task = "func"
      BY <2>1 DEF Begun, After
    <3> HIDE DEF a
    <3>2. Last(<<a>>) = a
      BY LastOfOne
    <3>3. QED
      BY <1>4, <3>1, <3>2
  <2>2. CASE Ended'
    BY <1>4, <2>2 DEF Ended
  <2>3. CASE Going(agenda', ir', insert', cur_basic_block_list', While_Stack', Or_Cond_Stack')
    <3>1. PICK h : Leaves(agenda', h)
      BY <2>3 DEF Going
    <3>2. QED
      BY <1>4, <3>1, LeavesFewer
  <2>4. QED
    BY <2>1, <2>2, <2>3 DEF IInv
<1>6. PICK h : Leaves(r, h)
  BY <1>5
<1>7. PICK g : Leaves(s, g) /\ Fits(g, t) /\ h = Over(g, t) /\ Good(h)
  BY <1>2, <1>6, LeavesFewer
<1>8. g = f
  BY <1>7, LeavesOnce
<1>9. Fits(h, u) /\ Good(Over(h, u)) /\ NextAt(Over(h, u))
  BY <1>3, <1>6, NextOne
<1>10. QED
  BY <1>7, <1>8, <1>9

(* The top is replaced by one task or two.                                 *)
LEMMA ContinueAppends ==
  ASSUME Sequence(Front(agenda))
  PROVE  /\ \A t : Continue(<<t>>) => agenda' = Append(Front(agenda), t)
         /\ \A t, u : Continue(<<t, u>>) => agenda' = Append(Append(Front(agenda), t), u)
BY ConcatOne, ConcatTwo DEF Continue

(* A visit is begun above what is in progress.                             *)
LEMMA VisitBegins ==
  ASSUME NEW s, NEW f, NEW g, KLeaves(s, f, g, scope'), NEW u, u.task = "visit", Fits(f, u), Suits(g, u, scope'),
         agenda' = Append(s, u), prog' = prog, ScopesOK(scope'), Len(scope') = g.depth,
         pre_enter_scope' = (f.mode = "stmt" /\ g.first), pre_enter_scope' => scope' = Append(GlobalScope, {}),
         ~ IsTerminated(ir', insert'),
         NEW k, k = Put(g.K, IF f.mode = "cond" THEN Branch(u.node, g.yes, g.no) ELSE u.node, g.env),
         \E R : Simulates(prog, ir', R, OpenAt(g) \cup {<<k, insert', {}>>}, g.need)
  PROVE  KInv'
<1> DEFINE p == Over(f, u)
           o == Left(f, g, u, NULL)
<1>1. KLeaves(agenda', p, o, scope')
  BY PushVisit
<1>2. Good(f) /\ Joint(f, g) /\ Sequence(s)
  BY KLeavesFacts
<1>3. agenda' # <<>>
  BY <1>2, AppendSequence
<1>4. IsLeft(f, g, u, NULL, o)
  BY LeftIs
<1>5. /\ f.mode \in {"stmt", "cond"}
      /\ p.mode = IF f.mode = "cond" THEN "condvisit" ELSE "stmtvisit"
  BY <1>2, VisitLike
<1> HIDE DEF p, o
<1>6. /\ o.K = k /\ o.depth = g.depth /\ o.at = g.at /\ o.need = g.need /\ o.first = g.first
  <2>1. LeftAt(g, u) = {} /\ LeftNeed(g, u) = {} /\ LeftDepth(g, u) = g.depth
    BY DEF LeftAt, LeftNeed, LeftDepth, IfTasks, LoopTasks
  <2>2. o.at = g.at /\ o.need = g.need /\ o.depth = g.depth
    BY <1>4, <2>1 DEF IsLeft
  <2>3. o.K = k
    BY <1>4 DEF IsLeft, LeftK
  <2>4. g.first \in BOOLEAN
    BY <1>2 DEF Joint
  <2>5. o.first = g.first
    BY <1>4, <2>4 DEF IsLeft
  <2>6. QED
    BY <2>2, <2>3, <2>5
<1>7. pre_enter_scope' = (p.mode = "stmtvisit" /\ o.first)
  BY <1>5, <1>6
<1>8. Tracks(agenda', p, o, scope', pre_enter_scope')
  BY <1>1, <1>3, <1>6, <1>7 DEF Tracks
<1>9. Here(ir', insert', p.mode, tmp_val', o) = {<<k, insert', {}>>}
  <2>1. p.mode # "cond"
    BY <1>5
  <2>2. QED
    BY <1>6, <2>1, HereIs
<1>10. OpenAt(o) = OpenAt(g)
  BY <1>6 DEF OpenAt
<1>11. Filled(prog, ir', insert', tmp_val', p, o)
  BY <1>6, <1>9, <1>10 DEF Filled
<1>12. QED
  BY <1>8, <1>11, KClosing

-----------------------------------------------------------------------------
(***************************************************************************)
(* Blocks                                                                  *)
(***************************************************************************)
(* What the rest of a block leaves, e being what names stand for in it.    *)
BodyLeft(g, t, e, o) ==
  /\ o.K = Put(g.K, From(t.node.body, t.pos), e) /\ o.env = e /\ o.depth = LeftDepth(g, t)
  /\ o.first = FALSE /\ o.block = TRUE /\ o.at = g.at /\ o.need = g.need

(* So it does, by Left.                                                    *)
LEMMA BodyFields ==
  ASSUME NEW f, NEW g, NEW t, t.task = "body", NEW e, NEW o, o = Left(f, g, t, e)
  PROVE  BodyLeft(g, t, e, o)
<1>1. IsLeft(f, g, t, e, o)
  BY LeftIs
<1>2. LeftAt(g, t) = {} /\ LeftNeed(g, t) = {}
  BY DEF LeftAt, LeftNeed, IfTasks, LoopTasks
<1>3. o.K = Put(g.K, From(t.node.body, t.pos), e) /\ o.env = e /\ o.depth = LeftDepth(g, t)
  BY <1>1 DEF IsLeft, LeftK
<1>4. o.first = FALSE /\ o.block = TRUE
  BY <1>1 DEF IsLeft
<1>5. o.at = g.at /\ o.need = g.need
  BY <1>1, <1>2 DEF IsLeft
<1>6. QED
  BY <1>3, <1>4, <1>5 DEF BodyLeft

(* The step leaves the rest of a block on top.                             *)
LEMMA BodyRests ==
  ASSUME NEW s, NEW f, NEW g, KLeaves(s, f, g, scope'), NEW t, t.task = "body", Fits(f, t), Suits(g, t, scope'),
         agenda' = Append(s, t), prog' = prog, ScopesOK(scope'), Len(scope') = LeftDepth(g, t), pre_enter_scope' = FALSE,
         NEW e, EnvIs(e, scope', LeftDepth(g, t)), ~ IsTerminated(ir', insert'),
         NEW k, k = Put(g.K, From(t.node.body, t.pos), e),
         \E R : Simulates(prog, ir', R, OpenAt(g) \cup {<<k, insert', {}>>}, g.need)
  PROVE  KInv'
<1> DEFINE p == Over(f, t)
           o == Left(f, g, t, e)
<1>1. BodyLeft(g, t, e, o)
  BY BodyFields
<1>2. Good(f) /\ Sequence(s)
  BY KLeavesFacts
<1>3. p.mode \in {"begin", "stmt"}
  BY <1>2, VisitLike
<1>4. KLeaves(agenda', p, o, scope')
  <2>1. EnvIs(e, scope', o.depth)
    BY <1>1 DEF BodyLeft
  <2>2. QED
    BY <2>1, PushBody
<1>5. agenda' # <<>>
  BY <1>2, AppendSequence
<1> HIDE DEF p, o
<1>6. o.K = k /\ o.depth = LeftDepth(g, t) /\ o.at = g.at /\ o.need = g.need
  BY <1>1 DEF BodyLeft
<1>7. Tracks(agenda', p, o, scope', pre_enter_scope')
  BY <1>3, <1>4, <1>5, <1>6 DEF Tracks
<1>8. Here(ir', insert', p.mode, tmp_val', o) = {<<k, insert', {}>>}
  <2>1. p.mode # "cond"
    BY <1>3
  <2>2. QED
    BY <1>6, <2>1, HereIs
<1>9. OpenAt(o) = OpenAt(g)
  BY <1>6 DEF OpenAt
<1>10. Filled(prog, ir', insert', tmp_val', p, o)
  BY <1>6, <1>8, <1>9 DEF Filled
<1>11. QED
  BY <1>7, <1>10, KClosing

(* In the scope of a function nothing is declared at first.                *)
LEMMA FirstScope ==
  ASSUME NEW sc, sc = Append(GlobalScope, {})
  PROVE  Len(sc) = 2 /\ sc[2] = {} /\ EnvIs(GlobalEnv, sc, 2) /\ ScopesOK(sc)
<1> DEFINE w == {<<x, 0>> : x \in Names}
           gs == <<w>>
<1>1. Sequence(gs) /\ Len(gs) = 1 /\ gs[1] = w
  BY ShortSequences
<1> HIDE DEF gs
<1>2. sc = Append(gs, {})
  BY DEF GlobalScope, gs
<1>3. /\ Sequence(sc) /\ Len(sc) = Len(gs) + 1 /\ sc[Len(gs) + 1] = {} /\ \A j \in 1 .. Len(gs) : sc[j] = gs[j]
  <2> DEFINE e == {}
             u == Append(gs, e)
  <2>1. /\ Sequence(u) /\ Len(u) = Len(gs) + 1 /\ u[Len(gs) + 1] = e /\ \A j \in 1 .. Len(gs) : u[j] = gs[j]
    <3> HIDE DEF e
    <3>1. QED
      BY <1>1, AppendSequence
  <2>2. sc = u
    BY <1>2
  <2> HIDE DEF u
  <2>3. QED
    BY <2>1, <2>2
<1>4. Len(sc) = 2 /\ sc[2] = {} /\ sc[1] = w
  <2>1. 1 \in 1 .. Len(gs) /\ Len(gs) + 1 = 2
    BY <1>1
  <2>2. QED
    BY <1>1, <1>3, <2>1
<1> HIDE DEF w
<1>5. EnvIs(GlobalEnv, sc, 2)
  <2>1. GlobalEnv = [x \in Names |-> GlobalEnv[x]] /\ \A x \in Names : GlobalEnv[x] = 0
    BY DEF GlobalEnv
  <2>2. ASSUME NEW x \in Names
        PROVE  \E j \in 1 .. 2 : <<x, GlobalEnv[x]>> \in sc[j] /\ \A l \in j + 1 .. 2 : ~ Declares(sc[l], x)
    <3>1. <<x, GlobalEnv[x]>> \in sc[1]
      BY <1>4, <2>1 DEF w
    <3>2. ~ Declares(sc[2], x)
      BY <1>4 DEF Declares
    <3>3. 1 \in 1 .. 2 /\ \A l \in 1 + 1 .. 2 : l = 2
      OBVIOUS
    <3>4. \A l \in 1 + 1 .. 2 : ~ Declares(sc[l], x)
      BY <3>2, <3>3
    <3>5. QED
      BY <3>1, <3>3, <3>4
  <2>3. QED
    BY <2>1, <2>2 DEF EnvIs
<1>6. ScopesOK(sc)
  <2>1. ASSUME NEW j \in 1 .. Len(sc), NEW a \in sc[j]
        PROVE  a = <<a[1], a[2]>> /\ \A c \in sc[j] : a[1] = c[1] => a = c
    <3>1. j = 1
      <4>1. j \in {1, 2}
        BY <1>4
      <4>2. QED
        BY <1>4, <2>1, <4>1
    <3>2. \A c \in w : c = <<c[1], c[2]>> /\ c[2] = 0
      BY DEF w
    <3>3. QED
      BY <1>4, <2>1, <3>1, <3>2
  <2>2. QED
    BY <1>3, <2>1 DEF ScopesOK
<1>7. QED
  BY <1>4, <1>5, <1>6

(* A block enters a scope, unless the function did.                        *)
LEMMA BeginBlockStmtSame ==
  ASSUME IInv, KInv, IInv', BeginBlockStmt
  PROVE  KInv'
<1> DEFINE t == [task |-> "body", node |-> node, pos |-> 1, exit |-> ~ pre_enter_scope]
           s == Front(agenda)
<1>1. /\ Visiting("block") /\ scope' = (IF pre_enter_scope THEN scope ELSE Append(scope, {})) /\ pre_enter_scope' = FALSE
      /\ Continue(<<t>>) /\ prog' = prog /\ ir' = ir /\ insert' = insert
  BY DEF BeginBlockStmt
<1>2. PICK f, g : VisitOn(f, g, "block")
  BY <1>1, KVisit
<1>3. /\ f.mode = "stmt" /\ node.k = "block" /\ Sequence(g.K) /\ Shape(ir) /\ ~ IsTerminated(ir, insert)
      /\ KLeaves(s, f, g, scope) /\ Joint(f, g) /\ Solid(g) \in Nat /\ Good(f)
      /\ ScopesOK(scope) /\ Len(scope) = g.depth
      /\ ~ g.first => EnvIs(g.env, scope, g.depth)
      /\ pre_enter_scope = (f.mode = "stmt" /\ g.first)
      /\ pre_enter_scope => scope = Append(GlobalScope, {})
  BY <1>2 DEF VisitOn
<1>4. PICK R : Simulates(prog, ir, R, OpenAt(g) \cup {<<Visited(f, g), insert, {}>>}, g.need)
  BY <1>2 DEF VisitOn
<1>5. g.first \in BOOLEAN /\ (g.first => g.env = GlobalEnv /\ g.depth = 2) /\ g.depth \in Nat \ {0}
  BY <1>3 DEF Joint
<1>6. pre_enter_scope = g.first
  BY <1>3, <1>5
<1>7. t.task = "body" /\ t.node = node /\ t.pos = 1 /\ t.exit = ~ pre_enter_scope
  OBVIOUS
<1> HIDE DEF t, s
<1>8. Sequence(s) /\ Leaves(s, f)
  BY <1>3, KLeavesFacts
<1>9. agenda' = Append(s, t)
  BY <1>1, <1>8, ContinueAppends DEF s
<1>10. Fits(f, t)
  BY <1>7, <1>8, <1>9, NextOne
<1>11. LeftDepth(g, t) = IF t.exit THEN g.depth + 1 ELSE g.depth
  BY <1>7 DEF LeftDepth
<1>12. /\ ScopesOK(scope') /\ Len(scope') = LeftDepth(g, t) /\ scope'[LeftDepth(g, t)] = {}
       /\ EnvIs(g.env, scope', LeftDepth(g, t)) /\ \A j \in 1 .. Solid(g) : scope'[j] = scope[j]
  <2>1. CASE g.first
    <3>1. scope' = scope /\ scope = Append(GlobalScope, {}) /\ LeftDepth(g, t) = 2 /\ g.env = GlobalEnv
      BY <1>1, <1>3, <1>5, <1>6, <1>7, <1>11, <2>1
    <3>2. Len(scope) = 2 /\ scope[2] = {} /\ EnvIs(GlobalEnv, scope, 2) /\ ScopesOK(scope)
      BY <3>1, FirstScope
    <3>3. QED
      BY <3>1, <3>2
  <2>2. CASE ~ g.first
    <3>1. scope' = Append(scope, {}) /\ LeftDepth(g, t) = g.depth + 1
      BY <1>1, <1>6, <1>7, <1>11, <2>2
    <3>2. /\ ScopesOK(scope') /\ Len(scope') = g.depth + 1 /\ scope'[g.depth + 1] = {}
          /\ \A j \in 1 .. g.depth : scope'[j] = scope[j]
      BY <1>3, <3>1, ScopeEntered
    <3>3. EnvIs(g.env, scope', g.depth + 1)
      <4>1. g.depth \in Nat /\ EnvIs(g.env, scope, g.depth)
        BY <1>3, <1>5, <2>2
      <4>2. QED
        BY <3>2, <4>1, EnvDeeper
    <3>4. Solid(g) = g.depth
      BY <2>2 DEF Solid
    <3>5. QED
      BY <3>1, <3>2, <3>3, <3>4
  <2>3. QED
    BY <1>5, <2>1, <2>2
<1>13. KLeaves(s, f, g, scope')
  BY <1>3, <1>12, KScope
<1>14. Suits(g, t, scope')
  BY <1>6, <1>7, <1>12 DEF Suits
<1> DEFINE c == Visited(f, g)
           k == Put(g.K, From(t.node.body, t.pos), g.env)
<1>15. Unfolds(prog.void, c, k)
  <2>1. c = Put(g.K, node, g.env)
    BY <1>3 DEF Visited
  <2>2. k = Put(g.K, From(node.body, 1), g.env)
    BY <1>7
  <2> HIDE DEF c, k
  <2>3. QED
    BY <1>3, <2>1, <2>2, PutUnfolds
<1>16. \E S : Simulates(prog, ir', S, OpenAt(g) \cup {<<k, insert', {}>>}, g.need)
  <2> HIDE DEF k
  <2>1. Triples(OpenAt(g))
    BY TriplesFacts
  <2>2. Simulates(prog, ir, R, OpenAt(g) \cup {<<c, insert, {}>>}, g.need)
    BY <1>4
  <2> HIDE DEF c
  <2>3. \E S : Simulates(prog, ir, S, OpenAt(g) \cup {<<k, insert, {}>>}, g.need)
    BY <1>3, <1>15, <2>1, <2>2, StepUnfold
  <2>4. QED
    BY <1>1, <2>3
<1>17. k = Put(g.K, From(t.node.body, t.pos), g.env)
  OBVIOUS
<1>18. ~ IsTerminated(ir', insert')
  BY <1>1, <1>3
<1> HIDE DEF c, k
<1>19. QED
  BY <1>1, <1>7, <1>9, <1>10, <1>12, <1>13, <1>14, <1>16, <1>17, <1>18, BodyRests

(* The rest of a block is on top, e is what names stand for in it.         *)
IfOpen(m, ins, k) == IF IsTerminated(m, ins) THEN {} ELSE {<<k, ins, {}>>}
BodyOn(f, g, o, e) ==
  /\ prog \in Programs /\ Good(f) /\ KLeaves(Front(agenda), f, g, scope) /\ Joint(f, g) /\ Solid(g) \in Nat
  /\ OnlyHeld(g, f.held) /\ Sequence(g.K) /\ Shape(ir) /\ UnderWay(ir, insert, f.held) /\ insert \notin f.held
  /\ f.mode = "stmt" /\ Top.task = "body" /\ Fits(f, Top) /\ Suits(g, Top, scope)
  /\ Statement(f, node) /\ node.k = "block" /\ Sequence(node.body) /\ Top.pos \in 1 .. Len(node.body) + 1
  /\ Top.pos = 1 => ~ IsTerminated(ir, insert)
  /\ o = Left(f, g, Top, e) /\ BodyLeft(g, Top, e, o) /\ EnvIs(e, scope, o.depth)
  /\ ScopesOK(scope) /\ Len(scope) = o.depth /\ pre_enter_scope = FALSE
  /\ \E R : Simulates(prog, ir, R, OpenAt(g) \cup IfOpen(ir, insert, o.K), g.need)

(* Where VisitBlock goes on, all that holds, and the blocks do the rest of *)
(* the block from insert on.                                               *)
LEMMA KBody ==
  ASSUME IInv, KInv, Doing("body")
  PROVE  \E f, g, o, e : BodyOn(f, g, o, e)
<1>1. agenda # <<>> /\ Top.task = "body" /\ node = Top.node
  BY DEF Doing, node
<1>2. PICK f, g, o : KOn(f, g, o)
  BY <1>1, KOpening
<1>3. PICK h : /\ On(h) /\ Like(Over(h, Top), h) /\ h.mode = "stmt"
               /\ Statement(h, node) /\ node.k = "block" /\ StmtParts(h, node)
               /\ Top.pos \in 1 .. Len(node.body) + 1
               /\ Over(h, Top).mode = IF Top.pos = 1 THEN "begin" ELSE "stmt"
  BY BodyOpening
<1>4. h = f
  <2>1. Leaves(Front(agenda), h) /\ Leaves(Front(agenda), f)
    BY <1>2, <1>3 DEF KOn, On
  <2>2. QED
    BY <2>1, LeavesOnce
<1> DEFINE p == Over(f, Top)
<1>5. /\ On(f) /\ KLeaves(Front(agenda), f, g, scope) /\ Joint(f, g) /\ Solid(g) \in Nat
      /\ Fits(f, Top) /\ Suits(g, Top, scope) /\ (\E e : o = Left(f, g, Top, e))
      /\ ~ o.first => EnvIs(o.env, scope, o.depth)
      /\ ScopesOK(scope) /\ Len(scope) = o.depth
      /\ pre_enter_scope = (p.mode = "stmtvisit" /\ o.first)
      /\ Filled(prog, ir, insert, tmp_val, p, o)
  BY <1>2 DEF KOn, Adds
<1>6. /\ prog \in Programs /\ Good(f) /\ Good(p) /\ At(ir, insert, cur_basic_block_list, While_Stack, Or_Cond_Stack, p)
  BY <1>5 DEF On
<1>7. PICK e : o = Left(f, g, Top, e)
  BY <1>5
<1>8. BodyLeft(g, Top, e, o)
  BY <1>1, <1>7, BodyFields
<1>9. Like(p, f) /\ p.mode = IF Top.pos = 1 THEN "begin" ELSE "stmt"
  BY <1>3, <1>4
<1> HIDE DEF p
<1>10. /\ UnderWay(ir, insert, f.held) /\ Shape(ir) /\ insert \notin f.held
  BY <1>6, <1>9, AtFacts DEF Like
<1>11. Top.pos = 1 => ~ IsTerminated(ir, insert)
  <2>1. Place(ir, insert, cur_basic_block_list, p)
    BY <1>6 DEF At
  <2>2. QED
    BY <1>9, <2>1 DEF Place, OpenModes
<1>12. /\ o.first = FALSE /\ o.env = e /\ o.at = g.at /\ o.need = g.need
  BY <1>8 DEF BodyLeft
<1>13. \E R : Simulates(prog, ir, R, OpenAt(g) \cup IfOpen(ir, insert, o.K), g.need)
  <2>1. p.mode # "cond"
    BY <1>9
  <2>2. Here(ir, insert, p.mode, tmp_val, o) = IfOpen(ir, insert, o.K)
    BY <2>1, HereIs DEF IfOpen
  <2>3. OpenAt(o) = OpenAt(g)
    BY <1>12 DEF OpenAt
  <2>4. QED
    BY <1>5, <1>12, <2>2, <2>3 DEF Filled
<1>14. OnlyHeld(g, f.held) /\ Sequence(g.K)
  BY <1>5 DEF Joint, OnlyHeld
<1>15. Sequence(node.body) /\ Statement(f, node) /\ node.k = "block" /\ Top.pos \in 1 .. Len(node.body) + 1 /\ f.mode = "stmt"
  BY <1>3, <1>4 DEF StmtParts
<1>16. pre_enter_scope = FALSE
  BY <1>5, <1>12
<1>17. EnvIs(e, scope, o.depth)
  BY <1>5, <1>12
<1>18. QED
  BY <1>1, <1>5, <1>6, <1>7, <1>8, <1>10, <1>11, <1>13, <1>14, <1>15, <1>16, <1>17 DEF BodyOn

(* A block that declares a name did not before.                            *)
LEMMA DeclaredOnce ==
  ASSUME NEW f, NEW s, Statement(f, s), s.k = "block", Sequence(s.body), NEW j \in 1 .. Len(s.body), s.body[j].k = "decl"
  PROVE  \A l \in 1 .. j - 1 : ~ (s.body[l].k = "decl" /\ s.body[l].name = s.body[j].name)
<1>1. s \in Stmts \cup LoopStmts /\ Len(s.body) \in Nat /\ DOMAIN s.body = 1 .. Len(s.body)
  BY SequenceFacts1 DEF Statement
<1>2. \A a, l \in DOMAIN s.body :
        s.body[a].k = "decl" /\ s.body[l].k = "decl" /\ s.body[a].name = s.body[l].name => a = l
  BY <1>1, SourceAssumption
<1>3. QED
  BY <1>1, <1>2

(* The next statement of a block is visited where the last one ended.      *)
LEMMA NextStmtSame ==
  ASSUME IInv, KInv, IInv', NextStmt
  PROVE  KInv'
<1> DEFINE t == [Top EXCEPT !.pos = @ + 1]
           u == Visit(node.body[Top.pos])
           s == Front(agenda)
           l == Top.pos
<1>1. /\ Doing("body") /\ ~ BodyDone /\ Continue(<<t, u>>) /\ prog' = prog /\ pre_enter_scope' = pre_enter_scope
      /\ ir' = ir /\ insert' = insert /\ scope' = scope
  BY DEF NextStmt
<1>2. PICK f, g, o, e : BodyOn(f, g, o, e)
  BY <1>1, KBody
<1>3. /\ prog \in Programs /\ Good(f) /\ KLeaves(s, f, g, scope) /\ Joint(f, g) /\ Solid(g) \in Nat
      /\ Sequence(g.K) /\ Shape(ir) /\ f.mode = "stmt" /\ Top.task = "body" /\ Suits(g, Top, scope)
      /\ Statement(f, node) /\ node.k = "block" /\ Sequence(node.body) /\ l \in 1 .. Len(node.body) + 1
      /\ l = 1 => ~ IsTerminated(ir, insert)
      /\ BodyLeft(g, Top, e, o) /\ EnvIs(e, scope, o.depth)
      /\ ScopesOK(scope) /\ Len(scope) = o.depth /\ pre_enter_scope = FALSE
  BY <1>2 DEF BodyOn
<1>4. PICK R : Simulates(prog, ir, R, OpenAt(g) \cup IfOpen(ir, insert, o.K), g.need)
  BY <1>2 DEF BodyOn
<1>5. /\ t.task = "body" /\ t.node = node /\ t.pos = l + 1 /\ t.exit = Top.exit
      /\ u.task = "visit" /\ u.node = node.body[l]
  BY <1>3 DEF Visit, node
<1>6. Len(node.body) \in Nat /\ l \in Nat \ {0} /\ l \in 1 .. Len(node.body) /\ ~ IsTerminated(ir, insert)
  <2>1. Len(node.body) \in Nat
    BY <1>3, SequenceFacts1
  <2>2. l <= Len(node.body)
    BY <1>1, <1>3, <2>1 DEF BodyDone
  <2>3. l > 1 => ~ IsTerminated(ir, insert)
    BY <1>1 DEF BodyDone
  <2>4. l \in Nat \ {0} /\ l \in 1 .. Len(node.body) /\ (l = 1 \/ l > 1)
    BY <1>3, <2>1, <2>2
  <2>5. QED
    BY <1>3, <2>1, <2>3, <2>4
<1> HIDE DEF t, u, s
<1>7. Sequence(s) /\ Leaves(s, f)
  BY <1>3, KLeavesFacts
<1>8. agenda' = Append(Append(s, t), u)
  BY <1>1, <1>7, ContinueAppends DEF s
<1> DEFINE p == Over(f, t)
           o2 == Left(f, g, t, e)
<1>9. Fits(f, t) /\ Good(p) /\ Fits(p, u)
  BY <1>5, <1>7, <1>8, NextTwo
<1>10. BodyLeft(g, t, e, o2) /\ p.mode = "stmt"
  <2>1. BodyLeft(g, t, e, o2)
    BY <1>5, BodyFields
  <2>2. t.pos # 1
    BY <1>5, <1>6
  <2>3. QED
    BY <1>3, <1>5, <1>9, <2>1, <2>2, VisitLike
<1>11. LeftDepth(g, t) = LeftDepth(g, Top) /\ o.depth = LeftDepth(g, Top)
  <2>1. LeftDepth(g, t) = LeftDepth(g, Top)
    BY <1>3, <1>5 DEF LeftDepth
  <2>2. QED
    BY <1>3, <2>1 DEF BodyLeft
<1>12. Suits(g, t, scope)
  <2>1. t.exit <=> ~ g.first
    BY <1>3, <1>5 DEF Suits
  <2>2. ASSUME NEW a \in scope[LeftDepth(g, t)]
        PROVE  \E j \in 1 .. t.pos - 1 : t.node.body[j].k = "decl" /\ t.node.body[j].name = a[1]
    <3>1. PICK j \in 1 .. l - 1 : node.body[j].k = "decl" /\ node.body[j].name = a[1]
      BY <1>3, <1>11, <2>2 DEF Suits, node
    <3>2. j \in 1 .. t.pos - 1
      BY <1>5, <1>6
    <3>3. QED
      BY <1>5, <3>1, <3>2
  <2>3. QED
    BY <1>5, <2>1, <2>2 DEF Suits
<1>13. KLeaves(Append(s, t), p, o2, scope)
  <2>1. EnvIs(e, scope, o2.depth)
    BY <1>3, <1>10, <1>11 DEF BodyLeft
  <2>2. QED
    BY <1>3, <1>5, <1>9, <1>12, <2>1, PushBody
<1> HIDE DEF p, o2
<1>14. /\ o2.K = Put(g.K, From(node.body, l + 1), e) /\ o2.env = e /\ o2.first = FALSE /\ o2.block = TRUE
       /\ o2.at = g.at /\ o2.need = g.need /\ o2.depth = o.depth
  BY <1>5, <1>10, <1>11 DEF BodyLeft
<1>15. /\ Last(o2.K).stmt = From(node.body, l + 1) /\ Sequence(o2.K)
  BY <1>3, <1>14, PutFacts
<1>16. Suits(o2, u, scope)
  <2>1. u.node.k = "decl" => ~ Declares(scope[o2.depth], u.node.name)
    <3>1. SUFFICES ASSUME u.node.k = "decl", Declares(scope[o2.depth], u.node.name) PROVE FALSE
      OBVIOUS
    <3>2. PICK a \in scope[LeftDepth(g, Top)] : a[1] = u.node.name
      BY <1>11, <1>14, <3>1 DEF Declares
    <3>3. PICK j \in 1 .. l - 1 : node.body[j].k = "decl" /\ node.body[j].name = a[1]
      BY <1>3, <3>2 DEF Suits, node
    <3>4. ~ (node.body[j].k = "decl" /\ node.body[j].name = node.body[l].name)
      <4>1. node.body[l].k = "decl"
        BY <1>5, <3>1
      <4>2. QED
        BY <1>3, <1>6, <4>1, DeclaredOnce
    <3>5. QED
      BY <1>5, <3>2, <3>3, <3>4
  <2>2. LET z == Last(o2.K).stmt IN z.pos - 1 \in 1 .. Len(z.body) /\ u.node = z.body[z.pos - 1]
    <3>1. From(node.body, l + 1).pos = l + 1 /\ From(node.body, l + 1).body = node.body
      BY DEF From
    <3>2. Last(o2.K).stmt.pos - 1 = l /\ Last(o2.K).stmt.body = node.body
      BY <1>6, <1>15, <3>1
    <3>3. QED
      BY <1>5, <1>6, <3>2
  <2>3. o2.chain = FALSE
    <3>1. IsLeft(f, g, t, e, o2)
      BY LeftIs DEF o2
    <3>2. QED
      BY <1>5, <3>1 DEF IsLeft
  <2>4. QED
    BY <1>5, <1>14, <2>1, <2>2, <2>3 DEF Suits
<1> DEFINE k == Put(o2.K, u.node, e)
<1>17. Unfolds(prog.void, o.K, k)
  <2>1. o.K = Put(g.K, From(node.body, l), e)
    BY <1>3 DEF BodyLeft, node
  <2>2. From(node.body, l).k = "seq" /\ From(node.body, l).pos = l /\ From(node.body, l).body = node.body
    BY DEF From
  <2> DEFINE z == From(node.body, l)
  <2>3. k = Put(Put(g.K, From(z.body, z.pos + 1), e), z.body[z.pos], e)
    BY <1>5, <1>14, <2>2
  <2>4. ~ (z.pos > Len(z.body)) /\ z.k = "seq" /\ o.K = Put(g.K, z, e)
    BY <1>6, <2>1, <2>2
  <2> HIDE DEF k, z
  <2>5. QED
    BY <1>3, <2>3, <2>4, PutUnfolds
<1>18. \E S : Simulates(prog, ir', S, OpenAt(o2) \cup {<<k, insert', {}>>}, o2.need)
  <2> HIDE DEF k
  <2>1. Triples(OpenAt(g))
    BY TriplesFacts
  <2>2. Simulates(prog, ir, R, OpenAt(g) \cup {<<o.K, insert, {}>>}, g.need)
    BY <1>4, <1>6 DEF IfOpen
  <2>3. \E S : Simulates(prog, ir, S, OpenAt(g) \cup {<<k, insert, {}>>}, g.need)
    BY <1>3, <1>17, <2>1, <2>2, StepUnfold
  <2>4. OpenAt(o2) = OpenAt(g)
    BY <1>14 DEF OpenAt
  <2>5. QED
    BY <1>1, <1>14, <2>3, <2>4
<1> DEFINE k2 == Put(o2.K, IF p.mode = "cond" THEN Branch(u.node, o2.yes, o2.no) ELSE u.node, o2.env)
<1>19. k2 = k
  BY <1>10, <1>14
<1> HIDE DEF k, k2
<1>20. \E S : Simulates(prog, ir', S, OpenAt(o2) \cup {<<k2, insert', {}>>}, o2.need)
  BY <1>18, <1>19
<1>21. /\ pre_enter_scope' = (p.mode = "stmt" /\ o2.first) /\ ~ pre_enter_scope'
  BY <1>1, <1>3, <1>14
<1> DEFINE r == Append(s, t)
<1>22. KLeaves(r, p, o2, scope') /\ Fits(p, u) /\ Suits(o2, u, scope') /\ agenda' = Append(r, u)
  BY <1>1, <1>8, <1>9, <1>13, <1>16
<1>23. ScopesOK(scope') /\ Len(scope') = o2.depth /\ ~ IsTerminated(ir', insert')
  BY <1>1, <1>3, <1>6, <1>14
<1> HIDE DEF r
<1>24. k2 = Put(o2.K, IF p.mode = "cond" THEN Branch(u.node, o2.yes, o2.no) ELSE u.node, o2.env)
  BY DEF k2
<1>25. QED
  BY <1>1, <1>5, <1>20, <1>21, <1>22, <1>23, <1>24, VisitBegins

(* A block is left, with the scope it entered, if it did.                  *)
LEMMA EndBlockStmtSame ==
  ASSUME IInv, KInv, EndBlockStmt
  PROVE  KInv'
<1>1. /\ Doing("body") /\ BodyDone /\ Return /\ prog' = prog /\ pre_enter_scope' = pre_enter_scope
      /\ ir' = ir /\ insert' = insert /\ scope' = IF Top.exit THEN Front(scope) ELSE scope
  BY DEF EndBlockStmt
<1>2. PICK f, g, o, e : BodyOn(f, g, o, e)
  BY <1>1, KBody
<1> DEFINE s == Front(agenda)
           l == Top.pos
<1>3. /\ KLeaves(s, f, g, scope) /\ Joint(f, g) /\ Solid(g) \in Nat
      /\ Sequence(g.K) /\ Shape(ir) /\ f.mode = "stmt" /\ Top.task = "body" /\ Suits(g, Top, scope)
      /\ Sequence(node.body) /\ l \in 1 .. Len(node.body) + 1
      /\ l = 1 => ~ IsTerminated(ir, insert)
      /\ BodyLeft(g, Top, e, o)
      /\ ScopesOK(scope) /\ Len(scope) = o.depth /\ pre_enter_scope = FALSE
  BY <1>2 DEF BodyOn
<1>4. PICK R : Simulates(prog, ir, R, OpenAt(g) \cup IfOpen(ir, insert, o.K), g.need)
  BY <1>2 DEF BodyOn
<1> HIDE DEF s
<1>5. g.depth \in Nat \ {0} /\ g.first \in BOOLEAN /\ (g.first => g.depth = 2)
  BY <1>3 DEF Joint
<1>6. o.depth = (IF Top.exit THEN g.depth + 1 ELSE g.depth) /\ o.K = Put(g.K, From(node.body, l), e)
  <2>1. o.depth = LeftDepth(g, Top) /\ o.K = Put(g.K, From(node.body, l), e)
    BY <1>3 DEF BodyLeft, node
  <2>2. LeftDepth(g, Top) = IF Top.exit THEN g.depth + 1 ELSE g.depth
    BY <1>3 DEF LeftDepth
  <2>3. QED
    BY <2>1, <2>2
<1>7. /\ ScopesOK(scope') /\ Len(scope') = g.depth /\ \A j \in 1 .. Solid(g) : scope'[j] = scope[j]
  <2>1. CASE Top.exit
    <3>1. scope' = Front(scope) /\ Len(scope) = g.depth + 1
      BY <1>1, <1>3, <1>6, <2>1
    <3>2. scope # <<>>
      <4>1. Sequence(scope)
        BY <1>3 DEF ScopesOK
      <4>2. Len(scope) # 0
        BY <1>5, <3>1
      <4>3. QED
        BY <4>1, <4>2, SequenceFacts1
    <3>3. /\ ScopesOK(scope') /\ Len(scope') = Len(scope) - 1
          /\ \A j \in 1 .. Len(scope) - 1 : scope'[j] = scope[j]
      BY <1>3, <3>1, <3>2, ScopeLeft
    <3>4. Len(scope) - 1 = g.depth
      BY <1>5, <3>1
    <3>5. Solid(g) <= g.depth
      BY <1>5 DEF Solid
    <3>6. \A j \in 1 .. Solid(g) : j \in 1 .. g.depth
      BY <1>3, <1>5, <3>5
    <3>7. QED
      BY <3>3, <3>4, <3>6
  <2>2. CASE ~ Top.exit
    <3>1. scope' = scope /\ Len(scope) = g.depth
      BY <1>1, <1>3, <1>6, <2>2
    <3>2. QED
      BY <1>3, <3>1
  <2>3. QED
    BY <2>1, <2>2
<1>8. Tracks(s, f, g, scope', FALSE)
  BY <1>3, <1>7, TracksBack
<1>9. Tracks(agenda', f, g, scope', pre_enter_scope')
  BY <1>1, <1>3, <1>8 DEF Return, s
<1>10. Filled(prog, ir', insert', tmp_val', f, g)
  <2>1. Here(ir', insert', f.mode, tmp_val', g) = IfOpen(ir, insert, g.K)
    BY <1>1, <1>3, HereIs DEF IfOpen
  <2>2. \E S : Simulates(prog, ir, S, OpenAt(g) \cup IfOpen(ir, insert, g.K), g.need)
    <3>1. CASE IsTerminated(ir, insert)
      BY <1>4, <3>1 DEF IfOpen
    <3>2. CASE ~ IsTerminated(ir, insert)
      <4> DEFINE z == From(node.body, l)
      <4>1. z.k = "seq" /\ z.pos = l /\ z.body = node.body
        BY DEF From
      <4>2. l > Len(node.body)
        <5>1. Len(node.body) \in Nat
          BY <1>3, SequenceFacts1
        <5>2. l > Len(node.body) \/ (l > 1 /\ IsTerminated(ir, insert))
          BY <1>1 DEF BodyDone
        <5>3. QED
          BY <3>2, <5>2
      <4>3. o.K = Put(g.K, z, e)
        BY <1>6
      <4> HIDE DEF z
      <4>4. Unfolds(prog.void, o.K, g.K)
        BY <1>3, <4>1, <4>2, <4>3, PutUnfolds
      <4>5. Triples(OpenAt(g))
        BY TriplesFacts
      <4>6. Simulates(prog, ir, R, OpenAt(g) \cup {<<o.K, insert, {}>>}, g.need)
        BY <1>4, <3>2 DEF IfOpen
      <4>7. \E S : Simulates(prog, ir, S, OpenAt(g) \cup {<<g.K, insert, {}>>}, g.need)
        BY <1>3, <4>4, <4>5, <4>6, StepUnfold
      <4>8. QED
        BY <3>2, <4>7 DEF IfOpen
    <3>3. QED
      BY <3>1, <3>2
  <2>3. QED
    BY <1>1, <2>1, <2>2 DEF Filled
<1>11. QED
  BY <1>1, <1>9, <1>10, KClosing

(* The block a declaration is in is below it.                              *)
DeclIn(f, g, f0, g0, t, e) ==
  /\ t.task = "body" /\ Front(agenda) = Append(Front(Front(agenda)), t)
  /\ KLeaves(Front(Front(agenda)), f0, g0, scope) /\ Fits(f0, t) /\ Suits(g0, t, scope)
  /\ BodyLeft(g0, t, e, g) /\ Sequence(g0.K)
  /\ g.depth \in Nat \ {0} /\ Solid(g0) \in Nat /\ Solid(g0) <= g.depth - 1

(* A declaration is visited as a part of the block below it.               *)
LEMMA DeclBelow ==
  ASSUME NEW f, NEW g, VisitOn(f, g, "decl")
  PROVE  \E f0, g0, t, e : DeclIn(f, g, f0, g0, t, e)
<1> DEFINE s == Front(agenda)
           t == Last(s)
<1>1. KLeaves(s, f, g, scope) /\ f.mode = "stmt" /\ g.block
  <2>1. /\ KLeaves(s, f, g, scope) /\ f.mode = "stmt" /\ Suits(g, Top, scope) /\ Top.task = "visit" /\ node.k = "decl"
    BY DEF VisitOn
  <2>2. Top.node.k = "decl"
    BY <2>1 DEF node
  <2>3. g.block
    BY <2>1, <2>2 DEF Suits
  <2>4. QED
    BY <2>1, <2>3
<1> HIDE DEF s
<1>2. s # <<>> /\ Sequence(s)
  <2>1. Leaves(s, f) /\ Sequence(s)
    BY <1>1, KLeavesFacts
  <2>2. s = <<>> => f = Outside
    BY <2>1, LeavesGood
  <2>3. Outside.mode = "start"
    BY DEF Outside
  <2>4. QED
    BY <1>1, <2>1, <2>2, <2>3
<1>3. PICK f0, g0 : KLeaves(Front(s), f0, g0, scope) /\ Adds(f0, g0, t, f, g, scope)
  BY <1>1, <1>2, KFewer
<1>4. Fits(f0, t) /\ Suits(g0, t, scope) /\ (\E e : g = Left(f0, g0, t, e)) /\ Joint(f, g)
  BY <1>3 DEF Adds
<1>5. PICK e : g = Left(f0, g0, t, e)
  BY <1>4
<1>6. t.task = "body"
  <2>1. IsLeft(f0, g0, t, e, g)
    BY <1>5, LeftIs
  <2>2. QED
    BY <1>1, <2>1 DEF IsLeft
<1>7. BodyLeft(g0, t, e, g)
  BY <1>5, <1>6, BodyFields
<1>8. s = Append(Front(s), t)
  BY <1>2, FrontSequence
<1> HIDE DEF t
<1>9. Joint(f0, g0) /\ Solid(g0) \in Nat
  BY <1>3, KLeavesFacts
<1>10. g.depth \in Nat \ {0} /\ Solid(g0) <= g.depth - 1
  <2>1. g0.depth \in Nat \ {0} /\ g0.first \in BOOLEAN /\ g.depth \in Nat \ {0}
    BY <1>4, <1>9 DEF Joint
  <2>2. g.depth = IF t.exit THEN g0.depth + 1 ELSE g0.depth
    BY <1>6, <1>7 DEF BodyLeft, LeftDepth
  <2>3. t.exit <=> ~ g0.first
    BY <1>4, <1>6 DEF Suits
  <2>4. CASE g0.first
    <3>1. g.depth = g0.depth /\ Solid(g0) = g0.depth - 1
      BY <2>2, <2>3, <2>4 DEF Solid
    <3>2. QED
      BY <2>1, <3>1
  <2>5. CASE ~ g0.first
    <3>1. g.depth = g0.depth + 1 /\ Solid(g0) = g0.depth
      BY <2>2, <2>3, <2>5 DEF Solid
    <3>2. QED
      BY <2>1, <3>1
  <2>6. QED
    BY <2>4, <2>5
<1>11. Sequence(g0.K)
  BY <1>9 DEF Joint
<1>12. QED
  BY <1>3, <1>4, <1>6, <1>7, <1>8, <1>9, <1>10, <1>11 DEF DeclIn, s

(* A declaration: from here to the end of its block its name stands for it.*)
LEMMA VarDefSame ==
  ASSUME IInv, KInv, VarDef
  PROVE  KInv'
<1> DEFINE here == Last(cur_basic_block_list)
           alloca == [op |-> "alloca", id |-> node.id]
           i == [op |-> "act", id |-> node.id, decl |-> node.id]
           a == Allocated(ir, insert, here, alloca)
<1>1. /\ Visiting("decl") /\ Return /\ ir' = Emit(a, insert, i) /\ prog' = prog /\ insert' = insert
      /\ pre_enter_scope' = pre_enter_scope /\ scope' = push(scope, node.name, node.id)
  BY DEF VarDef, Allocated
<1>2. PICK f, g : VisitOn(f, g, "decl")
  BY <1>1, KVisit
<1>3. PICK f0, g0, t, e : DeclIn(f, g, f0, g0, t, e)
  BY <1>2, DeclBelow
<1>4. /\ f.mode = "stmt" /\ Statement(f, node) /\ node.k = "decl" /\ ~ g.first /\ EnvIs(g.env, scope, g.depth)
      /\ ScopesOK(scope) /\ Len(scope) = g.depth /\ OnlyHeld(g, f.held) /\ insert \notin f.held /\ Sequence(g.K)
      /\ UnderWay(ir, insert, f.held) /\ ~ IsTerminated(ir, insert) /\ Shape(ir)
      /\ Top.task = "visit" /\ Suits(g, Top, scope) /\ cur_basic_block_list = <<insert>> /\ pre_enter_scope = FALSE
  BY <1>2 DEF VisitOn
<1>5. PICK R : Simulates(prog, ir, R, OpenAt(g) \cup {<<Visited(f, g), insert, {}>>}, g.need)
  BY <1>2 DEF VisitOn
<1>6. /\ t.task = "body" /\ Front(agenda) = Append(Front(Front(agenda)), t)
      /\ KLeaves(Front(Front(agenda)), f0, g0, scope) /\ Fits(f0, t) /\ Suits(g0, t, scope) /\ Sequence(g0.K)
      /\ g.depth \in Nat \ {0} /\ Solid(g0) \in Nat /\ Solid(g0) <= g.depth - 1
      /\ g.K = Put(g0.K, From(t.node.body, t.pos), e) /\ g.env = e /\ g.depth = LeftDepth(g0, t)
      /\ g.at = g0.at /\ g.need = g0.need
  BY <1>3 DEF DeclIn, BodyLeft
<1>7. node.name \in Names /\ node = Top.node
  BY <1>4, SourceAssumption DEF Statement, node
<1> DEFINE b == From(t.node.body, t.pos)
           e2 == Rebound(e, node.name, node.id)
           k == Put(g0.K, b, e2)
           c == Visited(f, g)
<1>8. /\ ~ Declares(scope[g.depth], node.name)
      /\ t.pos - 1 \in 1 .. Len(t.node.body) /\ node = t.node.body[t.pos - 1]
  <2>1. /\ ~ Declares(scope[g.depth], Top.node.name)
        /\ LET s == Last(g.K).stmt IN s.pos - 1 \in 1 .. Len(s.body) /\ Top.node = s.body[s.pos - 1]
    BY <1>4, <1>7 DEF Suits
  <2>2. Last(g.K).stmt = b
    BY <1>6, PutFacts
  <2>3. b.pos = t.pos /\ b.body = t.node.body
    BY DEF From
  <2>4. QED
    BY <1>7, <2>1, <2>2, <2>3
<1>9. here = insert
  BY <1>4, LastOfOne
<1>10. alloca.op = "alloca" /\ i.op = "act"
  OBVIOUS
<1> HIDE DEF alloca, here
<1>11. a = Allocated(ir, insert, insert, alloca)
  BY <1>9
<1> HIDE DEF a
<1>12. UnderWay(a, insert, f.held) /\ ~ IsTerminated(a, insert)
  BY <1>4, <1>10, <1>11, AllocatedUnderWay
<1>13. Shape(a) /\ insert \in BBs(a)
  BY <1>12, InsertListed DEF UnderWay
<1>14. c = Put(g.K, node, g.env)
  BY <1>4 DEF Visited
<1>15. Shows(prog.void, c) /\ Shown(c) = i
  <2>1. c # <<>> /\ Last(c).stmt = node /\ Last(c).env = g.env
    BY <1>4, <1>14, PutFacts
  <2> HIDE DEF c
  <2>2. QED
    BY <1>4, <2>1 DEF Shows, Shown
<1> HIDE DEF i, c
<1>16. \E S : Simulates(prog, a, S, OpenAt(g) \cup {<<c, insert, {}>>}, g.need)
  <2> DEFINE O == OpenAt(g) \cup {<<c, insert, {}>>}
  <2>1. Triples(O)
    BY TriplesFacts
  <2>2. Simulates(prog, ir, R, O, g.need)
    BY <1>5 DEF c
  <2> HIDE DEF O
  <2>3. Sim(prog.void, ir, R, O)
    BY <2>2 DEF Simulates
  <2>4. \E S : Grown(prog.void, R, a, S, O)
    BY <1>4, <1>10, <1>11, <2>1, <2>3, SimAllocated
  <2>5. \E S : Simulates(prog, a, S, O, g.need)
    BY <2>2, <2>4, GrownSimulates
  <2>6. QED
    BY <2>5 DEF O
<1>17. PICK S : Simulates(prog, a, S, OpenAt(g) \cup {<<c, insert, {}>>}, g.need)
  BY <1>16
<1>18. \A u, z : Happens(c, u, z) => u = k /\ z = {}
  <2>1. \A u, z : Happens(c, u, z) => u = [g.K EXCEPT ![Len(g.K)].env[node.name] = node.id] /\ z = {}
    BY <1>4, <1>14, PutHappens
  <2>2. Redeclares(g.K, node.name, node.id) = k
    <3>1. Redeclares(Put(g0.K, b, e), node.name, node.id) = Put(g0.K, b, Rebound(e, node.name, node.id))
      <4> HIDE DEF b
      <4>1. QED
        BY <1>6, Redeclared
    <3>2. QED
      BY <1>6, <3>1
  <2>3. QED
    BY <2>1, <2>2 DEF Redeclares
<1> HIDE DEF k, b, e2
<1> DEFINE P == {<<k, insert, {}>>}
<1>19. Appended(a, ir', insert, i) /\ ~ IsTerminated(ir', insert)
  <2>1. Appended(a, ir', insert, i)
    BY <1>1, <1>13, EmitAppends
  <2>2. i.op \notin Terminators
    BY <1>10 DEF Terminators, i
  <2>3. QED
    BY <2>1, <2>2 DEF Appended
<1>20. Does(prog.void, S, OpenAt(g) \cup P, c, insert, i, {})
  <2>1. i.op \notin Terminators
    BY <1>10 DEF Terminators, i
  <2>2. QED
    BY <1>15, <1>18, <2>1 DEF Does
<1>21. \E T : Simulates(prog, ir', T, OpenAt(g) \cup P, g.need)
  <2>1. Triples(P)
    BY TriplesFacts
  <2> HIDE DEF P
  <2>2. QED
    BY <1>4, <1>17, <1>19, <1>20, <2>1, StepOne
<1>22. \E T : Simulates(prog, ir', T, OpenAt(g0) \cup {<<k, insert', {}>>}, g0.need)
  <2>1. OpenAt(g) = OpenAt(g0)
    BY <1>6 DEF OpenAt
  <2>2. QED
    BY <1>1, <1>6, <1>21, <2>1
<1>23. /\ ScopesOK(scope') /\ Len(scope') = g.depth /\ (\A j \in 1 .. g.depth - 1 : scope'[j] = scope[j])
       /\ scope'[g.depth] = scope[g.depth] \cup {<<node.name, node.id>>} /\ EnvIs(e2, scope', g.depth)
  <2>1. EnvIs(e, scope, g.depth)
    BY <1>4, <1>6
  <2> DEFINE n == g.depth
             x == node.name
             d == node.id
             sd == scope'
  <2>2. /\ ScopesOK(scope) /\ n \in Nat \ {0} /\ Len(scope) = n /\ x \in Names /\ ~ Declares(scope[n], x)
        /\ EnvIs(e, scope, n) /\ sd = push(scope, x, d)
    BY <1>1, <1>4, <1>6, <1>7, <1>8, <2>1
  <2>3. InScope(scope, sd, n, <<x, d>>) /\ EnvIs(Rebound(e, x, d), sd, n)
    <3> HIDE DEF n, x, d, sd
    <3>1. QED
      BY <2>2, ScopePushed
  <2>4. QED
    BY <2>3 DEF e2, InScope
<1> DEFINE s0 == Front(Front(agenda))
<1> HIDE DEF s0
<1>24. KLeaves(s0, f0, g0, scope')
  <2>1. \A j \in 1 .. Solid(g0) : scope'[j] = scope[j]
    BY <1>6, <1>23
  <2>2. QED
    BY <1>6, <2>1, KScope DEF s0
<1>25. Suits(g0, t, scope')
  <2>1. t.exit <=> ~ g0.first
    BY <1>6 DEF Suits
  <2>2. ASSUME NEW x \in scope'[LeftDepth(g0, t)]
        PROVE  \E j \in 1 .. t.pos - 1 : t.node.body[j].k = "decl" /\ t.node.body[j].name = x[1]
    <3>1. x \in scope[LeftDepth(g0, t)] \/ x = <<node.name, node.id>>
      BY <1>6, <1>23, <2>2
    <3>2. CASE x \in scope[LeftDepth(g0, t)]
      BY <1>6, <3>2 DEF Suits
    <3>3. CASE x = <<node.name, node.id>>
      <4>1. x[1] = node.name
        BY <3>3
      <4>2. t.pos - 1 \in 1 .. t.pos - 1
        BY <1>8
      <4>3. QED
        BY <1>4, <1>8, <4>1, <4>2
    <3>4. QED
      BY <3>1, <3>2, <3>3
  <2>3. QED
    BY <1>6, <2>1, <2>2 DEF Suits
<1>26. agenda' = Append(s0, t)
  BY <1>1, <1>6 DEF Return, s0
<1>27. /\ Len(scope') = LeftDepth(g0, t) /\ pre_enter_scope' = FALSE /\ EnvIs(e2, scope', LeftDepth(g0, t))
       /\ ~ IsTerminated(ir', insert')
  BY <1>1, <1>4, <1>6, <1>19, <1>23
<1>28. k = Put(g0.K, From(t.node.body, t.pos), e2)
  BY DEF k, b
<1>29. QED
  BY <1>1, <1>6, <1>22, <1>23, <1>24, <1>25, <1>26, <1>27, <1>28, BodyRests

-----------------------------------------------------------------------------
(***************************************************************************)
(* Tasks that wait for a condition or for a branch                         *)
(***************************************************************************)
OpenOf(A) == {<<q[1], q[2], {}>> : q \in A}

(* What is left to do at the blocks left for later, block by block.        *)
LEMMA OpenParts ==
  /\ \A g : OpenAt(g) = OpenOf(g.at)
  /\ \A A, B : OpenOf(A \cup B) = OpenOf(A) \cup OpenOf(B)
  /\ \A k, b : OpenOf({<<k, b>>}) = {<<k, b, {}>>}
<1>1. \A g : OpenAt(g) = OpenOf(g.at)
  BY DEF OpenAt, OpenOf
<1>2. \A A, B : OpenOf(A \cup B) = OpenOf(A) \cup OpenOf(B)
  BY DEF OpenOf
<1>3. ASSUME NEW k, NEW b PROVE OpenOf({<<k, b>>}) = {<<k, b, {}>>}
  <2> DEFINE q == <<k, b>>
  <2>1. q[1] = k /\ q[2] = b
    OBVIOUS
  <2> HIDE DEF q
  <2>2. OpenOf({q}) = {<<q[1], q[2], {}>>}
    BY DEF OpenOf
  <2>3. OpenOf({q}) = {<<k, b, {}>>}
    BY <2>1, <2>2
  <2>4. QED
    BY <2>3 DEF q
<1>4. QED
  BY <1>1, <1>2, <1>3

(* One thing more.                                                         *)
MoreAt(o, g, k, b) == o.at = g.at \cup {<<k, b>>}

(* So is what is left at the open blocks.                                  *)
LEMMA OpenMore ==
  ASSUME NEW o, NEW g, NEW k, NEW b, MoreAt(o, g, k, b)
  PROVE  OpenAt(o) = OpenAt(g) \cup {<<k, b, {}>>}
<1> DEFINE q == <<k, b>>
           r == <<k, b, {}>>
<1>1. OpenOf({q}) = {r}
  BY OpenParts
<1> HIDE DEF q, r
<1>2. OpenAt(o) = OpenOf(g.at \cup {q}) /\ OpenAt(g) = OpenOf(g.at)
  BY OpenParts DEF q, MoreAt
<1>3. OpenOf(g.at \cup {q}) = OpenOf(g.at) \cup OpenOf({q})
  BY OpenParts
<1>4. QED
  BY <1>1, <1>2, <1>3 DEF r

(* A task waits, g is what the visits below left to do, o with the task.   *)
TaskOn(f, g, o) ==
  /\ prog \in Programs /\ Good(f) /\ Good(Over(f, Top)) /\ Joint(f, g) /\ Joint(Over(f, Top), o)
  /\ KLeaves(Front(agenda), f, g, scope) /\ Solid(g) \in Nat /\ Sequence(g.K) /\ g.depth \in Nat \ {0}
  /\ g.first = FALSE /\ o.first = FALSE /\ f.mode \in {"stmt", "cond"}
  /\ EnvIs(g.env, scope, g.depth) /\ EnvIs(g.env, scope, o.depth)
  /\ Fits(f, Top) /\ Suits(g, Top, scope) /\ \E e : IsLeft(f, g, Top, e, o)
  /\ At(ir, insert, cur_basic_block_list, While_Stack, Or_Cond_Stack, Over(f, Top))
  /\ ScopesOK(scope) /\ Len(scope) = o.depth /\ pre_enter_scope = FALSE
  /\ Filled(prog, ir, insert, tmp_val, Over(f, Top), o)

(* It finds that.                                                          *)
LEMMA KTask ==
  ASSUME IInv, KInv, NEW k \in IfTasks \cup LoopTasks \cup {"and", "or"}, Doing(k)
  PROVE  \E f, g, o : TaskOn(f, g, o)
<1>1. agenda # <<>> /\ Top.task = k /\ k \notin {"func", "endFunc", "visit", "body"}
  BY DEF Doing, IfTasks, LoopTasks
<1>2. PICK f, g, o : KOn(f, g, o)
  BY <1>1, KOpening
<1> DEFINE p == Over(f, Top)
<1>3. /\ On(f) /\ KLeaves(Front(agenda), f, g, scope) /\ Joint(f, g) /\ Solid(g) \in Nat
      /\ ~ g.first /\ f.mode # "start" => EnvIs(g.env, scope, g.depth)
      /\ Suits(g, Top, scope) /\ (\E e : o = Left(f, g, Top, e)) /\ Joint(p, o)
      /\ ~ o.first => EnvIs(o.env, scope, o.depth)
      /\ ScopesOK(scope) /\ Len(scope) = o.depth
      /\ pre_enter_scope = (p.mode = "stmtvisit" /\ o.first)
      /\ Filled(prog, ir, insert, tmp_val, p, o)
  BY <1>2 DEF KOn, Adds
<1>4. /\ prog \in Programs /\ Good(f) /\ Good(p) /\ At(ir, insert, cur_basic_block_list, While_Stack, Or_Cond_Stack, p)
      /\ Fits(f, Top)
  BY <1>3 DEF On
<1>5. PICK e : o = Left(f, g, Top, e)
  BY <1>3
<1>6. IsLeft(f, g, Top, e, o)
  BY <1>5, LeftIs
<1> HIDE DEF p
<1>7. f.mode \in {"stmt", "cond"}
  <2>1. Kinds(f, Top)
    BY <1>4, FitsKinds
  <2>2. QED
    BY <1>1, <2>1 DEF Kinds
<1>8. ~ g.first /\ g.first \in BOOLEAN
  BY <1>1, <1>3 DEF Suits, Joint
<1>9. o.first = FALSE /\ o.env = g.env
  BY <1>1, <1>6 DEF IsLeft
<1>10. Sequence(g.K) /\ g.depth \in Nat \ {0}
  BY <1>3 DEF Joint
<1>11. g.first = FALSE /\ pre_enter_scope = FALSE
  BY <1>3, <1>8, <1>9
<1>12. EnvIs(g.env, scope, g.depth)
  BY <1>3, <1>7, <1>8
<1>13. EnvIs(g.env, scope, o.depth)
  BY <1>3, <1>9
<1>14. QED
  BY <1>3, <1>4, <1>6, <1>7, <1>9, <1>10, <1>11, <1>12, <1>13 DEF TaskOn, p

(* The branch on a condition goes where the source does.                   *)
LEMMA StepBranch ==
  ASSUME NEW p, NEW m, Shape(m), NEW R, NEW o, NEW H, OnlyHeld(o, H), NEW a \in BBs(m), a \notin H, ~ IsTerminated(m, a), NEW c,
         NEW need, Simulates(p, m, R, OpenAt(o) \cup Here(m, a, "cond", c, o), need),
         NEW t \in BBs(m), NEW e \in BBs(m), t # e,
         <<Put(o.K, o.yes, o.env), t>> \in need, <<Put(o.K, o.no, o.env), e>> \in need,
         NEW n, n = create_cond_br(m, a, c, t, e)
  PROVE  \E S : Simulates(p, n, S, OpenAt(o), need)
<1> DEFINE i == [op |-> "condbr", cond |-> c, true |-> t, false |-> e]
           Q == Here(m, a, "cond", c, o)
           K1 == Put(o.K, o.yes, o.env)
           K2 == Put(o.K, o.no, o.env)
<1>1. Appended(m, n, a, i)
  BY CondBrAppends
<1>2. i.op = "condbr" /\ i.cond = c /\ i.true = t /\ i.false = e
  OBVIOUS
<1>3. Q = {<<Put(o.K, IF x THEN o.yes ELSE o.no, o.env), a, {<<c, x>>}>> : x \in BOOLEAN}
  BY HereIs
<1> HIDE DEF i, Q
<1>4. Entry(R, K1, t) /\ Entry(R, K2, e)
  <2> DEFINE q1 == <<K1, t>>
             q2 == <<K2, e>>
  <2>1. q1 \in need /\ q2 \in need
    OBVIOUS
  <2>2. q1[1] = K1 /\ q1[2] = t /\ q2[1] = K2 /\ q2[2] = e
    OBVIOUS
  <2> HIDE DEF q1, q2, K1, K2
  <2>3. QED
    BY <2>1, <2>2 DEF Simulates
<1> DEFINE T == OpenAt(o) \cup {}
<1>5. ASSUME NEW k, NEW b, NEW w, <<k, b, w>> \in Q
      PROVE  b = a /\ Does(p.void, R, T, k, a, i, w)
  <2>1. PICK x \in BOOLEAN : <<k, b, w>> = <<Put(o.K, IF x THEN o.yes ELSE o.no, o.env), a, {<<c, x>>}>>
    BY <1>3, <1>5
  <2>2. b = a /\ w = {<<c, x>>} /\ k = IF x THEN K1 ELSE K2
    BY <2>1
  <2> HIDE DEF K1, K2, T
  <2>3. <<i.cond, x>> \in w /\ Entry(R, k, IF x THEN i.true ELSE i.false)
    BY <1>2, <1>4, <2>2
  <2>4. QED
    BY <1>2, <2>2, <2>3 DEF Does
<1> HIDE DEF T
<1>6. AllDo(p.void, R, T, Q, a, i)
  BY <1>5 DEF AllDo
<1>7. Simulates(p, m, R, OpenAt(o) \cup Q, need)
  BY DEF Q
<1>8. \E S : Simulates(p, n, S, OpenAt(o) \cup {}, need)
  BY <1>1, <1>6, <1>7, StepAppend, TriplesFacts DEF T
<1>9. QED
  BY <1>8

(* The scopes sc are d, and names stand in them for what they do in g.     *)
ScopesFor(s, f, g, sc, d) == KLeaves(s, f, g, sc) /\ ScopesOK(sc) /\ Len(sc) = d /\ EnvIs(g.env, sc, d)
(* The scopes sc with one more, but for a block, which enters its own. *)
Enters(b, sc, sd) == sd = IF b.k = "block" THEN sc ELSE Append(sc, {})
(* A branch or a body that is no block has a scope of its own.             *)
LEMMA BranchScope ==
  ASSUME NEW s, NEW f, NEW g, NEW sc, g.first = FALSE, g.depth \in Nat \ {0}, ScopesFor(s, f, g, sc, g.depth),
         NEW b, NEW sd, Enters(b, sc, sd)
  PROVE  ScopesFor(s, f, g, sd, InBranch(g.depth, b))
<1>0. KLeaves(s, f, g, sc) /\ ScopesOK(sc) /\ Len(sc) = g.depth /\ EnvIs(g.env, sc, g.depth)
  BY DEF ScopesFor
<1>1. CASE b.k = "block"
  BY <1>1 DEF InBranch, Enters
<1>2. CASE b.k # "block"
  <2>1. sd = Append(sc, {}) /\ InBranch(g.depth, b) = g.depth + 1
    BY <1>2 DEF InBranch, Enters
  <2>2. /\ ScopesOK(sd) /\ Len(sd) = Len(sc) + 1 /\ sd[Len(sc) + 1] = {}
        /\ \A j \in 1 .. Len(sc) : sd[j] = sc[j]
    BY <1>0, <2>1, ScopeEntered
  <2>3. EnvIs(g.env, sd, g.depth + 1)
    BY <1>0, <2>2, EnvDeeper
  <2>4. Solid(g) = g.depth
    BY DEF Solid
  <2>5. KLeaves(s, f, g, sd)
    BY <1>0, <2>2, <2>4, KScope
  <2>6. QED
    BY <1>0, <2>1, <2>2, <2>3, <2>5 DEF ScopesFor
<1>3. QED
  BY <1>1, <1>2

(* A condition is done: where its value leads is in what it left.          *)
LEMMA TaskBranches ==
  ASSUME NEW f, NEW g, NEW o, TaskOn(f, g, o), Top.task \in CondTasks, NEW p, p = Over(f, Top),
         NEW t, NEW e, t # e, t \in p.held, e \in p.held,
         <<Put(o.K, o.yes, o.env), t>> \in o.need, <<Put(o.K, o.no, o.env), e>> \in o.need,
         NEW n, n = create_cond_br(ir, insert, tmp_val, t, e)
  PROVE  \E S : Simulates(prog, n, S, OpenAt(o), o.need)
<1>1. /\ Good(p) /\ Joint(p, o) /\ At(ir, insert, cur_basic_block_list, While_Stack, Or_Cond_Stack, p)
      /\ Filled(prog, ir, insert, tmp_val, p, o)
  BY DEF TaskOn
<1>2. p.mode = "cond"
  <2>1. Fields(f, Top, p)
    BY OverFields
  <2>2. QED
    BY <2>1 DEF Fields, ModeOf, CondTasks
<1>3. Shape(ir) /\ insert \in BBs(ir) /\ insert \notin p.held /\ p.held \subseteq BBs(ir)
  BY <1>1, AtFacts
<1>4. ~ IsTerminated(ir, insert)
  BY <1>1, <1>2 DEF At, Place, OpenModes
<1>5. OnlyHeld(o, p.held)
  BY <1>1 DEF Joint, OnlyHeld
<1>6. PICK R : Simulates(prog, ir, R, OpenAt(o) \cup Here(ir, insert, "cond", tmp_val, o), o.need)
  BY <1>1, <1>2 DEF Filled
<1>7. QED
  BY <1>3, <1>4, <1>5, <1>6, StepBranch

(* The targets of the conditions in progress are held blocks.              *)
LEMMA PairOnTop ==
  ASSUME NEW p, Good(p), p.mode = "cond"
  PROVE  Last(p.conds)[1] \in p.held /\ Last(p.conds)[2] \in p.held /\ p.conds # <<>> /\ Sequence(p.conds)
<1>1. p.conds # <<>> /\ Sequence(p.conds)
  BY DEF Good, CondModes
<1>2. Last(p.conds) = p.conds[Len(p.conds)] /\ Len(p.conds) \in 1 .. Len(p.conds)
  BY <1>1, FrontSequence, SequenceFacts1
<1>3. QED
  BY <1>1, <1>2 DEF Good

(* After the left side of && or || the right side is visited.              *)
LEMMA EndLogicalSame ==
  ASSUME IInv, KInv, IInv', NEW k \in {"and", "or"}, Doing(k),
         NEW t, NEW e,
         k = "and" => t = bbs[1] /\ e = Last(Or_Cond_Stack)[2],
         k = "or" => t = Last(Front(Or_Cond_Stack))[1] /\ e = bbs[1],
         ir' = create_cond_br(ir, insert, tmp_val, t, e), insert' = bbs[1],
         Continue(<<Visit(node.rhs)>>), UNCHANGED <<prog, scope, pre_enter_scope>>
  PROVE  KInv'
<1> DEFINE u == Visit(node.rhs)
           s == Front(agenda)
           b == bbs[1]
<1>1. PICK f, g, o : TaskOn(f, g, o)
  BY KTask
<1> DEFINE p == Over(f, Top)
<1>2. /\ prog \in Programs /\ Good(f) /\ Good(p) /\ Joint(f, g) /\ Joint(p, o)
      /\ KLeaves(s, f, g, scope) /\ g.first = FALSE /\ Fits(f, Top) /\ Suits(g, Top, scope)
      /\ At(ir, insert, cur_basic_block_list, While_Stack, Or_Cond_Stack, p)
      /\ ScopesOK(scope) /\ Len(scope) = o.depth /\ pre_enter_scope = FALSE
  BY <1>1 DEF TaskOn
<1>3. PICK x : IsLeft(f, g, Top, x, o)
  BY <1>1 DEF TaskOn
<1>4. Top.task = k /\ b = Top.bbs[1] /\ u.task = "visit" /\ u.node = Top.node.rhs
  BY DEF Doing, bbs, Visit, node
<1>5. Kinds(f, Top) /\ Fields(f, Top, p)
  BY <1>2, FitsKinds, OverFields
<1> HIDE DEF u, s, b, p
<1>6. f.mode = "cond" /\ b \notin f.own /\ Top.node \in Conds /\ Top.node.k = k
  <2>1. f.mode = "cond" /\ b \notin f.own
    BY <1>4, <1>5 DEF Kinds, IfTasks, LoopTasks
  <2>2. QED
    BY <1>2, <1>4, <2>1 DEF Fits, IfTasks, LoopTasks
<1>7. p.mode = "cond" /\ p.conds = CondsOf(f, Top) /\ p.held = f.held \cup {b}
  <2>1. Own(Top) = {b} /\ Entered(Top) = {}
    BY <1>4 DEF Own, Entered
  <2>2. ModeOf(f, Top) = "cond"
    BY <1>4 DEF ModeOf, CondTasks
  <2>3. QED
    BY <1>5, <2>1, <2>2 DEF Fields
<1>8. /\ Last(f.conds)[1] \in f.held /\ Last(f.conds)[2] \in f.held /\ f.conds # <<>> /\ Sequence(f.conds)
      /\ f.held \subseteq f.own
  BY <1>2, <1>6, PairOnTop DEF Good
<1>9. Or_Cond_Stack = p.conds
  BY <1>2 DEF At
<1> DEFINE right == Put(g.K, Rhs(g, Top), g.env)
<1>10. /\ o.K = g.K /\ o.env = g.env /\ o.depth = g.depth
       /\ o.at = g.at \cup {<<right, b>>} /\ o.need = g.need \cup {<<right, b>>}
       /\ k = "and" => o.yes = Rhs(g, Top) /\ o.no = g.no
       /\ k = "or" => o.yes = g.yes /\ o.no = Rhs(g, Top) /\ ~ o.chain
  <2>1. LeftK(f, g, Top, x) = g.K /\ LeftDepth(g, Top) = g.depth
    BY <1>4 DEF LeftK, LeftDepth, LoopTasks
  <2>2. LeftAt(g, Top) = {<<right, b>>} /\ LeftNeed(g, Top) = {<<right, b>>}
    BY <1>4 DEF LeftAt, LeftNeed, IfTasks, LoopTasks
  <2>3. /\ k = "and" => LeftYes(g, Top) = Rhs(g, Top) /\ LeftNo(g, Top) = g.no
        /\ k = "or" => LeftYes(g, Top) = g.yes /\ LeftNo(g, Top) = Rhs(g, Top)
    BY <1>4 DEF LeftYes, LeftNo
  <2> HIDE DEF right
  <2>4. o.K = g.K /\ o.env = g.env /\ o.depth = g.depth
    BY <1>3, <1>4, <2>1 DEF IsLeft
  <2>5. o.at = g.at \cup {<<right, b>>} /\ o.need = g.need \cup {<<right, b>>}
    BY <1>3, <2>2 DEF IsLeft
  <2>6. k = "or" => ~ o.chain
    BY <1>3, <1>4 DEF IsLeft
  <2>7. o.yes = LeftYes(g, Top) /\ o.no = LeftNo(g, Top)
    BY <1>3 DEF IsLeft
  <2>8. QED
    BY <2>3, <2>4, <2>5, <2>6, <2>7
<1>11. CondPart(p, o)
  BY <1>2, <1>7 DEF Joint
<1>12. /\ t # e /\ t \in p.held /\ e \in p.held
       /\ <<Put(o.K, o.yes, o.env), t>> \in o.need /\ <<Put(o.K, o.no, o.env), e>> \in o.need
  <2>1. CASE k = "and"
    <3>1. p.conds = f.conds
      BY <1>4, <1>7, <2>1 DEF CondsOf
    <3>2. t = b /\ e = Last(f.conds)[2]
      BY <1>9, <2>1, <3>1 DEF b
    <3>3. <<Put(o.K, o.no, o.env), e>> \in o.need
      BY <1>11, <3>1, <3>2 DEF CondPart
    <3>4. <<Put(o.K, o.yes, o.env), t>> \in o.need
      BY <1>10, <2>1, <3>2
    <3>5. QED
      BY <1>6, <1>7, <1>8, <3>2, <3>3, <3>4
  <2>2. CASE k = "or"
    <3> DEFINE q == <<Last(f.conds)[1], b>>
    <3>1. p.conds = Append(f.conds, q)
      BY <1>4, <1>7, <2>2 DEF CondsOf
    <3>2. q[1] = Last(f.conds)[1] /\ q[2] = b
      OBVIOUS
    <3> HIDE DEF q
    <3>3. Last(p.conds) = q /\ Front(p.conds) = f.conds
      BY <1>8, <3>1, AppendSequence
    <3>4. t = Last(f.conds)[1] /\ e = b
      BY <1>9, <2>2, <3>3 DEF b
    <3>5. <<Put(o.K, o.no, o.env), e>> \in o.need /\ <<Put(o.K, o.yes, o.env), t>> \in o.need
      BY <1>10, <1>11, <2>2, <3>2, <3>3, <3>4 DEF CondPart
    <3>6. QED
      BY <1>6, <1>7, <1>8, <3>4, <3>5
  <2>3. QED
    BY <2>1, <2>2
<1>13. PICK S : Simulates(prog, ir', S, OpenAt(o), o.need)
  <2>1. Top.task \in CondTasks
    BY <1>4 DEF CondTasks
  <2>2. QED
    BY <1>1, <1>12, <2>1, TaskBranches DEF p
<1>14. Simulates(prog, ir', S, OpenAt(g) \cup {<<right, insert', {}>>}, g.need)
  <2>1. OpenAt(o) = OpenAt(g) \cup {<<right, b, {}>>}
    <3> HIDE DEF right
    <3>1. MoreAt(o, g, right, b)
      BY <1>10 DEF MoreAt
    <3>2. QED
      BY <3>1, OpenMore
  <2>2. g.need \subseteq o.need
    BY <1>10
  <2>3. insert' = b
    BY DEF b
  <2> HIDE DEF right
  <2>4. QED
    BY <1>13, <2>1, <2>2, <2>3, FewerNeeds
<1>15. right = Put(g.K, Branch(u.node, g.yes, g.no), g.env)
  BY <1>4 DEF Rhs
<1> HIDE DEF right
<1>16. Sequence(s) /\ Leaves(s, f)
  BY <1>2, KLeavesFacts
<1>17. agenda' = Append(s, u)
  BY <1>16, ContinueAppends DEF s, u
<1>18. Fits(f, u) /\ Good(Over(f, u)) /\ NextAt(Over(f, u))
  BY <1>4, <1>16, <1>17, NextOne
<1>19. ~ IsTerminated(ir', insert')
  <2>1. Over(f, u).mode = "condvisit"
    BY <1>2, <1>4, <1>6, <1>18, VisitLike
  <2>2. QED
    BY <1>18, <2>1 DEF NextAt, At, Place, OpenModes
<1>20. Suits(g, u, scope')
  <2>1. u.node \in Conds
    BY <1>4, <1>6, CondNode
  <2>2. u.node.k # "decl"
    BY <2>1, FunctionAssumption
  <2>3. g.chain => u.node \in Chains
    <3>1. g.chain => Top.node \in Chains
      BY <1>2, <1>4 DEF Suits
    <3>2. Top.node \in Chains => Top.node.rhs \in Chains
      BY <1>6, SourceAssumption
    <3>3. QED
      BY <1>4, <3>1, <3>2
  <2>4. QED
    BY <1>2, <1>4, <2>2, <2>3 DEF Suits
<1>21. /\ scope' = scope /\ prog' = prog /\ pre_enter_scope' = FALSE /\ Len(scope') = g.depth
  BY <1>2, <1>10
<1>22. /\ KLeaves(s, f, g, scope') /\ ScopesOK(scope') /\ pre_enter_scope' = (f.mode = "stmt" /\ g.first)
       /\ ~ pre_enter_scope'
  BY <1>2, <1>21
<1>23. right = Put(g.K, IF f.mode = "cond" THEN Branch(u.node, g.yes, g.no) ELSE u.node, g.env)
  BY <1>6, <1>15
<1>24. QED
  BY <1>4, <1>14, <1>17, <1>18, <1>19, <1>20, <1>21, <1>22, <1>23, VisitBegins

(* && goes on with its right side if the left is true.                     *)
LEMMA EndLAndSame ==
  ASSUME IInv, KInv, IInv', EndLAnd
  PROVE  KInv'
<1> DEFINE t == bbs[1]
           e == Last(Or_Cond_Stack)[2]
<1>1. /\ Doing("and") /\ ir' = create_cond_br(ir, insert, tmp_val, t, e) /\ insert' = bbs[1]
      /\ Continue(<<Visit(node.rhs)>>) /\ UNCHANGED <<prog, scope, pre_enter_scope>>
  BY DEF EndLAnd
<1>2. QED
  BY <1>1, EndLogicalSame

(* || if it is false.                                                      *)
LEMMA EndLOrSame ==
  ASSUME IInv, KInv, IInv', EndLOr
  PROVE  KInv'
<1> DEFINE t == Last(Front(Or_Cond_Stack))[1]
           e == bbs[1]
<1>1. /\ Doing("or") /\ ir' = create_cond_br(ir, insert, tmp_val, t, e) /\ insert' = bbs[1]
      /\ Continue(<<Visit(node.rhs)>>) /\ UNCHANGED <<prog, scope, pre_enter_scope>>
  BY DEF EndLOr
<1>2. QED
  BY <1>1, EndLogicalSame

(* New blocks, with what is to be done in them.                            *)
Pairs(A, New) == \A q \in A : q = <<q[1], q[2]>> /\ q[2] \in New

(* The blocks do what they did, and the new ones are left open with it.    *)
LEMMA StepAdded ==
  ASSUME NEW p, NEW m, Shape(m), NEW R, NEW O, Triples(O), NEW need, Simulates(p, m, R, O, need),
         NEW n, NEW New, Added(m, n, New), NEW A, Pairs(A, New)
  PROVE  \E S : Simulates(p, n, S, O \cup OpenOf(A), need \cup A)
<1> DEFINE P == O \cup OpenOf(A)
<1>1. Triples(OpenOf(A))
  <2>1. ASSUME NEW z \in OpenOf(A) PROVE z = <<z[1], z[2], z[3]>>
    <3>1. PICK q \in A : z = <<q[1], q[2], {}>>
      BY DEF OpenOf
    <3>2. QED
      BY <3>1
  <2>2. QED
    BY <2>1 DEF Triples
<1>2. Triples(P)
  BY <1>1, TriplesFacts
<1>3. O \subseteq P /\ OpenOf(A) \subseteq P
  OBVIOUS
<1> HIDE DEF P
<1>4. Sim(p.void, m, R, O)
  BY DEF Simulates
<1>5. PICK S : Grown(p.void, R, n, S, P)
  BY <1>2, <1>3, <1>4, SimAdded
<1>6. R \subseteq S /\ Sim(p.void, n, S, P)
  BY <1>5 DEF Grown
<1>7. ASSUME NEW q \in A PROVE Entry(S, q[1], q[2])
  <2>1. q[2] \in New /\ q[2] \in BBs(n) /\ n.code[q[2]] = <<>>
    BY DEF Pairs, Added
  <2>2. Len(n.code[q[2]]) + 1 = 1
    BY <2>1
  <2>3. ~ IsTerminated(n, q[2])
    BY <2>1 DEF IsTerminated
  <2>4. <<q[1], q[2], {}>> \in P
    BY <1>3 DEF OpenOf
  <2>5. <<q[1], q[2], Len(n.code[q[2]]) + 1, {}>> \in S
    BY <1>5, <2>1, <2>3, <2>4 DEF Grown
  <2>6. QED
    BY <2>2, <2>5 DEF Entry
<1>8. /\ \A q \in need : Entry(S, q[1], q[2])
      /\ Entry(S, Start(p), entryBB)
  BY <1>6 DEF Simulates, Entry
<1>9. Simulates(p, n, S, P, need \cup A)
  BY <1>6, <1>7, <1>8 DEF Simulates
<1>10. QED
  BY <1>9 DEF P

(* && and || create the block of their right side.                         *)
LEMMA BeginLogicalSame ==
  ASSUME IInv, KInv, IInv', NEW k \in {"and", "or"}, Visiting(k), ir' = NewBlocks(ir, 1),
         NEW t, t = After(k, node, <<Len(ir'.code)>>), Continue(<<t, Visit(node.lhs)>>),
         UNCHANGED <<prog, insert, scope, pre_enter_scope>>
  PROVE  KInv'
<1> DEFINE u == Visit(node.lhs)
           s == Front(agenda)
           b == Len(ir'.code)
<1>1. PICK f, g : VisitOn(f, g, k)
  BY KVisit
<1>2. k # "block" /\ k \in {"atom", "and", "or"}
  OBVIOUS
<1>3. /\ prog \in Programs /\ Good(f) /\ KLeaves(s, f, g, scope) /\ Joint(f, g) /\ Sequence(g.K)
      /\ Shape(ir) /\ insert \in BBs(ir)
      /\ ScopesOK(scope) /\ Len(scope) = g.depth
      /\ Top.task = "visit" /\ node.k = k /\ Suits(g, Top, scope)
      /\ ~ g.first => EnvIs(g.env, scope, g.depth)
      /\ f.mode = "cond" /\ node \in Conds /\ ~ g.first /\ pre_enter_scope = FALSE
  BY <1>1, <1>2 DEF VisitOn
<1>4. PICK R : Simulates(prog, ir, R, OpenAt(g) \cup {<<Visited(f, g), insert, {}>>}, g.need)
  BY <1>1 DEF VisitOn
<1>5. t.task = k /\ t.node = node /\ t.bbs = <<b>> /\ t.bbs[1] = b /\ u.task = "visit" /\ u.node = node.lhs
  BY DEF After, Visit
<1>6. Added(ir, ir', {b})
  BY <1>3, OneNewBlock
<1> DEFINE p == Over(f, t)
           o == Left(f, g, t, NULL)
           c == Visited(f, g)
           right == Put(g.K, Rhs(g, t), g.env)
<1>7. IsLeft(f, g, t, NULL, o)
  BY LeftIs
<1>8. c = Put(g.K, Branch(node, g.yes, g.no), g.env)
  BY <1>3 DEF Visited
<1> HIDE DEF u, s, b, p, o, c
<1>9. Sequence(s) /\ Leaves(s, f)
  BY <1>3, KLeavesFacts
<1>10. agenda' = Append(Append(s, t), u)
  BY <1>9, ContinueAppends DEF s, u
<1>11. Fits(f, t) /\ Good(p) /\ Fits(p, u) /\ Good(Over(p, u)) /\ NextAt(Over(p, u))
  BY <1>5, <1>9, <1>10, NextTwo DEF p
<1>12. p.mode = "cond"
  <2>1. Fields(f, t, p)
    BY OverFields DEF p
  <2>2. QED
    BY <1>5, <2>1 DEF Fields, ModeOf, CondTasks
<1>13. /\ o.K = g.K /\ o.env = g.env /\ o.depth = g.depth /\ o.first = FALSE
       /\ MoreAt(o, g, right, b) /\ o.need = g.need \cup {<<right, b>>}
       /\ k = "and" => o.yes = Rhs(g, t) /\ o.no = g.no
       /\ k = "or" => o.yes = g.yes /\ o.no = Rhs(g, t) /\ ~ o.chain
  <2>1. LeftK(f, g, t, NULL) = g.K /\ LeftDepth(g, t) = g.depth
    BY <1>5 DEF LeftK, LeftDepth, LoopTasks
  <2>2. LeftAt(g, t) = {<<right, b>>} /\ LeftNeed(g, t) = {<<right, b>>}
    BY <1>5 DEF LeftAt, LeftNeed, IfTasks, LoopTasks
  <2>3. /\ k = "and" => LeftYes(g, t) = Rhs(g, t) /\ LeftNo(g, t) = g.no
        /\ k = "or" => LeftYes(g, t) = g.yes /\ LeftNo(g, t) = Rhs(g, t)
    BY <1>5 DEF LeftYes, LeftNo
  <2> HIDE DEF right
  <2>4. o.K = g.K /\ o.env = g.env /\ o.depth = g.depth
    BY <1>5, <1>7, <2>1 DEF IsLeft
  <2>5. MoreAt(o, g, right, b) /\ o.need = g.need \cup {<<right, b>>}
    BY <1>7, <2>2 DEF IsLeft, MoreAt
  <2>6. (k = "or" => ~ o.chain) /\ o.first = FALSE
    BY <1>5, <1>7 DEF IsLeft
  <2>7. o.yes = LeftYes(g, t) /\ o.no = LeftNo(g, t)
    BY <1>7 DEF IsLeft
  <2>8. QED
    BY <2>3, <2>4, <2>5, <2>6, <2>7
<1>14. KLeaves(Append(s, t), p, o, scope)
  <2>1. Suits(g, t, scope)
    <3>1. g.chain => t.node \in Chains
      BY <1>3, <1>5 DEF Suits, node
    <3>2. QED
      BY <1>3, <1>5, <3>1 DEF Suits
  <2>2. EnvIs(g.env, scope, LeftDepth(g, t))
    <3>1. LeftDepth(g, t) = g.depth
      BY <1>5 DEF LeftDepth
    <3>2. QED
      BY <1>3, <3>1
  <2>3. QED
    BY <1>3, <1>5, <1>11, <2>1, <2>2, PushTask DEF p, o
<1> DEFINE k2 == Put(o.K, Branch(u.node, o.yes, o.no), o.env)
<1>15. Unfolds(prog.void, c, k2)
  <2> DEFINE z == Branch(node, g.yes, g.no)
  <2>1. z.k = "branch" /\ z.cond = node /\ z.yes = g.yes /\ z.no = g.no
    BY DEF Branch
  <2>2. c = Put(g.K, z, g.env)
    BY <1>8
  <2>3. Rhs(g, t) = Branch(z.cond.rhs, z.yes, z.no)
    BY <1>5, <2>1 DEF Rhs
  <2> HIDE DEF z
  <2>4. /\ k = "and" => k2 = Put(g.K, Branch(z.cond.lhs, Branch(z.cond.rhs, z.yes, z.no), z.no), g.env)
        /\ k = "or" => k2 = Put(g.K, Branch(z.cond.lhs, z.yes, Branch(z.cond.rhs, z.yes, z.no)), g.env)
    BY <1>5, <1>13, <2>1, <2>3
  <2> HIDE DEF k2
  <2>5. /\ k = "and" => Unfolds(prog.void, c, Put(g.K, Branch(z.cond.lhs, Branch(z.cond.rhs, z.yes, z.no), z.no), g.env))
        /\ k = "or" => Unfolds(prog.void, c, Put(g.K, Branch(z.cond.lhs, z.yes, Branch(z.cond.rhs, z.yes, z.no)), g.env))
    BY <1>3, <2>1, <2>2, PutUnfolds
  <2>6. QED
    BY <2>4, <2>5
<1> HIDE DEF k2, right
<1> DEFINE q == <<right, b>>
<1>16. \E S : Simulates(prog, ir', S, (OpenAt(g) \cup {<<c, insert, {}>>}) \cup {<<right, b, {}>>}, o.need)
  <2> DEFINE O == OpenAt(g) \cup {<<c, insert, {}>>}
             A == {q}
  <2>1. q[1] = right /\ q[2] = b
    OBVIOUS
  <2>2. Pairs(A, {b})
    BY DEF Pairs
  <2>3. OpenOf(A) = {<<right, b, {}>>}
    BY OpenParts
  <2>4. Triples(O) /\ Simulates(prog, ir, R, O, g.need)
    BY <1>4, TriplesFacts DEF c
  <2> HIDE DEF O, q
  <2>5. \E S : Simulates(prog, ir', S, O \cup OpenOf(A), g.need \cup A)
    <3> HIDE DEF A
    <3>1. QED
      BY <1>3, <1>6, <2>2, <2>4, StepAdded
  <2>6. o.need = g.need \cup A
    BY <1>13 DEF q
  <2>7. QED
    BY <2>3, <2>5, <2>6 DEF O
<1> HIDE DEF q
<1>17. OpenAt(o) = OpenAt(g) \cup {<<right, b, {}>>}
  BY <1>13, OpenMore
<1>18. PICK S : Simulates(prog, ir', S, OpenAt(o) \cup {<<c, insert, {}>>}, o.need)
  <2>1. (OpenAt(g) \cup {<<c, insert, {}>>}) \cup {<<right, b, {}>>} = OpenAt(o) \cup {<<c, insert, {}>>}
    BY <1>17
  <2>2. QED
    BY <1>16, <2>1
<1>19. \E T : Simulates(prog, ir', T, OpenAt(o) \cup {<<k2, insert', {}>>}, o.need)
  <2>1. Shape(ir') /\ Triples(OpenAt(o)) /\ insert' = insert
    BY <1>6, TriplesFacts DEF Added
  <2>2. QED
    BY <1>15, <1>18, <2>1, StepUnfold
<1>20. ~ IsTerminated(ir', insert')
  <2>1. Over(p, u).mode = "condvisit"
    BY <1>5, <1>11, <1>12, VisitLike
  <2>2. QED
    BY <1>11, <2>1 DEF NextAt, At, Place, OpenModes
<1>21. Suits(o, u, scope')
  <2>1. u.node \in Conds
    BY <1>3, <1>5, CondNode
  <2>2. u.node.k # "decl"
    BY <2>1, FunctionAssumption
  <2>3. o.chain => u.node \in Chains
    BY <1>3, <1>5, <1>13, SourceAssumption
  <2>4. QED
    BY <1>5, <1>13, <2>2, <2>3 DEF Suits
<1> DEFINE r == Append(s, t)
<1>22. /\ KLeaves(r, p, o, scope') /\ agenda' = Append(r, u) /\ prog' = prog /\ ScopesOK(scope') /\ Len(scope') = o.depth
       /\ pre_enter_scope' = (p.mode = "stmt" /\ o.first) /\ ~ pre_enter_scope'
  BY <1>3, <1>10, <1>13, <1>14
<1> HIDE DEF r
<1>23. k2 = Put(o.K, IF p.mode = "cond" THEN Branch(u.node, o.yes, o.no) ELSE u.node, o.env)
  BY <1>12 DEF k2
<1>24. QED
  BY <1>5, <1>11, <1>19, <1>20, <1>21, <1>22, <1>23, VisitBegins

(* The left side of an && is visited where the && is.                      *)
LEMMA BeginLAndSame ==
  ASSUME IInv, KInv, IInv', BeginLAnd
  PROVE  KInv'
<1> DEFINE t == After("and", node, <<Len(ir'.code)>>)
<1>1. /\ Visiting("and") /\ ir' = NewBlocks(ir, 1) /\ Continue(<<t, Visit(node.lhs)>>)
      /\ UNCHANGED <<prog, insert, scope, pre_enter_scope>>
  BY DEF BeginLAnd
<1> HIDE DEF t
<1>2. QED
  BY <1>1, BeginLogicalSame DEF t

(* And that of an ||.                                                      *)
LEMMA BeginLOrSame ==
  ASSUME IInv, KInv, IInv', BeginLOr
  PROVE  KInv'
<1> DEFINE t == After("or", node, <<Len(ir'.code)>>)
<1>1. /\ Visiting("or") /\ ir' = NewBlocks(ir, 1) /\ Continue(<<t, Visit(node.lhs)>>)
      /\ UNCHANGED <<prog, insert, scope, pre_enter_scope>>
  BY DEF BeginLOr
<1> HIDE DEF t
<1>2. QED
  BY <1>1, BeginLogicalSame DEF t

(* The task that waits for a branch or a body has what the one that waited *)
(* for the condition had, but for the branch or body itself.               *)
Body(t) == IF t.task = "ifCond" THEN t.node.then ELSE t.node.body
Waits(f, g, t, a, b, o) ==
  /\ o.K = LeftK(f, g, t, NULL) /\ o.env = g.env /\ o.first = FALSE /\ o.chain = FALSE
  /\ o.depth = InBranch(g.depth, b)
  /\ o.need = g.need \cup LeftNeed(g, t)
  /\ g.at \cup LeftAt(g, t) = o.at \cup {<<Put(o.K, b, g.env), a>>}

(* The task after the condition is such a task.                            *)
LEMMA WaitsOn ==
  ASSUME NEW f, NEW g, NEW t, t.task \in {"ifCond", "whileCond"},
         NEW u, u.task = (IF t.task = "ifCond" THEN "ifThen" ELSE "whileBody"), u.node = t.node, u.bbs = t.bbs,
         NEW o, o = Left(f, g, u, NULL)
  PROVE  Waits(f, g, t, CondPair(t)[1], Body(t), o)
<1> DEFINE b1 == t.bbs[1]
           b2 == t.bbs[2]
           b3 == t.bbs[3]
           a == CondPair(t)[1]
           b == Body(t)
<1>1. IsLeft(f, g, u, NULL, o)
  BY LeftIs
<1>2. Alone(u) <=> Alone(t)
  BY DEF Alone
<1>3. Again(g, u) = Again(g, t)
  BY DEF Again
<1>4. o.env = g.env /\ o.first = FALSE /\ o.chain = FALSE
  BY <1>1 DEF IsLeft
<1>5. CASE t.task = "ifCond"
  <2>1. a = b1 /\ b = t.node.then
    BY <1>5 DEF CondPair, Body
  <2>2. o.K = g.K /\ LeftK(f, g, t, NULL) = g.K
    BY <1>1, <1>5 DEF IsLeft, LeftK, LoopTasks
  <2>3. LeftDepth(g, u) = InBranch(g.depth, b)
    BY <1>5, <2>1 DEF LeftDepth
  <2>4. LeftNeed(g, u) = LeftNeed(g, t)
    BY <1>2, <1>5 DEF LeftNeed, IfTasks
  <2>5. LeftAt(g, t) = LeftAt(g, u) \cup {<<Put(g.K, b, g.env), a>>}
    <3>1. LeftAt(g, t) = {<<Put(g.K, b, g.env), a>>, <<Put(g.K, t.node.else, g.env), b2>>, <<g.K, b3>>}
      BY <1>5, <2>1 DEF LeftAt
    <3>2. LeftAt(g, u) = {<<Put(g.K, t.node.else, g.env), b2>>, <<g.K, b3>>}
      BY <1>5 DEF LeftAt
    <3> HIDE DEF a, b, b2, b3
    <3>3. QED
      BY <3>1, <3>2
  <2> HIDE DEF a, b
  <2>6. o.at = g.at \cup LeftAt(g, u) /\ o.need = g.need \cup LeftNeed(g, u) /\ o.depth = LeftDepth(g, u)
    BY <1>1 DEF IsLeft
  <2>7. QED
    BY <1>4, <2>2, <2>3, <2>4, <2>5, <2>6 DEF Waits, a, b
<1>6. CASE t.task = "whileCond"
  <2>1. a = b2 /\ b = t.node.body
    BY <1>6 DEF CondPair, Body
  <2>2. o.K = Again(g, t) /\ LeftK(f, g, t, NULL) = Again(g, t)
    BY <1>1, <1>3, <1>6 DEF IsLeft, LeftK, LoopTasks
  <2>3. LeftDepth(g, u) = InBranch(g.depth, b)
    BY <1>6, <2>1 DEF LeftDepth
  <2>4. LeftNeed(g, u) = LeftNeed(g, t)
    BY <1>3, <1>6 DEF LeftNeed, IfTasks, LoopTasks
  <2>5. LeftAt(g, t) = LeftAt(g, u) \cup {<<Put(Again(g, t), b, g.env), a>>}
    <3>1. LeftAt(g, t) = {<<Put(Again(g, t), b, g.env), a>>, <<g.K, b3>>}
      BY <1>6, <2>1 DEF LeftAt
    <3>2. LeftAt(g, u) = {<<g.K, b3>>}
      BY <1>6 DEF LeftAt
    <3> HIDE DEF a, b, b2, b3
    <3>3. QED
      BY <3>1, <3>2
  <2> HIDE DEF a, b
  <2>6. o.at = g.at \cup LeftAt(g, u) /\ o.need = g.need \cup LeftNeed(g, u) /\ o.depth = LeftDepth(g, u)
    BY <1>1 DEF IsLeft
  <2>7. QED
    BY <1>4, <2>2, <2>3, <2>4, <2>5, <2>6 DEF Waits, a, b
<1>7. QED
  BY <1>5, <1>6

(* The branch on the condition of an if or a loop begins its body.         *)
LEMMA CondDoneSame ==
  ASSUME IInv, KInv, IInv', NEW k \in {"ifCond", "whileCond"}, Doing(k),
         NEW a, NEW e, CondPair(Top)[1] = a, CondPair(Top)[2] = e,
         ir' = create_cond_br(ir, insert, tmp_val, a, e), insert' = a,
         NEW t, t = After(IF k = "ifCond" THEN "ifThen" ELSE "whileBody", node, bbs),
         NEW b, b = Body(Top),
         Continue(<<t, Visit(b)>>), scope' = EnterScope(b), UNCHANGED <<prog, pre_enter_scope>>
  PROVE  KInv'
<1> DEFINE u == Visit(b)
           s == Front(agenda)
<1>1. PICK f, g, o : TaskOn(f, g, o)
  <2>1. k \in IfTasks \cup LoopTasks \cup {"and", "or"}
    BY DEF IfTasks, LoopTasks
  <2>2. QED
    BY <2>1, KTask
<1> DEFINE p == Over(f, Top)
<1>2. /\ prog \in Programs /\ Good(f) /\ Good(p) /\ Joint(f, g) /\ Joint(p, o)
      /\ KLeaves(s, f, g, scope) /\ g.first = FALSE /\ Fits(f, Top) /\ Suits(g, Top, scope)
      /\ EnvIs(g.env, scope, o.depth)
      /\ ScopesOK(scope) /\ Len(scope) = o.depth /\ pre_enter_scope = FALSE
      /\ g.depth \in Nat \ {0} /\ EnvIs(g.env, scope, g.depth)
  BY <1>1 DEF TaskOn
<1>3. PICK x : IsLeft(f, g, Top, x, o)
  BY <1>1 DEF TaskOn
<1>4. /\ Top.task = k /\ Top.task \in {"ifCond", "whileCond"} /\ u.task = "visit" /\ u.node = b
      /\ t.task = (IF k = "ifCond" THEN "ifThen" ELSE "whileBody") /\ t.node = Top.node /\ t.bbs = Top.bbs
  BY DEF Doing, bbs, Visit, node, After
<1> HIDE DEF u, s
<1>5. /\ CondPair(Top)[1] \in p.held /\ CondPair(Top)[2] \in p.held /\ CondPair(Top)[1] # CondPair(Top)[2]
      /\ p.conds = Append(f.conds, CondPair(Top)) /\ p.mode = "cond"
  BY <1>2, <1>4, PairHeld
<1>6. Last(p.conds) = CondPair(Top)
  <2>1. Sequence(f.conds)
    BY <1>2 DEF Good
  <2> HIDE DEF p
  <2>2. QED
    BY <1>5, <2>1, AppendSequence
<1> DEFINE w == Left(f, g, t, NULL)
           p2 == Over(f, t)
           r == Append(s, t)
<1> HIDE DEF p, w, p2, r
<1>7. Waits(f, g, Top, a, b, w)
  BY <1>4, WaitsOn DEF w
<1>8. o.depth = g.depth /\ o.K = w.K /\ o.env = g.env /\ o.need = w.need /\ MoreAt(o, w, Put(w.K, b, g.env), a)
  <2>1. o.depth = LeftDepth(g, Top) /\ LeftDepth(g, Top) = g.depth
    BY <1>3, <1>4 DEF IsLeft, LeftDepth
  <2>2. o.K = LeftK(f, g, Top, x) /\ LeftK(f, g, Top, x) = LeftK(f, g, Top, NULL)
    BY <1>3, <1>4 DEF IsLeft, LeftK
  <2>3. o.env = g.env
    BY <1>3, <1>4 DEF IsLeft
  <2>4. o.need = g.need \cup LeftNeed(g, Top) /\ o.at = g.at \cup LeftAt(g, Top)
    BY <1>3 DEF IsLeft
  <2>5. QED
    BY <1>7, <2>1, <2>2, <2>3, <2>4 DEF Waits, MoreAt
<1>9. <<Put(o.K, o.yes, o.env), a>> \in o.need /\ <<Put(o.K, o.no, o.env), e>> \in o.need
  <2>1. CondPart(p, o)
    BY <1>2, <1>5 DEF Joint
  <2>2. o.chain = FALSE
    BY <1>3, <1>4 DEF IsLeft
  <2>3. QED
    BY <1>6, <2>1, <2>2 DEF CondPart
<1>10. PICK S : Simulates(prog, ir', S, OpenAt(o), o.need)
  <2>1. Top.task \in CondTasks
    BY <1>4 DEF CondTasks
  <2>2. p = Over(f, Top)
    BY DEF p
  <2>3. a # e /\ a \in p.held /\ e \in p.held
    BY <1>5
  <2>4. QED
    BY <1>1, <1>9, <2>1, <2>2, <2>3, TaskBranches
<1>11. Sequence(s) /\ Leaves(s, f)
  BY <1>2, KLeavesFacts
<1>12. agenda' = Append(r, u)
  BY <1>11, ContinueAppends DEF s, u, r
<1>13. Fits(f, t) /\ Good(p2) /\ Fits(p2, u) /\ Good(Over(p2, u)) /\ NextAt(Over(p2, u))
  BY <1>4, <1>11, <1>12, NextTwo DEF p2, r
<1>14. p2.mode = "stmt"
  <2>1. Fields(f, t, p2)
    BY OverFields DEF p2
  <2>2. QED
    BY <1>4, <2>1 DEF Fields, ModeOf, CondTasks
<1>15. /\ ScopesOK(scope') /\ Len(scope') = w.depth /\ EnvIs(g.env, scope', w.depth)
       /\ KLeaves(s, f, g, scope')
  <2>1. scope' = (IF b.k = "block" THEN scope ELSE Append(scope, {})) /\ Len(scope) = g.depth
    BY <1>2, <1>8 DEF EnterScope
  <2> DEFINE sd == scope'
  <2> HIDE DEF sd
  <2>2. Enters(b, scope, sd)
    BY <2>1 DEF sd, Enters
  <2>3. ScopesFor(s, f, g, scope, g.depth)
    BY <1>2, <2>1 DEF ScopesFor
  <2>4. ScopesFor(s, f, g, sd, InBranch(g.depth, b))
    BY <1>2, <2>2, <2>3, BranchScope
  <2>5. QED
    BY <1>7, <2>4 DEF ScopesFor, Waits, sd
<1>16. KLeaves(r, p2, w, scope')
  <2>1. t.task \in IfTasks \cup LoopTasks \cup {"and", "or"} /\ t.task \notin {"endFunc", "visit", "body", "and", "or"}
    BY <1>4 DEF IfTasks, LoopTasks
  <2>2. Suits(g, t, scope')
    BY <1>2, <2>1 DEF Suits
  <2>3. w.depth = LeftDepth(g, t)
    BY LeftIs DEF w, IsLeft
  <2>4. EnvIs(g.env, scope', LeftDepth(g, t))
    BY <1>15, <2>3
  <2>5. QED
    BY <1>13, <1>15, <2>1, <2>2, <2>4, PushTask DEF p2, w, r
<1>17. ~ IsTerminated(ir', insert')
  <2>1. Over(p2, u).mode = "stmtvisit"
    BY <1>4, <1>13, <1>14, VisitLike
  <2>2. QED
    BY <1>13, <2>1 DEF NextAt, At, Place, OpenModes
<1>18. Suits(w, u, scope')
  <2>1. u.node.k # "decl"
    <3>1. Statement(f, Top.node)
      BY <1>2, <1>4 DEF Fits, IfTasks, LoopTasks
    <3>2. Top.node \in Stmts \cup LoopStmts
      BY <3>1 DEF Statement
    <3>3. Top.task = "ifCond" => Top.node.k = "if"
      BY <1>2 DEF Fits, IfTasks, LoopTasks
    <3>4. Top.task = "whileCond" => Top.node.k = "while"
      BY <1>2 DEF Fits, IfTasks, LoopTasks
    <3>5. QED
      BY <1>4, <3>2, <3>3, <3>4, SourceAssumption DEF Body
  <2>2. w.chain = FALSE /\ w.first = FALSE
    BY <1>7 DEF Waits
  <2>3. QED
    BY <1>4, <2>1, <2>2 DEF Suits
<1> DEFINE k2 == Put(w.K, u.node, w.env)
<1>19. \E R : Simulates(prog, ir', R, OpenAt(w) \cup {<<k2, insert', {}>>}, w.need)
  <2>1. k2 = Put(w.K, b, g.env)
    BY <1>4, <1>7 DEF Waits
  <2> HIDE DEF k2
  <2>2. OpenAt(o) = OpenAt(w) \cup {<<k2, a, {}>>}
    BY <1>8, <2>1, OpenMore
  <2>3. QED
    BY <1>8, <1>10, <2>2
<1>20. k2 = Put(w.K, IF p2.mode = "cond" THEN Branch(u.node, w.yes, w.no) ELSE u.node, w.env)
  BY <1>14
<1> HIDE DEF k2
<1>21. prog' = prog /\ pre_enter_scope' = FALSE /\ w.first = FALSE
  BY <1>2, <1>7 DEF Waits
<1>22. pre_enter_scope' = (p2.mode = "stmt" /\ w.first) /\ ~ pre_enter_scope'
  BY <1>21
<1>23. QED
  BY <1>4, <1>12, <1>13, <1>15, <1>16, <1>17, <1>18, <1>19, <1>20, <1>21, <1>22, VisitBegins

(* The condition of an if is done.                                         *)
LEMMA IfConditionSame ==
  ASSUME IInv, KInv, IInv', IfCondition
  PROVE  KInv'
<1> DEFINE k == "ifCond"
           a == bbs[1]
           e == IF HasElse THEN bbs[2] ELSE bbs[3]
           t == After("ifThen", node, bbs)
           b == node.then
<1>1. /\ Doing(k) /\ ir' = create_cond_br(ir, insert, tmp_val, a, e) /\ insert' = a
      /\ scope' = EnterScope(b) /\ Continue(<<t, Visit(b)>>) /\ UNCHANGED <<prog, pre_enter_scope>>
  BY DEF IfCondition
<1>2. Top.task = "ifCond"
  BY <1>1 DEF Doing
<1>3. CondPair(Top)[1] = a /\ CondPair(Top)[2] = e /\ b = Body(Top)
  BY <1>2 DEF CondPair, Alone, HasElse, node, bbs, Body
<1>4. t = After(IF k = "ifCond" THEN "ifThen" ELSE "whileBody", node, bbs) /\ k \in {"ifCond", "whileCond"}
  OBVIOUS
<1> HIDE DEF k, a, e, t, b
<1>5. QED
  BY <1>1, <1>3, <1>4, CondDoneSame

(* That of a loop.                                                         *)
LEMMA WhileConditionSame ==
  ASSUME IInv, KInv, IInv', WhileCondition
  PROVE  KInv'
<1> DEFINE k == "whileCond"
           a == bbs[2]
           e == bbs[3]
           t == After("whileBody", node, bbs)
           b == node.body
<1>1. /\ Doing(k) /\ ir' = create_cond_br(ir, insert, tmp_val, a, e) /\ insert' = a
      /\ scope' = EnterScope(b) /\ Continue(<<t, Visit(b)>>) /\ UNCHANGED <<prog, pre_enter_scope>>
  BY DEF WhileCondition
<1>2. Top.task = "whileCond"
  BY <1>1 DEF Doing
<1>3. CondPair(Top)[1] = a /\ CondPair(Top)[2] = e /\ b = Body(Top)
  BY <1>2 DEF CondPair, node, bbs, Body
<1>4. t = After(IF k = "ifCond" THEN "ifThen" ELSE "whileBody", node, bbs) /\ k \in {"ifCond", "whileCond"}
  OBVIOUS
<1> HIDE DEF k, a, e, t, b
<1>5. QED
  BY <1>1, <1>3, <1>4, CondDoneSame

-----------------------------------------------------------------------------
(***************************************************************************)
(* If                                                                      *)
(***************************************************************************)
(* The blocks of an if, with what is to be done in each; a missing else    *)
(* does nothing and goes on behind the if.                                 *)
LEMMA IfBlocks ==
  ASSUME NEW p, NEW m, Shape(m), NEW R, NEW g, Sequence(g.K), NEW c, NEW a,
         Simulates(p, m, R, OpenAt(g) \cup {<<c, a, {}>>}, g.need),
         NEW t, t.task = "ifCond", NEW n, Added(m, n, {t.bbs[1], t.bbs[2], t.bbs[3]})
  PROVE  \E S : Simulates(p, n, S, (OpenAt(g) \cup {<<c, a, {}>>}) \cup OpenOf(LeftAt(g, t)), g.need \cup LeftNeed(g, t))
<1> DEFINE b1 == t.bbs[1]
           b2 == t.bbs[2]
           b3 == t.bbs[3]
           kt == Put(g.K, t.node.then, g.env)
           ke == Put(g.K, t.node.else, g.env)
           be == IF Alone(t) THEN b3 ELSE b2
           L == {<<kt, b1>>, <<ke, b2>>, <<g.K, b3>>}
           A == L \cup {<<ke, be>>}
           O == OpenAt(g) \cup {<<c, a, {}>>}
<1>1. LeftAt(g, t) = L
  BY DEF LeftAt
<1>2. LeftNeed(g, t) = {<<kt, b1>>, <<g.K, b3>>, <<ke, be>>}
  BY DEF LeftNeed, IfTasks
<1>3. Alone(t) => Unfolds(p.void, ke, g.K)
  <2>1. Alone(t) => t.node.else.k \in {"empty", "none"}
    BY DEF Alone
  <2>2. t.node.else.k \in {"empty", "none"} => Unfolds(p.void, ke, g.K)
    BY PutUnfolds
  <2>3. QED
    BY <2>1, <2>2
<1> HIDE DEF kt, ke
<1>4. Pairs(A, {b1, b2, b3})
  BY DEF Pairs
<1>5. Triples(O) /\ Simulates(p, m, R, O, g.need)
  BY TriplesFacts
<1> HIDE DEF O
<1>6. PICK S : Simulates(p, n, S, O \cup OpenOf(A), g.need \cup A)
  <2> HIDE DEF A
  <2>1. QED
    BY <1>4, <1>5, StepAdded
<1>7. /\ OpenOf(A) = OpenOf(L) \cup {<<ke, be, {}>>}
      /\ OpenOf(L) = {<<kt, b1, {}>>, <<ke, b2, {}>>, <<g.K, b3, {}>>}
  <2> DEFINE L1 == {<<kt, b1>>}
             L2 == {<<ke, b2>>}
             L3 == {<<g.K, b3>>}
             L4 == {<<ke, be>>}
  <2>1. OpenOf(L1) = {<<kt, b1, {}>>} /\ OpenOf(L2) = {<<ke, b2, {}>>} /\ OpenOf(L3) = {<<g.K, b3, {}>>}
        /\ OpenOf(L4) = {<<ke, be, {}>>}
    <3> HIDE DEF be
    <3>1. QED
      BY OpenParts
  <2>2. L = L1 \cup (L2 \cup L3) /\ A = L \cup L4
    OBVIOUS
  <2> HIDE DEF L, L1, L2, L3, L4, A
  <2>3. OpenOf(L2 \cup L3) = OpenOf(L2) \cup OpenOf(L3) /\ OpenOf(L) = OpenOf(L1) \cup OpenOf(L2 \cup L3)
        /\ OpenOf(A) = OpenOf(L) \cup OpenOf(L4)
    BY <2>2, OpenParts
  <2>4. OpenOf(L) = {<<kt, b1, {}>>, <<ke, b2, {}>>, <<g.K, b3, {}>>}
    BY <2>1, <2>3
  <2>5. QED
    BY <2>1, <2>3, <2>4
<1>8. \E T : Simulates(p, n, T, O \cup OpenOf(L), g.need \cup A)
  <2>1. CASE Alone(t)
    <3>1. be = b3
      BY <2>1
    <3> DEFINE B == O \cup OpenOf(L)
    <3>2. O \cup OpenOf(A) = B \cup {<<ke, be, {}>>}
      BY <1>7
    <3>3. B = B \cup {<<g.K, be, {}>>}
      BY <1>7, <3>1
    <3>4. Triples(B)
      <4>1. Triples(OpenOf(L))
        BY DEF Triples, OpenOf
      <4>2. QED
        BY <1>5, <4>1, TriplesFacts
    <3>5. Shape(n)
      BY DEF Added
    <3> HIDE DEF B, be, A, L
    <3>6. Simulates(p, n, S, B \cup {<<ke, be, {}>>}, g.need \cup A)
      BY <1>6, <3>2
    <3>7. \E T : Simulates(p, n, T, B \cup {<<g.K, be, {}>>}, g.need \cup A)
      BY <1>3, <2>1, <3>4, <3>5, <3>6, StepUnfold
    <3>8. QED
      BY <3>3, <3>7 DEF B
  <2>2. CASE ~ Alone(t)
    <3>1. be = b2
      BY <2>2
    <3>2. OpenOf(A) = OpenOf(L)
      BY <1>7, <3>1
    <3>3. QED
      BY <1>6, <3>2
  <2>3. QED
    BY <2>1, <2>2
<1>9. g.need \cup LeftNeed(g, t) \subseteq g.need \cup A
  BY <1>2
<1>10. QED
  <2> HIDE DEF A
  <2>1. QED
    BY <1>1, <1>8, <1>9, FewerNeeds DEF O

(* What waits for a condition has what the visits below it have, and what  *)
(* is to be done in its blocks.                                            *)
WaitsOver(f, g, t, o) ==
  /\ o.K = LeftK(f, g, t, NULL) /\ o.env = g.env /\ o.depth = g.depth /\ o.first = FALSE /\ o.chain = FALSE
  /\ o.yes = LeftYes(g, t) /\ o.no = LeftNo(g, t)
  /\ OpenAt(o) = OpenAt(g) \cup OpenOf(LeftAt(g, t)) /\ o.need = g.need \cup LeftNeed(g, t)
(* This is so of an if and of a loop.                                      *)
LEMMA WaitsOverIs ==
  ASSUME NEW f, NEW g, NEW t, t.task \in {"ifCond", "whileCond"}, NEW o, o = Left(f, g, t, NULL)
  PROVE  WaitsOver(f, g, t, o)
<1>1. IsLeft(f, g, t, NULL, o)
  BY LeftIs
<1>2. LeftDepth(g, t) = g.depth
  BY DEF LeftDepth
<1>3. o.at = g.at \cup LeftAt(g, t)
  BY <1>1 DEF IsLeft
<1>4. OpenAt(o) = OpenAt(g) \cup OpenOf(LeftAt(g, t))
  BY <1>3, OpenParts
<1>5. o.first = FALSE /\ o.chain = FALSE
  BY <1>1 DEF IsLeft
<1>6. QED
  BY <1>1, <1>2, <1>4, <1>5 DEF IsLeft, WaitsOver

(* The condition of an if or a loop is visited, once the blocks are there. *)
LEMMA CondBegins ==
  ASSUME IInv, KInv, IInv', NEW k \in {"if", "while"}, NEW f, NEW g, VisitOn(f, g, k),
         NEW t, t = After(IF k = "if" THEN "ifCond" ELSE "whileCond", node, t.bbs),
         Continue(<<t, Visit(node.cond)>>), UNCHANGED <<prog, scope, pre_enter_scope>>,
         NEW o, o = Left(f, g, t, NULL), NEW c, c = Put(o.K, Branch(node.cond, o.yes, o.no), g.env),
         \E R : Simulates(prog, ir', R, OpenAt(o) \cup {<<c, insert', {}>>}, o.need)
  PROVE  KInv'
<1> DEFINE u == Visit(node.cond)
           s == Front(agenda)
           p == Over(f, t)
           r == Append(s, t)
<1>1. k # "block" /\ k \notin {"atom", "and", "or"}
  OBVIOUS
<1>2. /\ prog \in Programs /\ Good(f) /\ KLeaves(s, f, g, scope) /\ Joint(f, g)
      /\ ScopesOK(scope) /\ Len(scope) = g.depth
      /\ Top.task = "visit" /\ node.k = k /\ Suits(g, Top, scope)
      /\ ~ g.first => EnvIs(g.env, scope, g.depth)
      /\ f.mode = "stmt" /\ Statement(f, node) /\ StmtParts(f, node) /\ ~ g.first /\ pre_enter_scope = FALSE
  BY <1>1 DEF VisitOn
<1>3. /\ t.task = (IF k = "if" THEN "ifCond" ELSE "whileCond") /\ t.node = node /\ u.task = "visit" /\ u.node = node.cond
      /\ t.task \in {"ifCond", "whileCond"}
  BY DEF After, Visit
<1>4. WaitsOver(f, g, t, o)
  BY <1>3, WaitsOverIs
<1>5. o.env = g.env /\ o.depth = g.depth /\ o.first = FALSE /\ o.chain = FALSE
  BY <1>4 DEF WaitsOver
<1> HIDE DEF u, s, p
<1>6. Sequence(s) /\ Leaves(s, f)
  BY <1>2, KLeavesFacts
<1>7. agenda' = Append(r, u)
  BY <1>6, ContinueAppends DEF s, u
<1>8. Fits(f, t) /\ Good(p) /\ Fits(p, u) /\ Good(Over(p, u)) /\ NextAt(Over(p, u))
  BY <1>3, <1>6, <1>7, NextTwo DEF p
<1>9. p.mode = "cond"
  <2>1. Fields(f, t, p)
    BY OverFields DEF p
  <2>2. QED
    BY <1>3, <2>1 DEF Fields, ModeOf, CondTasks
<1>10. KLeaves(r, p, o, scope)
  <2>1. Suits(g, t, scope)
    BY <1>2, <1>3 DEF Suits
  <2>2. EnvIs(g.env, scope, LeftDepth(g, t))
    <3>1. LeftDepth(g, t) = g.depth
      BY <1>3 DEF LeftDepth
    <3>2. QED
      BY <1>2, <3>1
  <2>3. t.task \in IfTasks \cup LoopTasks \cup {"and", "or"}
    BY <1>3 DEF IfTasks, LoopTasks
  <2>4. QED
    BY <1>2, <1>8, <2>1, <2>2, <2>3, PushTask DEF p
<1>11. ~ IsTerminated(ir', insert')
  <2>1. Over(p, u).mode = "condvisit"
    BY <1>3, <1>8, <1>9, VisitLike
  <2>2. QED
    BY <1>8, <2>1 DEF NextAt, At, Place, OpenModes
<1>12. Suits(o, u, scope')
  <2>1. u.node \in Conds
    BY <1>2, <1>3 DEF StmtParts
  <2>2. u.node.k # "decl"
    BY <2>1, FunctionAssumption
  <2>3. QED
    BY <1>3, <1>5, <2>2 DEF Suits
<1> HIDE DEF r
<1>13. /\ KLeaves(r, p, o, scope') /\ agenda' = Append(r, u) /\ prog' = prog /\ ScopesOK(scope') /\ Len(scope') = o.depth
       /\ pre_enter_scope' = (p.mode = "stmt" /\ o.first) /\ ~ pre_enter_scope'
  BY <1>2, <1>5, <1>7, <1>10
<1>14. c = Put(o.K, IF p.mode = "cond" THEN Branch(u.node, o.yes, o.no) ELSE u.node, o.env)
  BY <1>3, <1>5, <1>9
<1>15. QED
  BY <1>3, <1>8, <1>11, <1>12, <1>13, <1>14, VisitBegins

(* An if creates its blocks and visits its condition where it stands.      *)
LEMMA BeginIfStmtSame ==
  ASSUME IInv, KInv, IInv', BeginIfStmt
  PROVE  KInv'
<1> DEFINE l == Len(ir.code)
           t == After("ifCond", node, <<l + 1, l + 2, l + 3>>)
<1>1. Visiting("if") /\ ir' = NewBlocks(ir, 3) /\ Continue(<<t, Visit(node.cond)>>)
      /\ UNCHANGED <<prog, insert, scope, pre_enter_scope>>
  BY DEF BeginIfStmt
<1>2. PICK f, g : VisitOn(f, g, "if")
  BY <1>1, KVisit
<1>3. Shape(ir) /\ Sequence(g.K) /\ f.mode = "stmt"
  BY <1>2 DEF VisitOn
<1>4. PICK R : Simulates(prog, ir, R, OpenAt(g) \cup {<<Visited(f, g), insert, {}>>}, g.need)
  BY <1>2 DEF VisitOn
<1>5. t.task = "ifCond" /\ t.node = node /\ t.bbs[1] = l + 1 /\ t.bbs[2] = l + 2 /\ t.bbs[3] = l + 3
  BY DEF After
<1>6. Added(ir, ir', {t.bbs[1], t.bbs[2], t.bbs[3]})
  BY <1>1, <1>3, <1>5, ThreeNewBlocks
<1>7. t = After(IF "if" = "if" THEN "ifCond" ELSE "whileCond", node, t.bbs)
  BY DEF After
<1>8. Visited(f, g) = Put(g.K, node, g.env)
  BY <1>3 DEF Visited
<1> DEFINE o == Left(f, g, t, NULL)
           c == Put(g.K, node, g.env)
           k2 == Put(o.K, Branch(node.cond, o.yes, o.no), g.env)
<1> HIDE DEF t
<1>9. WaitsOver(f, g, t, o)
  BY <1>5, WaitsOverIs
<1> HIDE DEF o
<1>10. /\ o.K = g.K /\ o.yes = node.then /\ o.no = node.else
       /\ OpenAt(o) = OpenAt(g) \cup OpenOf(LeftAt(g, t)) /\ o.need = g.need \cup LeftNeed(g, t)
  BY <1>5, <1>9 DEF WaitsOver, LeftK, LeftYes, LeftNo, LoopTasks
<1>11. Unfolds(prog.void, c, k2)
  <2>1. node.k = "if"
    BY <1>1 DEF Visiting, node
  <2>2. QED
    BY <1>3, <1>10, <2>1, PutUnfolds
<1> HIDE DEF c, k2
<1>12. Simulates(prog, ir, R, OpenAt(g) \cup {<<c, insert, {}>>}, g.need)
  BY <1>4, <1>8 DEF c
<1>13. PICK S : Simulates(prog, ir', S, (OpenAt(g) \cup {<<c, insert, {}>>}) \cup OpenOf(LeftAt(g, t)), g.need \cup LeftNeed(g, t))
  BY <1>3, <1>5, <1>6, <1>12, IfBlocks
<1>14. Simulates(prog, ir', S, OpenAt(o) \cup {<<c, insert, {}>>}, o.need)
  <2>1. (OpenAt(g) \cup {<<c, insert, {}>>}) \cup OpenOf(LeftAt(g, t)) = OpenAt(o) \cup {<<c, insert, {}>>}
    BY <1>10
  <2>2. QED
    BY <1>10, <1>13, <2>1
<1>15. \E T : Simulates(prog, ir', T, OpenAt(o) \cup {<<k2, insert', {}>>}, o.need)
  <2>1. Shape(ir') /\ Triples(OpenAt(o)) /\ insert' = insert
    BY <1>1, <1>6, TriplesFacts DEF Added
  <2>2. QED
    BY <1>11, <1>14, <2>1, StepUnfold
<1>16. QED
  BY <1>1, <1>2, <1>7, <1>15, CondBegins DEF k2, o

(* The end of a branch or a body jumps on, unless it did already.          *)
LEMMA StepEndBranch ==
  ASSUME NEW p, NEW m, Shape(m), NEW R, NEW o, NEW H, OnlyHeld(o, H), NEW a \in BBs(m), a \notin H,
         NEW mode, mode # "cond", NEW tmp, NEW need, Simulates(p, m, R, OpenAt(o) \cup Here(m, a, mode, tmp, o), need),
         NEW b \in BBs(m), <<o.K, b>> \in need,
         NEW n, n = IF IsTerminated(m, a) THEN m ELSE create_br(m, a, b)
  PROVE  \E S : Simulates(p, n, S, OpenAt(o), need)
<1> DEFINE h == Here(m, a, mode, tmp, o)
<1>1. CASE IsTerminated(m, a)
  <2>1. h = {}
    BY <1>1, HereIs
  <2> HIDE DEF h
  <2>2. OpenAt(o) \cup h = OpenAt(o)
    BY <2>1
  <2>3. Simulates(p, m, R, OpenAt(o) \cup h, need)
    BY DEF h
  <2>4. QED
    BY <1>1, <2>2, <2>3
<1>2. CASE ~ IsTerminated(m, a)
  <2>1. h = {<<o.K, a, {}>>}
    BY <1>2, HereIs
  <2> HIDE DEF h
  <2>2. Simulates(p, m, R, OpenAt(o) \cup h, need)
    BY DEF h
  <2>3. n = create_br(m, a, b)
    BY <1>2
  <2> DEFINE c == o.K
             z == {}
  <2>4. Simulates(p, m, R, OpenAt(o) \cup {<<c, a, z>>}, need) /\ <<c, b>> \in need
    BY <2>1, <2>2
  <2> HIDE DEF c, z
  <2>5. \E S : Simulates(p, n, S, OpenAt(o), need)
    BY <2>3, <2>4, StepJump
  <2>6. QED
    BY <2>5
<1>3. QED
  BY <1>1, <1>2

(* The scopes without that of a branch that is no block.                   *)
Exits(b, sc, sd) == sd = IF b.k = "block" THEN sc ELSE Front(sc)
Restores(s, f, g, sc, sd) == ScopesFor(s, f, g, sd, g.depth) /\ \A j \in 1 .. Solid(g) : sd[j] = sc[j]
(* Names stand for what they did before the branch.                        *)
LEMMA BranchLeft ==
  ASSUME NEW s, NEW f, NEW g, NEW sc, KLeaves(s, f, g, sc), f.mode # "start", g.first = FALSE, g.depth \in Nat \ {0},
         ScopesOK(sc), NEW b, Len(sc) = InBranch(g.depth, b), NEW sd, Exits(b, sc, sd)
  PROVE  Restores(s, f, g, sc, sd)
<1>1. Solid(g) = g.depth
  BY DEF Solid
<1>2. EnvIs(g.env, sc, g.depth)
  BY KLeavesFacts
<1>3. CASE b.k = "block"
  <2>1. sd = sc /\ Len(sc) = g.depth
    BY <1>3 DEF Exits, InBranch
  <2>2. QED
    BY <1>2, <2>1 DEF ScopesFor, Restores
<1>4. CASE b.k # "block"
  <2>1. sd = Front(sc) /\ Len(sc) = g.depth + 1
    BY <1>4 DEF Exits, InBranch
  <2>2. sc # <<>>
    <3>1. Len(<<>>) = 0
      OBVIOUS
    <3>2. QED
      BY <2>1, <3>1
  <2>3. /\ ScopesOK(sd) /\ Len(sd) = Len(sc) - 1
        /\ \A j \in 1 .. Len(sc) - 1 : sd[j] = sc[j]
    BY <2>1, <2>2, ScopeLeft
  <2>4. Len(sd) = g.depth /\ \A j \in 1 .. g.depth : sd[j] = sc[j]
    BY <2>1, <2>3
  <2>5. KLeaves(s, f, g, sd)
    BY <1>1, <2>4, KScope
  <2>6. EnvIs(g.env, sd, g.depth)
    BY <2>5, KLeavesFacts
  <2>7. QED
    BY <1>1, <2>3, <2>4, <2>5, <2>6 DEF ScopesFor, Restores
<1>5. QED
  BY <1>3, <1>4

(* An if or a loop is done: what is left to do is what was left before it. *)
LEMMA TaskEnds ==
  ASSUME NEW f, NEW g, NEW o, TaskOn(f, g, o), NEW b, o.depth = InBranch(g.depth, b),
         Return, scope' = ExitScope(b), UNCHANGED <<prog, pre_enter_scope>>,
         \E R : Simulates(prog, ir', R, OpenAt(g) \cup Here(ir', insert', f.mode, tmp_val', g), g.need)
  PROVE  KInv'
<1> DEFINE s == Front(agenda)
           sd == scope'
<1>1. /\ KLeaves(s, f, g, scope) /\ g.depth \in Nat \ {0} /\ g.first = FALSE /\ f.mode \in {"stmt", "cond"}
      /\ ScopesOK(scope) /\ Len(scope) = o.depth /\ pre_enter_scope = FALSE
  BY DEF TaskOn
<1>2. Exits(b, scope, sd)
  BY DEF ExitScope, Exits
<1> HIDE DEF s, sd
<1>3. f.mode # "start" /\ Len(scope) = InBranch(g.depth, b)
  BY <1>1
<1>4. Restores(s, f, g, scope, sd)
  BY <1>1, <1>2, <1>3, BranchLeft
<1>5. ScopesOK(sd) /\ Len(sd) = g.depth /\ \A j \in 1 .. Solid(g) : sd[j] = scope[j]
  BY <1>4 DEF Restores, ScopesFor
<1>6. Tracks(s, f, g, sd, FALSE)
  BY <1>1, <1>5, TracksBack
<1>7. agenda' = s /\ pre_enter_scope' = FALSE /\ prog' = prog
  BY <1>1 DEF Return, s
<1>8. Tracks(agenda', f, g, scope', pre_enter_scope')
  BY <1>6, <1>7 DEF sd
<1>9. Filled(prog, ir', insert', tmp_val', f, g)
  BY DEF Filled
<1>10. QED
  BY <1>7, <1>8, <1>9, KClosing

(* A branch of an if is done. p is what the visits in progress left, n the *)
(* function with the jump.                                                 *)
BranchEnd(f, g, o, p, n) ==
  /\ Good(f) /\ Good(p) /\ Fits(f, Top) /\ At(ir, insert, cur_basic_block_list, While_Stack, Or_Cond_Stack, p)
  /\ BranchDone(Front(agenda), f, ir, insert, cur_basic_block_list, While_Stack, Or_Cond_Stack, Top)
  /\ Closed(ir, n, insert, p.held, bbs[3]) /\ Kept(n, p)
  /\ UnderWay(n, insert, p.held) /\ IsTerminated(n, insert) /\ Shape(n) /\ Edges(n)
  /\ \A b \in p.held : b \in BBs(n) /\ n.code[b] = <<>> /\ ~ IsTerminated(n, b)
  /\ \A b \in p.own \ p.held : IsTerminated(n, b)
  /\ bbs[3] \in p.held /\ f.mode = "stmt"
  /\ o.K = g.K /\ o.env = g.env /\ o.need = g.need \cup LeftNeed(g, Top)
  /\ OpenAt(o) = OpenAt(g) \cup OpenOf(LeftAt(g, Top))
  /\ \A q \in g.at : q = <<q[1], q[2]>> /\ q[2] \in f.held
  /\ \E S : Simulates(prog, n, S, OpenAt(o), o.need)

(* All that holds once the branch has its jump to the block after the if.  *)
LEMMA BranchEnds ==
  ASSUME NEW f, NEW g, NEW o, TaskOn(f, g, o), Top.task \in {"ifThen", "ifElse"}, NEW p, p = Over(f, Top),
         NEW n, n = EndBranch(bbs[3])
  PROVE  BranchEnd(f, g, o, p, n)
<1> DEFINE s == Front(agenda)
           b3 == bbs[3]
<1>1. /\ Good(f) /\ Good(p) /\ Joint(f, g) /\ Joint(p, o) /\ KLeaves(s, f, g, scope) /\ Fits(f, Top)
      /\ At(ir, insert, cur_basic_block_list, While_Stack, Or_Cond_Stack, p)
      /\ \E R : Simulates(prog, ir, R, OpenAt(o) \cup Here(ir, insert, p.mode, tmp_val, o), o.need)
  BY DEF TaskOn, Filled
<1>2. PICK x : IsLeft(f, g, Top, x, o)
  BY DEF TaskOn
<1>3. Top.task \in IfTasks /\ b3 = Top.bbs[3]
  BY DEF IfTasks, bbs
<1> HIDE DEF s, b3
<1>4. /\ NewThree(f, Top) /\ f.mode = "stmt" /\ p.mode = ModeOf(f, Top)
      /\ p.own = f.own \cup {Top.bbs[1], Top.bbs[2], Top.bbs[3]}
      /\ p.held = f.held \cup ({Top.bbs[1], Top.bbs[2], Top.bbs[3]} \ Entered(Top))
      /\ p.spare = f.spare \cup Spare(Top)
  BY <1>1, <1>3, IfFields
<1>5. p.mode = "stmt"
  BY <1>4 DEF ModeOf, CondTasks
<1>6. b3 \in p.held
  BY <1>3, <1>4 DEF Entered, NewThree
<1>7. BranchDone(s, f, ir, insert, cur_basic_block_list, While_Stack, Or_Cond_Stack, Top)
  <2>1. Leaves(s, f)
    BY <1>1, KLeavesFacts
  <2>2. QED
    BY <1>1, <2>1 DEF BranchDone
<1>8. n = IF IsTerminated(ir, insert) THEN ir ELSE create_br(ir, insert, Top.bbs[3])
  BY DEF EndBranch, bbs
<1>9. Closed(ir, n, insert, p.held, b3)
  BY <1>3, <1>7, <1>8, BranchClosed
<1>10. /\ Shape(ir) /\ Edges(ir) /\ UnderWay(ir, insert, p.held) /\ Kept(ir, p)
       /\ insert \in InList(ir) \ p.held /\ insert \in BBs(ir)
       /\ p.own \subseteq BBs(ir) /\ p.held \subseteq p.own
  BY <1>1, AtFacts
<1>11. UnderWay(n, insert, p.held) /\ IsTerminated(n, insert) /\ Carries(ir, n, {b3}, {})
  BY <1>9 DEF Closed
<1>12. Shape(n) /\ Edges(n) /\ Placed(n, insert, p.held)
  BY <1>11 DEF UnderWay
<1>13. Kept(n, p)
  <2>1. b3 \notin p.spare
    <3>1. f.spare \subseteq f.own
      BY <1>1 DEF Good
    <3>2. QED
      BY <1>3, <1>4, <3>1 DEF Spare, NewThree
  <2>2. {b3} \cap p.spare = {} /\ {} \cap p.own = {}
    BY <2>1
  <2> DEFINE e == {}
  <2>3. Carries(ir, n, {b3}, e) /\ e \cap p.own = {}
    BY <1>11
  <2> HIDE DEF e
  <2>4. QED
    BY <1>1, <1>10, <2>2, <2>3, KeptCarries
<1>14. InList(n) \subseteq BBs(n)
  BY <1>12, ListedBlocks
<1>15. \A b \in p.held : b \in BBs(n) /\ n.code[b] = <<>> /\ ~ IsTerminated(n, b)
  BY <1>12, <1>14 DEF Placed, IsTerminated
<1>16. \A b \in p.own \ p.held : IsTerminated(n, b)
  <2>1. p.own \subseteq InList(n)
    BY <1>13 DEF Kept
  <2>2. QED
    BY <1>11, <1>12, <2>1 DEF Placed
<1>17. o.K = g.K /\ o.env = g.env /\ o.need = g.need \cup LeftNeed(g, Top) /\ o.at = g.at \cup LeftAt(g, Top)
  BY <1>2 DEF IsLeft, LeftK, LoopTasks
<1>18. OpenAt(o) = OpenAt(g) \cup OpenOf(LeftAt(g, Top))
  BY <1>17, OpenParts
<1>19. \A q \in g.at : q = <<q[1], q[2]>> /\ q[2] \in f.held
  BY <1>1 DEF Joint
<1>20. \E S : Simulates(prog, n, S, OpenAt(o), o.need)
  <2>1. PICK R : Simulates(prog, ir, R, OpenAt(o) \cup Here(ir, insert, p.mode, tmp_val, o), o.need)
    BY <1>1
  <2>2. OnlyHeld(o, p.held)
    BY <1>1 DEF Joint, OnlyHeld
  <2>3. <<o.K, b3>> \in o.need
    <3>1. <<g.K, b3>> \in LeftNeed(g, Top)
      BY <1>3 DEF LeftNeed, IfTasks
    <3>2. QED
      BY <1>17, <3>1
  <2>4. b3 \in BBs(ir) /\ insert \notin p.held
    BY <1>6, <1>10
  <2>5. n = IF IsTerminated(ir, insert) THEN ir ELSE create_br(ir, insert, b3)
    BY <1>3, <1>8
  <2>6. p.mode # "cond"
    BY <1>5
  <2>7. QED
    BY <1>10, <2>1, <2>2, <2>3, <2>4, <2>5, <2>6, StepEndBranch
<1>21. b3 = bbs[3] /\ s = Front(agenda)
  BY DEF b3, s
<1>22. QED
  BY <1>1, <1>4, <1>6, <1>7, <1>9, <1>11, <1>12, <1>13, <1>15, <1>16, <1>17, <1>18, <1>19, <1>20, <1>21 DEF BranchEnd

(* An if without else goes on in nextBB.                                   *)
LEMMA EndThenOnlySame ==
  ASSUME IInv, KInv, EndThenOnly
  PROVE  KInv'
<1> DEFINE n == EndBranch(bbs[3])
           w == erase_from_parent(n, bbs[2])
           b2 == bbs[2]
           b3 == bbs[3]
<1>1. /\ Doing("ifThen") /\ ~ HasElse /\ Return /\ scope' = ExitScope(node.then) /\ UNCHANGED <<prog, pre_enter_scope>>
      /\ ir' = (IF w.pre[b3] = <<>> THEN erase_from_parent(w, b3) ELSE w)
      /\ insert' = IF w.pre[b3] = <<>> THEN bbs[1] ELSE b3
  BY DEF EndThenOnly, FinishIf
<1>2. Top.task = "ifThen" /\ Alone(Top)
  BY <1>1 DEF Doing, Alone, HasElse, node
<1>3. PICK f, g, o : TaskOn(f, g, o)
  BY <1>1, KTask DEF IfTasks
<1> DEFINE p == Over(f, Top)
<1> HIDE DEF p, n, b2, b3, w
<1>4. BranchEnd(f, g, o, p, n)
  BY <1>2, <1>3, BranchEnds DEF p, n
<1>5. /\ Good(f) /\ Fits(f, Top) /\ Closed(ir, n, insert, p.held, b3) /\ Kept(n, p)
      /\ At(ir, insert, cur_basic_block_list, While_Stack, Or_Cond_Stack, p)
      /\ Shape(n) /\ Edges(n) /\ b3 \in p.held /\ f.mode = "stmt"
      /\ o.need = g.need \cup LeftNeed(g, Top) /\ OpenAt(o) = OpenAt(g) \cup OpenOf(LeftAt(g, Top))
  BY <1>4 DEF BranchEnd, b3
<1>6. b2 = Top.bbs[2] /\ b3 = Top.bbs[3] /\ w = erase_from_parent(n, b2)
  BY DEF b2, b3, bbs, w
<1>7. w.pre[b3] # <<>>
  <2>1. w.pre[Top.bbs[3]] # <<>>
    BY <1>2, <1>5, <1>6, LeaveThen DEF p
  <2>2. QED
    BY <1>6, <2>1
<1>8. ir' = w /\ insert' = b3
  BY <1>1, <1>7
<1>9. Top.task \in IfTasks
  BY <1>2 DEF IfTasks
<1>10. p.held = f.held \cup ({Top.bbs[1], Top.bbs[2], Top.bbs[3]} \ Entered(Top)) /\ p.spare = f.spare \cup Spare(Top)
       /\ NewThree(f, Top)
  BY <1>5, <1>9, IfFields DEF p
<1>11. b2 \in p.held /\ b2 \in p.spare /\ b2 # b3
  BY <1>2, <1>6, <1>10 DEF Entered, Spare, NewThree
<1>12. /\ b2 \in BBs(n) /\ n.code[b2] = <<>> /\ ~ IsTerminated(n, b3)
  BY <1>4, <1>5, <1>11 DEF BranchEnd
<1>13. n.pre[b2] = <<>>
  BY <1>5, <1>11 DEF Kept
<1>14. w.code = n.code
  BY <1>5, <1>6, <1>12, <1>13, EraseFacts
<1>15. ~ IsTerminated(w, b3)
  BY <1>12, <1>14 DEF IsTerminated
<1> DEFINE P == OpenAt(g) \cup {<<g.K, b3, {}>>}
           ke == Put(g.K, Top.node.else, g.env)
<1>16. OpenAt(o) = OpenAt(g) \cup {<<ke, b2, {}>>, <<g.K, b3, {}>>}
  <2> DEFINE L1 == {<<ke, b2>>}
             L2 == {<<g.K, b3>>}
             L == LeftAt(g, Top)
  <2>1. L = L1 \cup L2
    BY <1>2, <1>6 DEF LeftAt
  <2> HIDE DEF ke
  <2>2. OpenOf(L1) = {<<ke, b2, {}>>} /\ OpenOf(L2) = {<<g.K, b3, {}>>}
    BY OpenParts
  <2> HIDE DEF L1, L2, L
  <2>3. OpenOf(L1 \cup L2) = OpenOf(L1) \cup OpenOf(L2)
    BY OpenParts
  <2>4. QED
    BY <1>5, <2>1, <2>2, <2>3 DEF L
<1>17. Triples(P)
  BY TriplesFacts
<1>18. PICK S : Simulates(prog, n, S, OpenAt(o), o.need)
  BY <1>4 DEF BranchEnd
<1>19. \A k, b, z : <<k, b, z>> \in OpenAt(o) /\ b # b2 => <<k, b, z>> \in P
  <2> SUFFICES ASSUME NEW k, NEW b, NEW z, <<k, b, z>> \in OpenAt(o), b # b2
               PROVE  <<k, b, z>> \in P
    OBVIOUS
  <2> HIDE DEF ke
  <2>1. <<k, b, z>> # <<ke, b2, {}>>
    OBVIOUS
  <2>2. QED
    BY <1>16, <2>1
<1> HIDE DEF P
<1>20. \E T : Simulates(prog, w, T, P, o.need)
  <2>1. Sim(prog.void, n, S, OpenAt(o))
    BY <1>18 DEF Simulates
  <2>2. \E T : Grown(prog.void, S, w, T, P)
    BY <1>5, <1>6, <1>12, <1>13, <1>17, <1>19, <2>1, SimErased
  <2>3. QED
    BY <1>18, <2>2, GrownSimulates
<1>21. g.need \subseteq o.need
  BY <1>5
<1>22. \E T : Simulates(prog, w, T, P, g.need)
  BY <1>20, <1>21, FewerNeeds
<1> DEFINE h == Here(ir', insert', f.mode, tmp_val', g)
<1>23. h = {<<g.K, b3, {}>>}
  <2>1. ~ IsTerminated(ir', insert') /\ f.mode # "cond"
    BY <1>5, <1>8, <1>15
  <2>2. h = {<<g.K, insert', {}>>}
    BY <2>1, HereIs
  <2>3. QED
    BY <1>8, <2>2
<1> HIDE DEF h
<1>24. OpenAt(g) \cup h = P
  BY <1>23 DEF P
<1>25. \E T : Simulates(prog, ir', T, OpenAt(g) \cup h, g.need)
  BY <1>8, <1>22, <1>24
<1> DEFINE b == node.then
<1>26. o.depth = InBranch(g.depth, b)
  <2>1. \E x : IsLeft(f, g, Top, x, o)
    BY <1>3 DEF TaskOn
  <2>2. o.depth = LeftDepth(g, Top)
    BY <2>1 DEF IsLeft
  <2>3. QED
    BY <1>2, <2>2 DEF LeftDepth, node
<1>27. scope' = ExitScope(b)
  BY <1>1
<1> HIDE DEF b
<1>28. QED
  BY <1>1, <1>3, <1>25, <1>26, <1>27, TaskEnds DEF h

(* An if with else goes on in nextBB, or nowhere.                          *)
LEMMA EndElseSame ==
  ASSUME IInv, KInv, EndElse
  PROVE  KInv'
<1> DEFINE n == EndBranch(bbs[3])
           b1 == bbs[1]
           b3 == bbs[3]
<1>1. /\ Doing("ifElse") /\ Return /\ scope' = ExitScope(node.else) /\ UNCHANGED <<prog, pre_enter_scope>>
      /\ ir' = (IF n.pre[b3] = <<>> THEN erase_from_parent(n, b3) ELSE n)
      /\ insert' = IF n.pre[b3] = <<>> THEN b1 ELSE b3
  BY DEF EndElse, FinishIf
<1>2. Top.task = "ifElse"
  BY <1>1 DEF Doing
<1>3. PICK f, g, o : TaskOn(f, g, o)
  BY <1>1, KTask DEF IfTasks
<1> DEFINE p == Over(f, Top)
<1> HIDE DEF p, n, b1, b3
<1>4. BranchEnd(f, g, o, p, n)
  BY <1>2, <1>3, BranchEnds DEF p, n
<1>5. /\ Good(f) /\ Fits(f, Top) /\ Shape(n) /\ Edges(n) /\ b3 \in p.held /\ f.mode = "stmt"
      /\ o.need = g.need \cup LeftNeed(g, Top) /\ OpenAt(o) = OpenAt(g) \cup OpenOf(LeftAt(g, Top))
  BY <1>4 DEF BranchEnd, b3
<1>6. b1 = Top.bbs[1] /\ b3 = Top.bbs[3]
  BY DEF b1, b3, bbs
<1>7. Top.task \in IfTasks
  BY <1>2 DEF IfTasks
<1>8. p.held = f.held \cup ({Top.bbs[1], Top.bbs[2], Top.bbs[3]} \ Entered(Top))
      /\ p.own = f.own \cup {Top.bbs[1], Top.bbs[2], Top.bbs[3]} /\ NewThree(f, Top) /\ f.held \subseteq f.own
  BY <1>5, <1>7, IfFields DEF p, Good
<1>9. b1 \in p.own \ p.held
  BY <1>2, <1>6, <1>8 DEF Entered, NewThree
<1>10. b3 \in BBs(n) /\ n.code[b3] = <<>> /\ ~ IsTerminated(n, b3) /\ IsTerminated(n, b1)
  BY <1>4, <1>5, <1>9 DEF BranchEnd
<1> DEFINE P == OpenAt(g) \cup {<<g.K, b3, {}>>}
           h == Here(ir', insert', f.mode, tmp_val', g)
<1>11. OpenAt(o) = P
  <2>1. LeftAt(g, Top) = {<<g.K, b3>>}
    BY <1>2, <1>6 DEF LeftAt
  <2>2. OpenOf({<<g.K, b3>>}) = {<<g.K, b3, {}>>}
    BY OpenParts
  <2>3. QED
    BY <1>5, <2>1, <2>2
<1>12. g.need \subseteq o.need
  BY <1>5
<1>13. PICK S : Simulates(prog, n, S, OpenAt(o), o.need)
  BY <1>4 DEF BranchEnd
<1>14. f.mode # "cond"
  BY <1>5
<1>15. \E T : Simulates(prog, ir', T, OpenAt(g) \cup h, g.need)
  <2>1. CASE n.pre[b3] = <<>>
    <3>1. ir' = erase_from_parent(n, b3) /\ insert' = b1
      BY <1>1, <2>1
    <3>2. ir'.code = n.code
      BY <1>5, <1>10, <2>1, <3>1, EraseFacts
    <3>3. IsTerminated(ir', insert')
      BY <1>10, <3>1, <3>2 DEF IsTerminated
    <3>4. h = {}
      BY <3>3, HereIs
    <3> DEFINE A == OpenAt(g)
    <3>5. \A k, b, z : <<k, b, z>> \in OpenAt(o) /\ b # b3 => <<k, b, z>> \in A
      <4> SUFFICES ASSUME NEW k, NEW b, NEW z, <<k, b, z>> \in OpenAt(o), b # b3
                   PROVE  <<k, b, z>> \in A
        OBVIOUS
      <4>1. <<k, b, z>> # <<g.K, b3, {}>>
        OBVIOUS
      <4>2. QED
        BY <1>11, <4>1
    <3>6. Triples(A)
      BY TriplesFacts
    <3> HIDE DEF A
    <3>7. Sim(prog.void, n, S, OpenAt(o))
      BY <1>13 DEF Simulates
    <3> DEFINE w == ir'
    <3>8. w = erase_from_parent(n, b3)
      BY <3>1
    <3> HIDE DEF w
    <3>9. \E T : Grown(prog.void, S, w, T, A)
      BY <1>5, <1>10, <2>1, <3>5, <3>6, <3>7, <3>8, SimErased
    <3>10. \E T : Simulates(prog, w, T, A, o.need)
      BY <1>13, <3>9, GrownSimulates
    <3>11. \E T : Simulates(prog, w, T, A, g.need)
      BY <1>12, <3>10, FewerNeeds
    <3>12. A = OpenAt(g) \cup h
      BY <3>4 DEF A
    <3>13. QED
      BY <3>11, <3>12 DEF w
  <2>2. CASE n.pre[b3] # <<>>
    <3>1. ir' = n /\ insert' = b3
      BY <1>1, <2>2
    <3>2. ~ IsTerminated(ir', insert')
      BY <1>10, <3>1
    <3>3. h = {<<g.K, insert', {}>>}
      BY <1>14, <3>2, HereIs
    <3> HIDE DEF h
    <3>4. OpenAt(g) \cup h = OpenAt(o)
      BY <1>11, <3>1, <3>3
    <3>5. Simulates(prog, n, S, OpenAt(o), g.need)
      BY <1>12, <1>13, FewerNeeds
    <3>6. QED
      BY <3>1, <3>4, <3>5
  <2>3. QED
    BY <2>1, <2>2
<1> DEFINE b == node.else
<1>16. o.depth = InBranch(g.depth, b)
  <2>1. \E x : IsLeft(f, g, Top, x, o)
    BY <1>3 DEF TaskOn
  <2>2. o.depth = LeftDepth(g, Top)
    BY <2>1 DEF IsLeft
  <2>3. QED
    BY <1>2, <2>2 DEF LeftDepth, node
<1>17. scope' = ExitScope(b)
  BY <1>1
<1> HIDE DEF b, h
<1>18. QED
  BY <1>1, <1>3, <1>15, <1>16, <1>17, TaskEnds DEF h

(* What waits for the second branch has what waited for the first, but for *)
(* the second branch itself.                                               *)
WaitsElse(g, t, o, w) ==
  /\ w.K = g.K /\ w.env = g.env /\ w.first = FALSE /\ w.chain = FALSE
  /\ w.depth = InBranch(g.depth, t.node.else) /\ w.need = o.need
  /\ OpenAt(o) = OpenAt(w) \cup {<<Put(w.K, t.node.else, w.env), t.bbs[2], {}>>}

(* The task after the first branch is such a task.                         *)
LEMMA WaitsElseIs ==
  ASSUME NEW f, NEW g, NEW t, t.task = "ifThen", NEW u, u.task = "ifElse", u.node = t.node, u.bbs = t.bbs,
         NEW o, o.need = g.need \cup LeftNeed(g, t), OpenAt(o) = OpenAt(g) \cup OpenOf(LeftAt(g, t)),
         NEW w, w = Left(f, g, u, NULL)
  PROVE  WaitsElse(g, t, o, w)
<1>1. IsLeft(f, g, u, NULL, w)
  BY LeftIs
<1>2. w.K = g.K /\ w.env = g.env /\ w.first = FALSE /\ w.chain = FALSE
  BY <1>1 DEF IsLeft, LeftK, LoopTasks
<1>3. w.depth = InBranch(g.depth, t.node.else)
  BY <1>1 DEF IsLeft, LeftDepth
<1>4. LeftNeed(g, u) = LeftNeed(g, t)
  BY DEF LeftNeed, IfTasks, Alone
<1>5. w.need = o.need /\ w.at = g.at \cup LeftAt(g, u)
  BY <1>1, <1>4 DEF IsLeft
<1> DEFINE k == Put(g.K, t.node.else, g.env)
           L1 == {<<k, t.bbs[2]>>}
           L2 == {<<g.K, t.bbs[3]>>}
<1>6. LeftAt(g, t) = L1 \cup L2 /\ LeftAt(g, u) = L2
  BY DEF LeftAt
<1> HIDE DEF k
<1>7. OpenOf(L1) = {<<k, t.bbs[2], {}>>}
  BY OpenParts
<1> HIDE DEF L1, L2
<1>8. OpenOf(LeftAt(g, t)) = OpenOf(L1) \cup OpenOf(L2) /\ OpenAt(w) = OpenAt(g) \cup OpenOf(L2)
  <2>1. OpenOf(L1 \cup L2) = OpenOf(L1) \cup OpenOf(L2)
    BY OpenParts
  <2>2. OpenAt(w) = OpenOf(w.at) /\ OpenAt(g) = OpenOf(g.at)
    BY OpenParts
  <2>3. OpenOf(g.at \cup L2) = OpenOf(g.at) \cup OpenOf(L2)
    BY OpenParts
  <2>4. QED
    BY <1>5, <1>6, <2>1, <2>2, <2>3
<1>9. OpenAt(o) = OpenAt(w) \cup {<<k, t.bbs[2], {}>>}
  BY <1>7, <1>8
<1>10. k = Put(w.K, t.node.else, w.env)
  BY <1>2 DEF k
<1>11. QED
  BY <1>2, <1>3, <1>5, <1>9, <1>10 DEF WaitsElse

(* The second branch is visited in falseBB.                                *)
LEMMA BeginElseSame ==
  ASSUME IInv, KInv, IInv', BeginElse
  PROVE  KInv'
<1> DEFINE n == EndBranch(bbs[3])
           b == node.else
           t == After("ifElse", node, bbs)
           u == Visit(b)
           s == Front(agenda)
           sc == ExitScope(node.then)
           sd == scope'
<1>1. /\ Doing("ifThen") /\ HasElse /\ ir' = n /\ insert' = bbs[2] /\ UNCHANGED <<prog, pre_enter_scope>>
      /\ scope' = (IF b.k = "block" THEN sc ELSE Append(sc, {})) /\ Continue(<<t, u>>)
  BY DEF BeginElse
<1>2. /\ Top.task = "ifThen" /\ ~ Alone(Top) /\ t.task = "ifElse" /\ t.node = Top.node /\ t.bbs = Top.bbs
      /\ u.task = "visit" /\ u.node = b /\ b = Top.node.else /\ bbs[2] = Top.bbs[2]
  BY <1>1 DEF Doing, Alone, HasElse, node, After, Visit, bbs
<1>3. PICK f, g, o : TaskOn(f, g, o)
  BY <1>1, KTask DEF IfTasks
<1> DEFINE p == Over(f, Top)
           w == Left(f, g, t, NULL)
           p2 == Over(f, t)
           r == Append(s, t)
<1> HIDE DEF p, n, b, t, u, s, sc, sd, w, p2
<1>4. BranchEnd(f, g, o, p, n)
  BY <1>2, <1>3, BranchEnds DEF p, n
<1>5. /\ f.mode = "stmt" /\ o.need = g.need \cup LeftNeed(g, Top) /\ OpenAt(o) = OpenAt(g) \cup OpenOf(LeftAt(g, Top))
      /\ Fits(f, Top)
  BY <1>4 DEF BranchEnd
<1>6. WaitsElse(g, Top, o, w)
  BY <1>2, <1>5, WaitsElseIs DEF w
<1>7. /\ KLeaves(s, f, g, scope) /\ g.depth \in Nat \ {0} /\ g.first = FALSE /\ f.mode # "start"
      /\ ScopesOK(scope) /\ Len(scope) = o.depth /\ pre_enter_scope = FALSE /\ Suits(g, Top, scope)
      /\ prog \in Programs /\ Good(f)
  BY <1>3, <1>5 DEF TaskOn, s
<1>8. Len(scope) = InBranch(g.depth, node.then)
  <2>1. \E x : IsLeft(f, g, Top, x, o)
    BY <1>3 DEF TaskOn
  <2>2. o.depth = LeftDepth(g, Top)
    BY <2>1 DEF IsLeft
  <2>3. QED
    BY <1>2, <1>7, <2>2 DEF LeftDepth, node
<1>9. Restores(s, f, g, scope, sc)
  <2>1. Exits(node.then, scope, sc)
    BY DEF Exits, ExitScope, sc
  <2>2. QED
    BY <1>7, <1>8, <2>1, BranchLeft
<1>10. ScopesFor(s, f, g, sd, InBranch(g.depth, b))
  <2>1. Enters(b, sc, sd)
    BY <1>1 DEF Enters, sd
  <2>2. ScopesFor(s, f, g, sc, g.depth)
    BY <1>9 DEF Restores
  <2>3. QED
    BY <1>7, <2>1, <2>2, BranchScope
<1>11. /\ KLeaves(s, f, g, scope') /\ ScopesOK(scope') /\ Len(scope') = w.depth /\ EnvIs(g.env, scope', w.depth)
  BY <1>2, <1>6, <1>10 DEF ScopesFor, WaitsElse, sd
<1>12. Sequence(s) /\ Leaves(s, f)
  BY <1>7, KLeavesFacts
<1>13. agenda' = Append(r, u)
  BY <1>1, <1>12, ContinueAppends DEF s, u, b
<1>14. Fits(f, t) /\ Good(p2) /\ Fits(p2, u) /\ Good(Over(p2, u)) /\ NextAt(Over(p2, u))
  BY <1>2, <1>12, <1>13, NextTwo DEF p2
<1>15. p2.mode = "stmt"
  <2>1. Fields(f, t, p2)
    BY OverFields DEF p2
  <2>2. QED
    BY <1>2, <2>1 DEF Fields, ModeOf, CondTasks
<1>16. KLeaves(r, p2, w, scope')
  <2>1. t.task \in IfTasks \cup LoopTasks \cup {"and", "or"} /\ t.task \notin {"endFunc", "visit", "body", "and", "or"}
    BY <1>2 DEF IfTasks
  <2>2. Suits(g, t, scope')
    BY <1>7, <2>1 DEF Suits
  <2>3. w.depth = LeftDepth(g, t)
    BY LeftIs DEF w, IsLeft
  <2>4. EnvIs(g.env, scope', LeftDepth(g, t))
    BY <1>11, <2>3
  <2>5. QED
    BY <1>11, <1>14, <2>1, <2>2, <2>4, PushTask DEF p2, w
<1>17. ~ IsTerminated(ir', insert')
  <2>1. Over(p2, u).mode = "stmtvisit"
    BY <1>2, <1>14, <1>15, VisitLike
  <2>2. QED
    BY <1>14, <2>1 DEF NextAt, At, Place, OpenModes
<1>18. Suits(w, u, scope')
  <2>1. u.node.k # "decl"
    <3>1. Statement(f, Top.node) /\ Top.node.k = "if"
      BY <1>2, <1>5 DEF Fits, IfTasks, LoopTasks
    <3>2. Top.node \in Stmts \cup LoopStmts
      BY <3>1 DEF Statement
    <3>3. QED
      BY <1>2, <3>1, <3>2, SourceAssumption
  <2>2. w.chain = FALSE /\ w.first = FALSE
    BY <1>6 DEF WaitsElse
  <2>3. QED
    BY <1>2, <2>1, <2>2 DEF Suits
<1> DEFINE k2 == Put(w.K, u.node, w.env)
<1>19. \E R : Simulates(prog, ir', R, OpenAt(w) \cup {<<k2, insert', {}>>}, w.need)
  <2>1. k2 = Put(w.K, Top.node.else, w.env) /\ insert' = Top.bbs[2]
    BY <1>1, <1>2
  <2> HIDE DEF k2
  <2>2. OpenAt(o) = OpenAt(w) \cup {<<k2, insert', {}>>}
    BY <1>6, <2>1 DEF WaitsElse
  <2>3. \E S : Simulates(prog, n, S, OpenAt(o), o.need)
    BY <1>4 DEF BranchEnd
  <2>4. ir' = n /\ w.need = o.need
    BY <1>1, <1>6 DEF WaitsElse
  <2>5. QED
    BY <2>2, <2>3, <2>4
<1>20. k2 = Put(w.K, IF p2.mode = "cond" THEN Branch(u.node, w.yes, w.no) ELSE u.node, w.env)
  BY <1>15
<1> HIDE DEF k2, r
<1>21. prog' = prog /\ pre_enter_scope' = FALSE /\ w.first = FALSE
  BY <1>1, <1>6, <1>7 DEF WaitsElse
<1>22. pre_enter_scope' = (p2.mode = "stmt" /\ w.first) /\ ~ pre_enter_scope'
  BY <1>21
<1>23. QED
  BY <1>2, <1>11, <1>13, <1>14, <1>16, <1>17, <1>18, <1>19, <1>20, <1>21, <1>22, VisitBegins

-----------------------------------------------------------------------------
(***************************************************************************)
(* While                                                                   *)
(***************************************************************************)
(* What break in the body of a loop leaves is what is left behind it.      *)
LEMMA LoopBrokenOff ==
  ASSUME NEW v, NEW c, Sequence(c), NEW s, s.k = "while", NEW e, NEW a, a = Put(c, s, e), NEW k, k = Put(a, BrkStmt, e)
  PROVE  Unfolds(v, k, c)
<1>1. /\ Sequence(a) /\ Len(a) = Len(c) + 1 /\ Len(c) \in Nat /\ a[Len(c) + 1] = Item(s, e)
      /\ \A j \in 1 .. Len(c) : a[j] = c[j]
  BY PutFacts
<1>2. a[Len(c) + 1].stmt.k = "while"
  BY <1>1 DEF Item
<1>3. InLoop(a, c, a)
  BY <1>1, <1>2, AppendSequence DEF InLoop, Put
<1>4. BrkStmt.k = "brk"
  BY DEF BrkStmt
<1> DEFINE b == BrkStmt
<1>5. b.k # "while" /\ k = Put(a, b, e)
  BY <1>4
<1> HIDE DEF b
<1>6. BrokenOff(k) = c
  BY <1>1, <1>3, <1>5, LoopFound
<1>7. Unfolds(v, k, BrokenOff(k))
  BY <1>1, <1>4, <1>5, PutUnfolds DEF b
<1>8. QED
  BY <1>6, <1>7

(* The blocks of a loop, with what is to be done in each: the builder jumps *)
(* to whileBB, where the loop goes on to its condition.                    *)
LEMMA LoopBlocks ==
  ASSUME NEW p, NEW m, Shape(m), NEW R, NEW f, NEW g, OnlyHeld(g, f.held), f.held \subseteq BBs(m), Sequence(g.K),
         NEW a \in BBs(m), a \notin f.held, NEW t, t.task = "whileCond", t.node.k = "while", NEW c, c = Again(g, t),
         Simulates(p, m, R, OpenAt(g) \cup {<<c, a, {}>>}, g.need),
         NEW n, Added(m, n, {t.bbs[1], t.bbs[2], t.bbs[3]}),
         NEW w, w = create_br(n, a, t.bbs[1]),
         NEW k, k = Put(c, Branch(t.node.cond, t.node.body, BrkStmt), g.env)
  PROVE  \E S : Simulates(p, w, S, (OpenAt(g) \cup OpenOf(LeftAt(g, t))) \cup {<<k, t.bbs[1], {}>>}, g.need \cup LeftNeed(g, t))
<1> DEFINE b1 == t.bbs[1]
           b2 == t.bbs[2]
           b3 == t.bbs[3]
           kt == Put(c, t.node.body, g.env)
           kb == Put(c, BrkStmt, g.env)
           L == {<<kt, b2>>, <<g.K, b3>>}
           A == {<<c, b1>>, <<kt, b2>>, <<kb, b3>>, <<g.K, b3>>}
           O == OpenAt(g) \cup {<<c, a, {}>>}
<1>1. LeftAt(g, t) = L /\ LeftNeed(g, t) = A
  BY DEF LeftAt, LeftNeed, IfTasks, LoopTasks
<1>2. c = Put(g.K, t.node, g.env)
  BY DEF Again
<1>3. Unfolds(p.void, kb, g.K)
  BY <1>2, LoopBrokenOff
<1>4. Unfolds(p.void, c, k)
  BY <1>2, PutUnfolds
<1>5. /\ b1 \in BBs(n) /\ a \in BBs(n) /\ Shape(n) /\ a # b1 /\ a # b2 /\ a # b3
      /\ b1 \notin BBs(m) /\ b2 \notin BBs(m) /\ b3 \notin BBs(m)
  BY DEF Added
<1> HIDE DEF kt, kb
<1>6. Pairs(A, {b1, b2, b3})
  BY DEF Pairs
<1>7. Triples(O) /\ Simulates(p, m, R, O, g.need)
  BY TriplesFacts
<1> DEFINE need == g.need \cup A
<1>8. PICK S : Simulates(p, n, S, O \cup OpenOf(A), need)
  <2> HIDE DEF A, O
  <2>1. QED
    BY <1>6, <1>7, StepAdded
<1> DEFINE B == O \cup OpenOf(L)
<1>9. /\ O \cup OpenOf(A) = (B \cup {<<c, b1, {}>>}) \cup {<<kb, b3, {}>>}
      /\ B \cup {<<g.K, b3, {}>>} = B
  <2> DEFINE L1 == {<<c, b1>>}
             L2 == {<<kt, b2>>}
             L3 == {<<kb, b3>>}
             L4 == {<<g.K, b3>>}
  <2>1. OpenOf(L1) = {<<c, b1, {}>>} /\ OpenOf(L2) = {<<kt, b2, {}>>} /\ OpenOf(L3) = {<<kb, b3, {}>>}
        /\ OpenOf(L4) = {<<g.K, b3, {}>>}
    BY OpenParts
  <2>2. A = (L \cup L1) \cup L3 /\ L = L2 \cup L4
    OBVIOUS
  <2> HIDE DEF L, A, L1, L2, L3, L4, O
  <2>3. OpenOf(L2 \cup L4) = OpenOf(L2) \cup OpenOf(L4)
    BY OpenParts
  <2>4. OpenOf(L \cup L1) = OpenOf(L) \cup OpenOf(L1)
    BY OpenParts
  <2>5. OpenOf((L \cup L1) \cup L3) = OpenOf(L \cup L1) \cup OpenOf(L3)
    BY OpenParts
  <2>6. QED
    BY <2>1, <2>2, <2>3, <2>4, <2>5
<1>10. Triples(B)
  <2>1. Triples(OpenOf(L))
    BY DEF Triples, OpenOf
  <2>2. QED
    BY <1>7, <2>1, TriplesFacts
<1> HIDE DEF B, need, A
<1>11. PICK T : Simulates(p, n, T, (B \cup {<<c, b1, {}>>}) \cup {<<g.K, b3, {}>>}, need)
  <2> DEFINE Q == B \cup {<<c, b1, {}>>}
  <2>1. Triples(Q)
    BY <1>10, TriplesFacts
  <2> HIDE DEF Q
  <2>2. Simulates(p, n, S, Q \cup {<<kb, b3, {}>>}, need)
    BY <1>8, <1>9 DEF Q
  <2> DEFINE z == {}
  <2>3. Simulates(p, n, S, Q \cup {<<kb, b3, z>>}, need)
    BY <2>2
  <2> HIDE DEF z
  <2>4. \E T : Simulates(p, n, T, Q \cup {<<g.K, b3, z>>}, need)
    BY <1>3, <1>5, <2>1, <2>3, StepUnfold
  <2>5. QED
    BY <2>4 DEF Q, z
<1>12. (B \cup {<<c, b1, {}>>}) \cup {<<g.K, b3, {}>>} = B \cup {<<c, b1, {}>>}
  BY <1>9
<1>13. PICK U : Simulates(p, n, U, B \cup {<<k, b1, {}>>}, need)
  <2>1. Simulates(p, n, T, B \cup {<<c, b1, {}>>}, need)
    BY <1>11, <1>12
  <2> DEFINE z == {}
  <2>2. Simulates(p, n, T, B \cup {<<c, b1, z>>}, need)
    BY <2>1
  <2> HIDE DEF z
  <2>3. \E V : Simulates(p, n, V, B \cup {<<k, b1, z>>}, need)
    BY <1>4, <1>5, <1>10, <2>2, StepUnfold
  <2>4. QED
    BY <2>3 DEF z
<1> DEFINE h == [at |-> (g.at \cup L) \cup {<<k, b1>>}]
           H == f.held \cup {b1, b2, b3}
<1>14. OpenAt(h) = (OpenAt(g) \cup OpenOf(L)) \cup {<<k, b1, {}>>}
  <2> DEFINE L1 == {<<k, b1>>}
             M == g.at \cup L
  <2>1. OpenOf(L1) = {<<k, b1, {}>>}
    BY OpenParts
  <2>2. h.at = M \cup L1
    OBVIOUS
  <2>3. OpenAt(h) = OpenOf(h.at) /\ OpenAt(g) = OpenOf(g.at)
    BY OpenParts
  <2> HIDE DEF L1, h, L
  <2>4. OpenOf(M) = OpenOf(g.at) \cup OpenOf(L)
    BY OpenParts
  <2> HIDE DEF M
  <2>5. OpenOf(M \cup L1) = OpenOf(M) \cup OpenOf(L1)
    BY OpenParts
  <2>6. QED
    BY <2>1, <2>2, <2>3, <2>4, <2>5
<1>15. B \cup {<<k, b1, {}>>} = OpenAt(h) \cup {<<c, a, {}>>}
  BY <1>14 DEF B, O
<1>16. OnlyHeld(h, H)
  <2> SUFFICES ASSUME NEW q \in h.at PROVE q = <<q[1], q[2]>> /\ q[2] \in H
    BY DEF OnlyHeld
  <2>1. q \in g.at \/ q \in L \/ q = <<k, b1>>
    OBVIOUS
  <2>2. CASE q \in g.at
    BY <2>2 DEF OnlyHeld
  <2>3. CASE q \in L \/ q = <<k, b1>>
    BY <2>3
  <2>4. QED
    BY <2>1, <2>2, <2>3
<1>17. a \notin H
  BY <1>5
<1>18. <<c, b1>> \in need
  BY DEF need, A
<1> HIDE DEF h, H
<1>19. \E V : Simulates(p, w, V, OpenAt(h), need)
  <2>1. Simulates(p, n, U, OpenAt(h) \cup {<<c, a, {}>>}, need)
    BY <1>13, <1>15
  <2> DEFINE z == {}
  <2>2. Simulates(p, n, U, OpenAt(h) \cup {<<c, a, z>>}, need)
    BY <2>1
  <2> HIDE DEF z
  <2>3. QED
    BY <1>5, <1>16, <1>17, <1>18, <2>2, StepJump
<1>20. QED
  BY <1>1, <1>14, <1>19 DEF need

(* A loop creates its blocks, enters whileBB and visits its condition.     *)
LEMMA BeginWhileStmtSame ==
  ASSUME IInv, KInv, IInv', BeginWhileStmt
  PROVE  KInv'
<1> DEFINE l == Len(ir.code)
           n == NewBlocks(ir, 3)
           t == After("whileCond", node, <<l + 1, l + 2, l + 3>>)
<1>1. Visiting("while") /\ Continue(<<t, Visit(node.cond)>>) /\ UNCHANGED <<prog, scope, pre_enter_scope>>
      /\ ir' = (IF IsTerminated(n, insert) THEN n ELSE create_br(n, insert, l + 1)) /\ insert' = l + 1
  BY DEF BeginWhileStmt
<1>2. PICK f, g : VisitOn(f, g, "while")
  BY <1>1, KVisit
<1>3. /\ Shape(ir) /\ Sequence(g.K) /\ f.mode = "stmt" /\ OnlyHeld(g, f.held) /\ insert \in BBs(ir) /\ insert \notin f.held
      /\ ~ IsTerminated(ir, insert) /\ f.held \subseteq BBs(ir)
  BY <1>2 DEF VisitOn
<1>4. PICK R : Simulates(prog, ir, R, OpenAt(g) \cup {<<Visited(f, g), insert, {}>>}, g.need)
  BY <1>2 DEF VisitOn
<1>5. t.task = "whileCond" /\ t.node = node /\ t.bbs[1] = l + 1 /\ t.bbs[2] = l + 2 /\ t.bbs[3] = l + 3
  BY DEF After
<1>6. Added(ir, n, {t.bbs[1], t.bbs[2], t.bbs[3]})
  BY <1>3, <1>5, ThreeNewBlocks
<1>7. t = After(IF "while" = "if" THEN "ifCond" ELSE "whileCond", node, t.bbs)
  BY DEF After
<1>8. Visited(f, g) = Again(g, t)
  BY <1>3, <1>5 DEF Visited, Again
<1>9. node.k = "while"
  BY <1>1 DEF Visiting, node
<1> HIDE DEF n
<1>10. ir' = create_br(n, insert, t.bbs[1]) /\ insert' = t.bbs[1]
  <2>1. n.code[insert] = ir.code[insert]
    BY <1>3, <1>6 DEF Added
  <2>2. ~ IsTerminated(n, insert)
    BY <1>3, <2>1 DEF IsTerminated
  <2>3. QED
    BY <1>1, <1>5, <2>2
<1> DEFINE o == Left(f, g, t, NULL)
           c == Again(g, t)
           k == Put(c, Branch(t.node.cond, t.node.body, BrkStmt), g.env)
           k2 == Put(o.K, Branch(node.cond, o.yes, o.no), g.env)
<1> HIDE DEF t
<1>11. WaitsOver(f, g, t, o)
  BY <1>5, WaitsOverIs
<1> HIDE DEF o
<1>12. /\ o.K = c /\ o.yes = t.node.body /\ o.no = BrkStmt
       /\ OpenAt(o) = OpenAt(g) \cup OpenOf(LeftAt(g, t)) /\ o.need = g.need \cup LeftNeed(g, t)
  BY <1>5, <1>11 DEF WaitsOver, LeftK, LeftYes, LeftNo, LoopTasks
<1>13. k2 = k
  BY <1>5, <1>12
<1>14. t.node.k = "while"
  BY <1>5, <1>9
<1> HIDE DEF c, k, k2
<1>15. Simulates(prog, ir, R, OpenAt(g) \cup {<<c, insert, {}>>}, g.need)
  BY <1>4, <1>8 DEF c
<1> DEFINE w == ir'
           b == insert'
<1>16. \E S : Simulates(prog, w, S, (OpenAt(g) \cup OpenOf(LeftAt(g, t))) \cup {<<k, t.bbs[1], {}>>}, g.need \cup LeftNeed(g, t))
  <2>1. w = create_br(n, insert, t.bbs[1])
    BY <1>10
  <2> HIDE DEF w
  <2>2. QED
    BY <1>3, <1>5, <1>6, <1>14, <1>15, <2>1, LoopBlocks DEF k, c
<1>17. \E S : Simulates(prog, w, S, OpenAt(o) \cup {<<k2, b, {}>>}, o.need)
  <2>1. b = t.bbs[1]
    BY <1>10
  <2> HIDE DEF w, b
  <2>2. QED
    BY <1>12, <1>13, <1>16, <2>1
<1>18. QED
  BY <1>1, <1>2, <1>7, <1>17, CondBegins DEF k2, o

(* The end of the body goes back to the condition; behind the loop the     *)
(* builder goes on in nextBB.                                              *)
LEMMA EndWhileStmtSame ==
  ASSUME IInv, KInv, EndWhileStmt
  PROVE  KInv'
<1> DEFINE n == EndBranch(bbs[1])
           s == Front(agenda)
           b1 == bbs[1]
           b3 == bbs[3]
<1>1. /\ Doing("whileBody") /\ Return /\ scope' = ExitScope(node.body) /\ UNCHANGED <<prog, pre_enter_scope>>
      /\ ir' = n /\ insert' = b3
  BY DEF EndWhileStmt
<1>2. Top.task = "whileBody"
  BY <1>1 DEF Doing
<1>3. PICK f, g, o : TaskOn(f, g, o)
  BY <1>1, KTask DEF LoopTasks
<1> DEFINE p == Over(f, Top)
<1>4. /\ Good(f) /\ Good(p) /\ Joint(p, o) /\ KLeaves(s, f, g, scope) /\ Fits(f, Top)
      /\ At(ir, insert, cur_basic_block_list, While_Stack, Or_Cond_Stack, p)
      /\ \E R : Simulates(prog, ir, R, OpenAt(o) \cup Here(ir, insert, p.mode, tmp_val, o), o.need)
  BY <1>3 DEF TaskOn, Filled
<1>5. PICK x : IsLeft(f, g, Top, x, o)
  BY <1>3 DEF TaskOn
<1>6. Top.task \in LoopTasks /\ b1 = Top.bbs[1] /\ b3 = Top.bbs[3]
  BY <1>2 DEF LoopTasks, bbs
<1> HIDE DEF s, b1, b3, p, n
<1>7. LoopFrame(f, Top, p)
  BY <1>4, <1>6, LoopFields DEF p
<1>8. /\ NewThree(f, Top) /\ f.mode = "stmt" /\ p.mode = ModeOf(f, Top)
      /\ p.own = f.own \cup {b1, Top.bbs[2], b3} /\ p.held = f.held \cup ({b1, Top.bbs[2], b3} \ Entered(Top))
      /\ p.lead = f.lead \cup {<<b1, b3>>}
  BY <1>2, <1>6, <1>7 DEF LoopFrame
<1>9. p.mode = "stmt" /\ b3 \in p.held /\ b1 \in p.own
  BY <1>2, <1>6, <1>8 DEF ModeOf, CondTasks, Entered, NewThree
<1>10. /\ Shape(ir) /\ UnderWay(ir, insert, p.held) /\ Kept(ir, p) /\ insert \notin p.held /\ insert \in BBs(ir)
       /\ p.own \subseteq InList(ir) \ {entryBB} /\ p.own \subseteq BBs(ir)
  BY <1>4, AtFacts
<1>11. n = IF IsTerminated(ir, insert) THEN ir ELSE create_br(ir, insert, b1)
  BY DEF EndBranch, n, b1
<1>12. Closed(ir, n, insert, p.held, b1)
  <2> DEFINE e == <<b1, b3>>
  <2>0. e \in p.lead /\ e[1] = b1 /\ e[2] = b3
    BY <1>8
  <2> HIDE DEF e
  <2>1. LeadsFrom(ir, b1, b3)
    BY <1>10, <2>0 DEF Kept
  <2>2. b1 \in InList(ir) \ {entryBB}
    BY <1>9, <1>10
  <2>3. QED
    BY <1>9, <1>10, <1>11, <2>1, <2>2, EndBranchCloses
<1>13. ~ IsTerminated(n, b3)
  <2>1. Placed(n, insert, p.held)
    BY <1>12 DEF Closed, UnderWay
  <2>2. n.code[b3] = <<>>
    BY <1>9, <2>1 DEF Placed
  <2>3. QED
    BY <2>2 DEF IsTerminated
<1>14. o.K = Again(g, Top) /\ o.need = g.need \cup LeftNeed(g, Top) /\ o.at = g.at \cup LeftAt(g, Top)
  BY <1>5, <1>6 DEF IsLeft, LeftK, LoopTasks
<1>15. OpenAt(o) = OpenAt(g) \cup {<<g.K, b3, {}>>}
  <2>1. LeftAt(g, Top) = {<<g.K, b3>>}
    BY <1>2, <1>6 DEF LeftAt
  <2> DEFINE k == g.K
  <2>2. MoreAt(o, g, k, b3)
    BY <1>14, <2>1 DEF MoreAt
  <2> HIDE DEF k
  <2>3. OpenAt(o) = OpenAt(g) \cup {<<k, b3, {}>>}
    BY <2>2, OpenMore
  <2>4. QED
    BY <2>3 DEF k
<1>16. \E S : Simulates(prog, n, S, OpenAt(o), o.need)
  <2>1. PICK R : Simulates(prog, ir, R, OpenAt(o) \cup Here(ir, insert, p.mode, tmp_val, o), o.need)
    BY <1>4
  <2>2. OnlyHeld(o, p.held)
    BY <1>4 DEF Joint, OnlyHeld
  <2>3. <<o.K, b1>> \in o.need
    <3>1. <<Again(g, Top), b1>> \in LeftNeed(g, Top)
      BY <1>6 DEF LeftNeed, IfTasks, LoopTasks
    <3>2. QED
      BY <1>14, <3>1
  <2>4. b1 \in BBs(ir) /\ p.mode # "cond"
    BY <1>9, <1>10
  <2>5. QED
    BY <1>10, <1>11, <2>1, <2>2, <2>3, <2>4, StepEndBranch
<1> DEFINE h == Here(ir', insert', f.mode, tmp_val', g)
<1>17. OpenAt(g) \cup h = OpenAt(o)
  <2>1. ~ IsTerminated(ir', insert') /\ f.mode # "cond"
    BY <1>1, <1>8, <1>13 DEF b3, n
  <2>2. h = {<<g.K, insert', {}>>}
    BY <2>1, HereIs
  <2> HIDE DEF h
  <2>3. insert' = b3
    BY <1>1 DEF b3
  <2>4. QED
    BY <1>15, <2>2, <2>3
<1> HIDE DEF h
<1>18. \E T : Simulates(prog, ir', T, OpenAt(g) \cup h, g.need)
  <2>1. g.need \subseteq o.need
    BY <1>14
  <2>2. \E T : Simulates(prog, n, T, OpenAt(o), g.need)
    BY <1>16, <2>1, FewerNeeds
  <2>3. ir' = n
    BY <1>1 DEF n
  <2>4. QED
    BY <1>17, <2>2, <2>3
<1> DEFINE b == node.body
<1>19. o.depth = InBranch(g.depth, b)
  <2>1. o.depth = LeftDepth(g, Top)
    BY <1>5 DEF IsLeft
  <2>2. QED
    BY <1>2, <2>1 DEF LeftDepth, node
<1>20. scope' = ExitScope(b)
  BY <1>1
<1> HIDE DEF b
<1>21. QED
  BY <1>1, <1>3, <1>18, <1>19, <1>20, TaskEnds DEF h

-----------------------------------------------------------------------------
(***************************************************************************)
(* The function                                                            *)
(***************************************************************************)
(* What the end of a function leaves.                                      *)
EndLeft(o) ==
  /\ o.K = <<>> /\ o.env = GlobalEnv /\ o.depth = 2 /\ o.first = TRUE /\ o.chain = FALSE
  /\ o.at = {<<ToExit, ret_BB>>} /\ o.need = {<<ToExit, ret_BB>>}

(* The fields of what it leaves.                                           *)
LEMMA EndLeftIs ==
  ASSUME NEW t, t.task = "endFunc", NEW e, NEW o, o = Left(Outside, Nowhere, t, e)
  PROVE  EndLeft(o)
<1>1. IsLeft(Outside, Nowhere, t, e, o)
  BY LeftIs
<1>2. Nowhere.at = {} /\ Nowhere.need = {}
  BY DEF Nowhere
<1>3. LeftK(Outside, Nowhere, t, e) = <<>> /\ LeftDepth(Nowhere, t) = 2
  BY DEF LeftK, LeftDepth
<1>4. LeftAt(Nowhere, t) = {<<ToExit, ret_BB>>} /\ LeftNeed(Nowhere, t) = {<<ToExit, ret_BB>>}
  BY DEF LeftAt, LeftNeed
<1>5. o.K = <<>> /\ o.env = GlobalEnv /\ o.depth = 2
  BY <1>1, <1>3 DEF IsLeft
<1>6. o.first = TRUE /\ o.chain = FALSE
  BY <1>1 DEF IsLeft
<1> DEFINE A == {<<ToExit, ret_BB>>}
<1>7. o.at = Nowhere.at \cup LeftAt(Nowhere, t) /\ o.need = Nowhere.need \cup LeftNeed(Nowhere, t)
  BY <1>1 DEF IsLeft
<1>8. LeftAt(Nowhere, t) = A /\ LeftNeed(Nowhere, t) = A
  BY <1>4
<1> HIDE DEF A
<1>9. o.at = A /\ o.need = A
  BY <1>2, <1>7, <1>8
<1>10. QED
  BY <1>5, <1>6, <1>9 DEF EndLeft, A

(* Two blocks in a function without any: the source is begun in the one    *)
(* and ended in the other.                                                 *)
LEMMA FirstSimulates ==
  ASSUME NEW p, NEW m, Shape(m), Len(m.code) = 0, NEW w, w = NewBlocks(m, 2),
         NEW o, EndLeft(o)
  PROVE  \E S : Simulates(p, w, S, OpenAt(o) \cup {<<Start(p), entryBB, {}>>}, o.need)
<1>1. Added(m, w, {entryBB, ret_BB})
  <2>1. Added(m, NewBlocks(m, 2), Len(m.code) + 1 .. Len(m.code) + 2)
    BY NewBlocksFacts
  <2>2. Len(m.code) + 1 .. Len(m.code) + 2 = {entryBB, ret_BB}
    BY DEF entryBB, ret_BB
  <2>3. QED
    BY <2>1, <2>2
<1>2. entryBB \in BBs(w) /\ ret_BB \in BBs(w) /\ w.code[entryBB] = <<>> /\ w.code[ret_BB] = <<>>
  BY <1>1 DEF Added
<1>3. Len(w.code[entryBB]) + 1 = 1 /\ Len(w.code[ret_BB]) + 1 = 1
      /\ ~ IsTerminated(w, entryBB) /\ ~ IsTerminated(w, ret_BB)
  <2>1. Len(<<>>) = 0
    BY ShortSequences
  <2>2. QED
    BY <1>2, <2>1 DEF IsTerminated
<1> DEFINE z == {}
           P == OpenAt(o) \cup {<<Start(p), entryBB, z>>}
<1>4. OpenAt(o) = {<<ToExit, ret_BB, z>>}
  <2>1. o.at = {<<ToExit, ret_BB>>}
    BY DEF EndLeft
  <2>2. OpenAt(o) = OpenOf({<<ToExit, ret_BB>>})
    BY <2>1, OpenParts
  <2>3. QED
    BY <2>2, OpenParts
<1>5. Triples(P)
  <2>1. Triples(OpenAt(o)) /\ Triples({<<Start(p), entryBB, z>>})
    BY TriplesFacts
  <2>2. QED
    BY <2>1, TriplesFacts
<1>6. Sim(p.void, m, {}, {})
  BY DEF Sim
<1>7. PICK S : Grown(p.void, {}, w, S, P)
  <2>1. {} \subseteq P
    OBVIOUS
  <2> HIDE DEF P
  <2>2. QED
    BY <1>1, <1>5, <1>6, <2>1, SimAdded
<1> DEFINE st == Start(p)
           ex == ToExit
<1>8. <<st, entryBB, z>> \in P /\ <<ex, ret_BB, z>> \in P
  <2> HIDE DEF st, z, ex
  <2>1. <<st, entryBB, z>> \in P
    BY DEF st
  <2>2. <<ex, ret_BB, z>> \in OpenAt(o)
    BY <1>4 DEF ex
  <2>3. QED
    BY <2>1, <2>2
<1> HIDE DEF P, st, ex, z
<1>9. Sim(p.void, w, S, P)
  BY <1>7 DEF Grown
<1>10. <<st, entryBB, Len(w.code[entryBB]) + 1, z>> \in S /\ <<ex, ret_BB, Len(w.code[ret_BB]) + 1, z>> \in S
  BY <1>2, <1>3, <1>7, <1>8 DEF Grown
<1>11. <<st, entryBB, 1, z>> \in S /\ <<ex, ret_BB, 1, z>> \in S
  BY <1>3, <1>10
<1>12. Entry(S, st, entryBB) /\ Entry(S, ex, ret_BB)
  BY <1>11 DEF Entry, z
<1> DEFINE q == <<ex, ret_BB>>
<1>13. q[1] = ex /\ q[2] = ret_BB /\ o.need = {q}
  BY DEF EndLeft, ex
<1> HIDE DEF q
<1>14. \A e \in o.need : Entry(S, e[1], e[2])
  BY <1>12, <1>13
<1>15. Simulates(p, w, S, P, o.need)
  BY <1>9, <1>12, <1>14 DEF Simulates, st
<1>16. QED
  BY <1>15 DEF P, z

(* Nothing is in progress but the function before its blocks.              *)
LEMMA FuncBegins ==
  ASSUME IInv, Doing("func")
  PROVE  /\ agenda = <<After("func", prog, <<>>)>> /\ Front(agenda) = <<>> /\ Shape(ir) /\ Len(ir.code) = 0
         /\ ir = [code |-> <<>>, pre |-> <<>>, succ |-> <<>>, list |-> <<>>] /\ prog \in Programs
<1>1. agenda # <<>> /\ Last(agenda).task = "func"
  BY DEF Doing, Top
<1>2. Begun
  <2>1. CASE Going(agenda, ir, insert, cur_basic_block_list, While_Stack, Or_Cond_Stack)
    <3>1. PICK g : Before(agenda, ir, insert, cur_basic_block_list, While_Stack, Or_Cond_Stack, g)
      BY <2>1, GoingBefore
    <3>2. Kinds(g, Last(agenda))
      BY <3>1, FitsKinds DEF Before
    <3>3. QED
      BY <1>1, <3>2 DEF Kinds, IfTasks, LoopTasks
  <2>2. QED
    BY <1>1, <2>1 DEF IInv, Ended
<1>3. agenda = <<After("func", prog, <<>>)>>
      /\ ir = [code |-> <<>>, pre |-> <<>>, succ |-> <<>>, list |-> <<>>]
  BY <1>2 DEF Begun
<1>4. Front(agenda) = <<>>
  BY <1>3, ShortSequences, ReplaceOne
<1>5. Sound(ir)
  BY <1>3, EmptySound
<1>6. Shape(ir) /\ ir.code = <<>>
  BY <1>3, <1>5 DEF Sound
<1>7. Len(ir.code) = 0
  BY <1>6, ShortSequences
<1>8. QED
  BY <1>3, <1>4, <1>6, <1>7 DEF IInv

(* FuncDef enters its scope, creates entryBB and ret_BB and visits the     *)
(* body.                                                                   *)
LEMMA BeginFuncDefSame ==
  ASSUME IInv, KInv, IInv', BeginFuncDef
  PROVE  KInv'
<1> DEFINE t == After("endFunc", prog, <<>>)
           u == Visit(prog.body)
           w == NewBlocks(ir, 2)
           i == [op |-> "alloca", id |-> NULL]
           s == <<>>
           sc == scope'
<1>1. /\ Doing("func") /\ ir' = (IF prog.void THEN w ELSE Emit(w, entryBB, i)) /\ insert' = entryBB
      /\ pre_enter_scope' = TRUE /\ scope' = Append(scope, {})
      /\ agenda' = Front(agenda) \o <<t, u>> /\ prog' = prog
  BY DEF BeginFuncDef, Continue
<1>2. /\ Front(agenda) = s /\ Shape(ir) /\ Len(ir.code) = 0 /\ prog \in Programs
      /\ ir = [code |-> <<>>, pre |-> <<>>, succ |-> <<>>, list |-> <<>>]
  BY <1>1, FuncBegins
<1>3. scope = GlobalScope
  <2>1. agenda # <<>> /\ Last(agenda).task = "func"
    BY <1>1 DEF Doing, Top
  <2>2. CASE KGoing
    <3>1. PICK f, o : Tracks(agenda, f, o, scope, pre_enter_scope)
      BY <2>2 DEF KGoing
    <3>2. Leaves(agenda, f)
      BY <3>1, KLeavesFacts DEF Tracks
    <3>3. PICK g : Fits(g, Last(agenda))
      BY <2>1, <3>2, LeavesFewer
    <3>4. Kinds(g, Last(agenda))
      BY <3>3, FitsKinds
    <3>5. QED
      BY <2>1, <3>4 DEF Kinds, IfTasks, LoopTasks
  <2>3. QED
    BY <2>1, <2>2 DEF KInv, KBegun, KEnded
<1>4. i.op = "alloca" /\ t.task = "endFunc" /\ u.task = "visit" /\ u.node = prog.body
  BY DEF After, Visit
<1>5. prog.void \in BOOLEAN /\ prog.body.k = "block"
  BY <1>2, FunctionAssumption
<1>6. Sequence(s)
  BY ShortSequences
<1> HIDE DEF t, u, w, i, s
<1>7. agenda' = Append(Append(s, t), u)
  BY <1>1, <1>2, <1>6, ConcatTwo
<1> DEFINE f == Over(Outside, t)
           o == Left(Outside, Nowhere, t, NULL)
           k == Start(prog)
           P == {<<k, entryBB, {}>>}
           r == Append(s, t)
<1>8. KLeaves(r, f, o, sc)
  BY <1>4, PushEnd DEF s
<1>9. EndLeft(o)
  BY <1>4, EndLeftIs
<1>10. Fits(Outside, t) /\ Good(f) /\ Fits(f, u)
  <2>1. Leaves(s, Outside)
    BY LeavesNothing DEF s
  <2>2. u.task # "func"
    BY <1>4
  <2>3. QED
    BY <1>7, <2>1, <2>2, NextTwo
<1>11. f.mode = "stmt"
  <2>1. Fields(Outside, t, f)
    BY OverFields
  <2> HIDE DEF f
  <2>2. QED
    BY <1>4, <2>1 DEF Fields, ModeOf, CondTasks
<1> HIDE DEF f, o, r, sc
<1>12. Len(sc) = 2 /\ ScopesOK(sc)
  BY <1>1, <1>3, FirstScope DEF sc
<1>13. Suits(o, u, sc)
  BY <1>4, <1>5, <1>9 DEF Suits, EndLeft
<1>14. /\ UnderWay(w, entryBB, {ret_BB}) /\ ~ IsTerminated(w, entryBB) /\ BBs(w) = {entryBB, ret_BB}
  BY <1>2, FirstBlocks DEF w
<1>15. Shape(w) /\ entryBB \in BBs(w) /\ entryBB \notin {ret_BB}
  BY <1>14 DEF UnderWay, entryBB, ret_BB
<1>16. PICK S : Simulates(prog, w, S, OpenAt(o) \cup P, o.need)
  <2> HIDE DEF k
  <2>1. \E S : Simulates(prog, w, S, OpenAt(o) \cup {<<Start(prog), entryBB, {}>>}, o.need)
    BY <1>2, <1>9, FirstSimulates DEF w
  <2>2. QED
    BY <2>1 DEF k
<1>17. ~ IsTerminated(ir', insert') /\ \E R : Simulates(prog, ir', R, OpenAt(o) \cup P, o.need)
  <2>1. CASE prog.void
    BY <1>1, <1>14, <1>16, <2>1
  <2>2. CASE ~ prog.void
    <3> DEFINE n == Emit(w, entryBB, i)
    <3>1. Appended(w, n, entryBB, i)
      BY <1>15, EmitAppends
    <3> HIDE DEF n
    <3>2. OnlyHeld(o, {ret_BB})
      BY <1>9 DEF OnlyHeld, EndLeft
    <3>3. Does(prog.void, S, OpenAt(o) \cup P, k, entryBB, i, {})
      <4>1. <<k, entryBB, {}>> \in P
        OBVIOUS
      <4> HIDE DEF P, k
      <4>2. QED
        BY <1>4, <4>1 DEF Does
    <3>4. Triples(P)
      BY TriplesFacts
    <3>5. Simulates(prog, w, S, OpenAt(o) \cup {<<k, entryBB, {}>>}, o.need)
      BY <1>16
    <3> HIDE DEF P, k
    <3>6. \E R : Simulates(prog, n, R, OpenAt(o) \cup P, o.need)
      BY <1>15, <3>1, <3>2, <3>3, <3>4, <3>5, StepOne
    <3>7. ~ IsTerminated(n, entryBB)
      BY <1>4, <3>1 DEF Appended, Terminators
    <3>8. QED
      BY <1>1, <2>2, <3>6, <3>7 DEF n
  <2>3. QED
    BY <2>1, <2>2
<1>18. k = Put(o.K, IF f.mode = "cond" THEN Branch(u.node, o.yes, o.no) ELSE u.node, o.env)
  <2>1. o.K = <<>> /\ o.env = GlobalEnv
    BY <1>9 DEF EndLeft
  <2>2. k = Put(o.K, u.node, o.env)
    <3>1. Append(<<>>, Item(prog.body, GlobalEnv)) = <<Item(prog.body, GlobalEnv)>>
      BY ShortSequences
    <3>2. QED
      BY <1>4, <2>1, <3>1 DEF Put, Start
  <2>3. QED
    BY <1>11, <2>2
<1>19. /\ pre_enter_scope' = (f.mode = "stmt" /\ o.first) /\ (pre_enter_scope' => scope' = Append(GlobalScope, {}))
  BY <1>1, <1>3, <1>9, <1>11 DEF EndLeft
<1>20. Len(scope') = o.depth /\ ScopesOK(scope')
  BY <1>9, <1>12 DEF EndLeft, sc
<1>21. KLeaves(r, f, o, scope') /\ Suits(o, u, scope') /\ agenda' = Append(r, u) /\ prog' = prog
  BY <1>1, <1>7, <1>8, <1>13 DEF sc, r
<1>22. \E R : Simulates(prog, ir', R, OpenAt(o) \cup {<<k, insert', {}>>}, o.need)
  BY <1>1, <1>17
<1> HIDE DEF k, P
<1>23. QED
  BY <1>4, <1>10, <1>17, <1>18, <1>19, <1>20, <1>21, <1>22, VisitBegins

(* Falling off the end of a function: the builder returns 0, if there is   *)
(* something to return, and jumps to ret_BB.                               *)
Zeroed(p, m, a, n) == n = IF ~ p.void THEN Emit(m, a, [op |-> "act", id |-> 0, decl |-> NULL]) ELSE m

AtTheEnd(o, a, Q) == Q = OpenAt(o) \cup {<<<<>>, a, {}>>}

(* The source does the same.                                               *)
LEMMA StepFallOff ==
  ASSUME NEW p, p.void \in BOOLEAN, NEW m, Shape(m), NEW R, NEW o, EndLeft(o),
         NEW a \in BBs(m), a # ret_BB, ret_BB \in BBs(m),
         NEW Q, AtTheEnd(o, a, Q), Simulates(p, m, R, Q, o.need), NEW zero, Zeroed(p, m, a, zero),
         NEW n, n = create_br(zero, a, ret_BB)
  PROVE  \E S : Simulates(p, n, S, OpenAt(o), o.need)
<1> DEFINE i == [op |-> "act", id |-> 0, decl |-> NULL]
           c == <<>>
           z == {}
           k == ToExit
           P == {<<k, a, z>>}
<1>1. OnlyHeld(o, {ret_BB}) /\ a \notin {ret_BB}
  BY DEF OnlyHeld, EndLeft
<1>2. <<k, ret_BB>> \in o.need
  BY DEF EndLeft
<1>3. Triples(OpenAt(o)) /\ Triples(P)
  <2> HIDE DEF k, z
  <2>1. QED
    BY TriplesFacts
<1>4. <<k, a, z>> \in P
  <2> HIDE DEF k, z
  <2>1. QED
    OBVIOUS
<1>5. /\ Shows(p.void, c) <=> ~ p.void
      /\ Shown(c) = i
      /\ \A u, w : Happens(c, u, w) => u = k /\ w = z
      /\ p.void => Unfolds(p.void, c, k)
  <2>1. Shows(p.void, c) <=> ~ p.void
    BY DEF Shows
  <2>2. Shown(c) = i
    BY DEF Shown
  <2>3. \A u, w : Happens(c, u, w) => u = k /\ w = z
    <3> HIDE DEF k
    <3>1. QED
      BY DEF Happens, k
  <2>4. p.void => Unfolds(p.void, c, k)
    <3> HIDE DEF k
    <3>1. QED
      BY <2>1 DEF Unfolds, k
  <2>5. QED
    BY <2>1, <2>2, <2>3, <2>4
<1>6. i.op = "act"
  OBVIOUS
<1>7. zero = IF ~ p.void THEN Emit(m, a, i) ELSE m
  BY DEF Zeroed
<1>8. Q = OpenAt(o) \cup {<<c, a, z>>}
  BY DEF AtTheEnd
<1> HIDE DEF i, c, z, k, P
<1>9. Shape(zero) /\ BBs(zero) = BBs(m) /\ \E S : Simulates(p, zero, S, OpenAt(o) \cup P, o.need)
  <2>1. CASE p.void
    <3>1. zero = m
      BY <1>7, <2>1
    <3>2. \E S : Simulates(p, m, S, OpenAt(o) \cup {<<k, a, z>>}, o.need)
      BY <1>3, <1>5, <1>8, <2>1, StepUnfold
    <3>3. QED
      BY <3>1, <3>2 DEF P
  <2>2. CASE ~ p.void
    <3>1. zero = Emit(m, a, i)
      BY <1>7, <2>2
    <3>2. Appended(m, zero, a, i) /\ Shape(zero) /\ BBs(zero) = BBs(m)
      <4>1. Appended(m, zero, a, i)
        BY <3>1, EmitAppends
      <4>2. Emitted(m, zero, a, i)
        BY <3>1, EmitFacts
      <4>3. QED
        BY <4>1, <4>2 DEF Emitted
    <3>3. Does(p.void, R, OpenAt(o) \cup P, c, a, i, z)
      <4>1. i.op \notin Terminators
        BY <1>6 DEF Terminators
      <4>2. QED
        BY <1>4, <1>5, <2>2, <4>1 DEF Does
    <3>4. \E S : Simulates(p, zero, S, OpenAt(o) \cup P, o.need)
      BY <1>1, <1>3, <1>8, <3>2, <3>3, StepOne
    <3>5. QED
      BY <3>2, <3>4
  <2>3. QED
    BY <2>1, <2>2
<1>10. PICK S : Simulates(p, zero, S, OpenAt(o) \cup {<<k, a, z>>}, o.need)
  BY <1>9 DEF P
<1>11. Shape(zero) /\ a \in BBs(zero) /\ ret_BB \in BBs(zero)
  BY <1>9
<1>12. QED
  BY <1>1, <1>2, <1>10, <1>11, StepJump

(* The return at the end of ret_BB.                                        *)
LEMMA StepReturn ==
  ASSUME NEW p, NEW m, Shape(m), NEW R, NEW o, EndLeft(o), ret_BB \in BBs(m),
         Simulates(p, m, R, OpenAt(o), o.need), NEW n, n = Emit(m, ret_BB, [op |-> "ret"])
  PROVE  \E S : Simulates(p, n, S, {}, {})
<1> DEFINE i == [op |-> "ret"]
           k == ToExit
           s == Exit
           z == {}
           q == <<k, ret_BB>>
<1>1. Appended(m, n, ret_BB, i)
  BY EmitAppends
<1>2. k # <<>> /\ Last(k).stmt = s /\ s.k = "exit"
  <2>1. Last(k) = Item(s, GlobalEnv) /\ k # <<>>
    <3> DEFINE j == Item(s, GlobalEnv)
    <3>1. k = <<j>>
      BY DEF ToExit
    <3> HIDE DEF j, k
    <3>2. QED
      BY <3>1, LastOfOne DEF j
  <2>2. Last(k).stmt = s
    BY <2>1 DEF Item
  <2>3. s.k = "exit"
    BY DEF Exit
  <2>4. QED
    BY <2>1, <2>2, <2>3
<1> HIDE DEF k, s
<1>3. Shows(p.void, k) /\ Shown(k) = i
  BY <1>2 DEF Shows, Shown
<1>4. \A u, w : ~ Happens(k, u, w)
  BY <1>2 DEF Happens, ThenLeaves
<1> HIDE DEF i
<1>5. \A T : Does(p.void, R, T, k, ret_BB, i, z)
  BY <1>3, <1>4 DEF Does
<1>6. o.at = {q}
  BY DEF EndLeft, k
<1>7. q[1] = k /\ q[2] = ret_BB
  OBVIOUS
<1> HIDE DEF q, z
<1>8. ASSUME NEW c, NEW b, NEW w, <<c, b, w>> \in OpenAt(o) PROVE c = k /\ b = ret_BB /\ w = z
  <2>1. OnlyHeld(o, {ret_BB})
    BY DEF OnlyHeld, EndLeft
  <2>2. w = z /\ <<c, b>> \in o.at
    BY <1>8, <2>1, OpenHeld DEF z
  <2>3. <<c, b>> = <<k, ret_BB>>
    BY <1>6, <2>2 DEF q
  <2>4. QED
    BY <2>2, <2>3
<1> DEFINE P == {}
<1>9. Triples(P)
  BY TriplesFacts
<1> HIDE DEF P
<1>10. Sim(p.void, m, R, OpenAt(o))
  BY DEF Simulates
<1>11. \A c, b, w : <<c, b, w>> \in OpenAt(o) => IF b = ret_BB THEN Does(p.void, R, P, c, ret_BB, i, w) ELSE <<c, b, w>> \in P
  BY <1>5, <1>8
<1>12. \E S : Grown(p.void, R, n, S, P)
  BY <1>1, <1>9, <1>10, <1>11, SimAppend
<1>13. PICK S : Simulates(p, n, S, P, o.need)
  BY <1>12, GrownSimulates
<1>14. Simulates(p, n, S, P, {})
  BY <1>13, FewerNeeds
<1>15. QED
  BY <1>14 DEF P

(* FuncDef after the body.                                                 *)
LEMMA EndFuncDefSame ==
  ASSUME IInv, KInv, EndFuncDef
  PROVE  KInv'
<1> DEFINE open == ~ IsTerminated(ir, insert)
           i == [op |-> "act", id |-> 0, decl |-> NULL]
           zero == IF open /\ ~ prog.void THEN Emit(ir, insert, i) ELSE ir
           jump == IF open THEN create_br(zero, insert, ret_BB) ELSE zero
           r == [op |-> "ret"]
           t == Top
<1>1. /\ Doing("endFunc") /\ ir' = Emit(jump, ret_BB, r) /\ agenda' = Front(agenda) /\ prog' = prog
  BY DEF EndFuncDef, Return
<1>2. agenda # <<>> /\ t.task = "endFunc"
  BY <1>1 DEF Doing
<1> HIDE DEF t
<1>3. PICK f, g, o : KOn(f, g, o)
  BY <1>2, KOpening DEF t
<1>4. On(f) /\ KLeaves(Front(agenda), f, g, scope) /\ Adds(f, g, t, Over(f, t), o, scope)
      /\ Filled(prog, ir, insert, tmp_val, Over(f, t), o)
  BY <1>3 DEF KOn, t
<1>5. /\ prog \in Programs /\ Fits(f, t) /\ Good(Over(f, t))
      /\ At(ir, insert, cur_basic_block_list, While_Stack, Or_Cond_Stack, Over(f, t))
  BY <1>4 DEF On, t
<1>6. f = Outside
  BY <1>2, <1>5 DEF Fits, IfTasks, LoopTasks
<1>7. Front(agenda) = <<>>
  BY <1>4, <1>6, KLeavesFacts, NoneBelow
<1>8. g = Nowhere
  <2>1. PICK fr, kr : KStack(Front(agenda), fr, kr, scope) /\ g = kr[Len(Front(agenda))]
    BY <1>4 DEF KLeaves
  <2>2. Len(Front(agenda)) = 0
    BY <1>7, ShortSequences
  <2>3. QED
    BY <2>1, <2>2 DEF KStack
<1>9. EndLeft(o)
  <2>1. PICK e : o = Left(f, g, t, e)
    BY <1>4 DEF Adds
  <2>2. o = Left(Outside, Nowhere, t, e)
    BY <1>6, <1>8, <2>1
  <2>3. QED
    BY <1>2, <2>2, EndLeftIs
<1> DEFINE p == Over(Outside, t)
<1>10. p.mode # "cond" /\ p.held = {ret_BB} /\ p.own = {ret_BB}
  <2>1. Outside.own = {} /\ Outside.held = {}
    BY DEF Outside
  <2>2. Own(t) = {ret_BB} /\ Entered(t) = {} /\ ModeOf(Outside, t) = "stmt"
    BY <1>2 DEF Own, Entered, ModeOf, CondTasks
  <2>3. Fields(Outside, t, p)
    BY OverFields
  <2> HIDE DEF p
  <2>4. QED
    BY <2>1, <2>2, <2>3 DEF Fields
<1>11. /\ Good(p) /\ At(ir, insert, cur_basic_block_list, While_Stack, Or_Cond_Stack, p)
       /\ Filled(prog, ir, insert, tmp_val, p, o)
  BY <1>4, <1>5, <1>6
<1> HIDE DEF p
<1>12. /\ Shape(ir) /\ insert \in BBs(ir) /\ insert # ret_BB /\ ret_BB \in BBs(ir)
       /\ UnderWay(ir, insert, {ret_BB})
  BY <1>10, <1>11, AtFacts
<1>13. PICK R : Simulates(prog, ir, R, OpenAt(o) \cup Here(ir, insert, p.mode, tmp_val, o), o.need)
  BY <1>11 DEF Filled
<1>14. prog.void \in BOOLEAN
  BY <1>5, FunctionAssumption
<1>15. Shape(jump) /\ ret_BB \in BBs(jump) /\ \E S : Simulates(prog, jump, S, OpenAt(o), o.need)
  <2>1. CASE open
    <3> DEFINE z == IF ~ prog.void THEN Emit(ir, insert, i) ELSE ir
               n == create_br(z, insert, ret_BB)
               h == Here(ir, insert, p.mode, tmp_val, o)
               c == <<>>
               y == {}
    <3>1. zero = z /\ jump = n
      BY <2>1
    <3>2. h = {<<c, insert, y>>}
      <4>1. h = {<<o.K, insert, {}>>}
        BY <1>10, <2>1, HereIs
      <4>2. o.K = <<>>
        BY <1>9 DEF EndLeft
      <4>3. QED
        BY <4>1, <4>2
    <3>3. Simulates(prog, ir, R, OpenAt(o) \cup {<<c, insert, y>>}, o.need)
      <4>1. Simulates(prog, ir, R, OpenAt(o) \cup h, o.need)
        BY <1>13
      <4> HIDE DEF h
      <4>2. QED
        BY <3>2, <4>1
    <3>4. Zeroed(prog, ir, insert, z)
      BY DEF Zeroed
    <3>5. Shape(z) /\ BBs(z) = BBs(ir)
      <4>1. Emitted(ir, Emit(ir, insert, i), insert, i)
        BY <1>12, EmitFacts
      <4>2. Shape(Emit(ir, insert, i)) /\ BBs(Emit(ir, insert, i)) = BBs(ir)
        BY <4>1 DEF Emitted
      <4>3. QED
        BY <1>12, <4>2
    <3> HIDE DEF z, h
    <3>6. n = create_br(z, insert, ret_BB)
      OBVIOUS
    <3>7. Shape(n) /\ BBs(n) = BBs(z)
      <4> DEFINE j == [op |-> "br", to |-> ret_BB]
                 e == Emit(z, insert, j)
      <4>1. Emitted(z, e, insert, j) /\ Linked(e, n, insert, {ret_BB})
        BY <1>12, <3>5, BrLinked
      <4> HIDE DEF e, n
      <4>2. BBs(e) = BBs(z) /\ Shape(n) /\ n.code = e.code
        BY <4>1 DEF Emitted, Linked
      <4>3. QED
        BY <4>2 DEF BBs
    <3> DEFINE Q == OpenAt(o) \cup {<<c, insert, y>>}
    <3>8. AtTheEnd(o, insert, Q)
      BY DEF AtTheEnd
    <3> HIDE DEF n, c, y, Q
    <3>9. \E S : Simulates(prog, n, S, OpenAt(o), o.need)
      <4>1. Simulates(prog, ir, R, Q, o.need)
        BY <3>3 DEF Q
      <4>2. QED
        BY <1>9, <1>12, <1>14, <4>1, <3>4, <3>6, <3>8, StepFallOff
    <3> HIDE DEF jump
    <3>10. QED
      BY <1>12, <3>1, <3>5, <3>7, <3>9
  <2>2. CASE ~ open
    <3>1. jump = ir
      BY <2>2
    <3> DEFINE h == Here(ir, insert, p.mode, tmp_val, o)
    <3>2. h = {}
      BY <2>2, HereIs
    <3>3. Simulates(prog, ir, R, OpenAt(o) \cup h, o.need)
      BY <1>13
    <3> HIDE DEF h, jump
    <3>4. Simulates(prog, ir, R, OpenAt(o), o.need)
      BY <3>2, <3>3
    <3>5. QED
      BY <1>12, <3>1, <3>4
  <2>3. QED
    BY <2>1, <2>2
<1> HIDE DEF jump
<1>16. \E S : Simulates(prog, ir', S, {}, {})
  BY <1>1, <1>9, <1>15, StepReturn
<1>17. QED
  BY <1>1, <1>7, <1>16 DEF KInv, KEnded

-----------------------------------------------------------------------------
(* When FuncDef is visited the invariant holds.                            *)
LEMMA KStarts == Init => KInv
BY DEF Init, KInv, KBegun, Begun

(* It is about the variables of the builder only.                          *)
LEMMA KStutter ==
  ASSUME KInv, UNCHANGED irVars
  PROVE  KInv'
<1>1. /\ prog' = prog /\ agenda' = agenda /\ ir' = ir /\ insert' = insert
      /\ cur_basic_block_list' = cur_basic_block_list /\ While_Stack' = While_Stack
      /\ Or_Cond_Stack' = Or_Cond_Stack /\ pre_enter_scope' = pre_enter_scope /\ tmp_val' = tmp_val /\ scope' = scope
  BY DEF irVars, buildVars
<1>2. QED
  BY <1>1 DEF KInv, KBegun, KGoing, KEnded, Begun

(* Every step of the builder keeps it.                                     *)
LEMMA KKeeps ==
  ASSUME IInv, KInv, [BuildNext]_irVars
  PROVE  KInv'
<1>1. CASE UNCHANGED irVars
  BY <1>1, KStutter
<1>2. CASE BuildNext
  <2>1. IInv'
    BY StepKeeps
  <2>2. QED
    BY <1>2, <2>1, BeginFuncDefSame, EndFuncDefSame, BeginBlockStmtSame, NextStmtSame, EndBlockStmtSame,
       VarDefSame, VisitActSame, EmptyStmtSame, ReturnStmtSame, BreakStmtSame, ContinueStmtSame,
       VisitAtomSame, BeginLAndSame, EndLAndSame, BeginLOrSame, EndLOrSame,
       BeginIfStmtSame, IfConditionSame, EndThenOnlySame, BeginElseSame, EndElseSame,
       BeginWhileStmtSame, WhileConditionSame, EndWhileStmtSame
    DEF BuildNext
<1>3. QED
  BY <1>1, <1>2

-----------------------------------------------------------------------------
(***************************************************************************)
(* The run                                                                 *)
(***************************************************************************)
(* K is among what k unfolds to, step by step. *)
UnfoldClosed(v, T) == \A a, u : a \in T /\ Unfolds(v, a, u) => u \in T
Reaches(v, k, c) == \A T : k \in T /\ UnfoldClosed(v, T) => c \in T

(* It is k after no step, and one more step after those to it.             *)
LEMMA ReachesOn ==
  /\ \A v, k : Reaches(v, k, k)
  /\ \A v, k, c, u : Reaches(v, k, c) /\ Unfolds(v, c, u) => Reaches(v, k, u)
BY DEF Reaches, UnfoldClosed

(* What shows an event unfolds to nothing else.                            *)
LEMMA ReachesShown ==
  ASSUME NEW v, NEW k, NEW c, Reaches(v, k, c), Shows(v, k)
  PROVE  c = k
<1>1. UnfoldClosed(v, {k})
  BY DEF UnfoldClosed, Unfolds
<1>2. QED
  BY <1>1 DEF Reaches

(* What is reached is reached from the next step on.                       *)
LEMMA ReachesNext ==
  ASSUME NEW v, NEW k, NEW c, Reaches(v, k, c), NEW u, Unfolds(v, k, u), k # c
  PROVE  Reaches(v, u, c)
<1> SUFFICES ASSUME NEW T, u \in T, UnfoldClosed(v, T) PROVE c \in T
  BY DEF Reaches
<1>1. UnfoldClosed(v, T \cup {k})
  BY UnfoldsOnce DEF UnfoldClosed
<1>2. QED
  BY <1>1 DEF Reaches

(* Where the blocks do what the source does, the source unfolds to what    *)
(* the next instruction does before it shows an event.                     *)
LEMMA Ahead ==
  ASSUME NEW v, NEW m, NEW R, Sim(v, m, R, {}), NEW k, NEW b, b \in InList(m), NEW i, NEW w, <<k, b, i, w>> \in R,
         NEW c, Reaches(v, k, c), Shows(v, c)
  PROVE  \E a : Reaches(v, a, c) /\ Runs(v, m, R, a, b, i, w)
<1> SUFFICES ASSUME \A a : ~ (Reaches(v, a, c) /\ Runs(v, m, R, a, b, i, w)) PROVE FALSE
  OBVIOUS
<1> DEFINE T == {q[1] : q \in {r \in R : r = <<r[1], b, i, w>> /\ Reaches(v, r[1], c)}}
<1>1. ASSUME NEW a, <<a, b, i, w>> \in R, Reaches(v, a, c) PROVE a \in T
  <2> DEFINE q == <<a, b, i, w>>
  <2>1. q[1] = a /\ q = <<q[1], b, i, w>>
    OBVIOUS
  <2>2. q \in R /\ Reaches(v, q[1], c)
    BY <1>1, <2>1
  <2> HIDE DEF q
  <2>3. QED
    BY <2>1, <2>2
<1>2. ASSUME NEW a \in T PROVE <<a, b, i, w>> \in R /\ Reaches(v, a, c)
  OBVIOUS
<1> HIDE DEF T
<1>3. ASSUME NEW a \in T PROVE \E u \in T : Unfolds(v, a, u)
  <2>1. <<a, b, i, w>> \in R /\ Reaches(v, a, c)
    BY <1>2, <1>3
  <2>2. ~ Runs(v, m, R, a, b, i, w)
    BY <2>1
  <2>3. Answered(v, m, R, a, b, i, w)
    BY <2>1 DEF Sim
  <2>4. PICK u : Unfolds(v, a, u) /\ <<u, b, i, w>> \in R
    BY <2>2, <2>3 DEF Answered
  <2>5. a # c
    BY <2>4 DEF Unfolds
  <2>6. Reaches(v, u, c)
    BY <2>1, <2>4, <2>5, ReachesNext
  <2>7. QED
    BY <1>1, <2>4, <2>6
<1>4. UnfoldClosed(v, T)
  BY <1>3, UnfoldsOnce DEF UnfoldClosed
<1>5. k \in T
  BY <1>1
<1>6. c \in T
  BY <1>4, <1>5 DEF Reaches
<1>7. PICK u : Unfolds(v, c, u)
  BY <1>3, <1>6
<1>8. QED
  BY <1>7 DEF Unfolds

(* An event is an act, an evaluation or the return.                        *)
LEMMA ShownEvents ==
  ASSUME NEW v, NEW k, Shows(v, k)
  PROVE  Shown(k).op \in {"act", "eval", "ret"}
<1>1. CASE k = <<>>
  BY <1>1 DEF Shown
<1>2. CASE k # <<>>
  <2>1. Last(k).stmt.k \in {"act", "decl", "exit", "ret", "branch"}
    BY <1>2 DEF Shows
  <2>2. QED
    BY <1>2, <2>1 DEF Shown
<1>3. QED
  BY <1>1, <1>2

-----------------------------------------------------------------------------
(* The source and the blocks are at the same place: the blocks do from     *)
(* where they are what some k does, which unfolds to what the source is    *)
(* at; what is known of the conditions is what they had.                   *)
Pairing(w, val) == \A q \in w : q = <<q[1], q[2]>> /\ q[1] \in DOMAIN val /\ val[q[1]] = q[2]
Together(p, m, c, at, val, R, k, w) ==
  /\ Sim(p.void, m, R, {}) /\ at.bb \in InList(m)
  /\ <<k, at.bb, at.ip, w>> \in R /\ Reaches(p.void, k, c) /\ Pairing(w, val)
RunInv ==
  Running => Built /\ \E R, k, w : Together(prog, ir, K, cpu, value, R, k, w)

(* It is named as the source is.                                           *)
LEMMA RunNames ==
  /\ SourceVisible <=> Shows(prog.void, K)
  /\ SourceEvent = Shown(K)
<1>1. SourceVisible <=> Shows(prog.void, K)
  BY DEF SourceVisible, Shows, Next1
<1>2. SourceEvent = Shown(K)
  BY DEF SourceEvent, Shown, Next1, Env
<1>3. QED
  BY <1>1, <1>2

(* The source unfolds.                                                     *)
LEMMA SourceUnfolds ==
  ASSUME SourceStep
  PROVE  Unfolds(prog.void, K, K')
<1>1. ~ Shows(prog.void, K)
  BY RunNames DEF SourceStep
<1>2. CASE K = <<>>
  BY <1>1, <1>2 DEF SourceStep, Unfolds, ToExit
<1>3. CASE K # <<>>
  <2>1. \A l : Then(l) => K' = Instead(K, l)
    BY DEF Then, Instead, Env
  <2>2. BrokenOff(K) = SubSeq(K, 1, Loop - 1) /\ Continued(K) = SubSeq(K, 1, Loop)
    <3>1. Loop = LoopIn(K)
      BY DEF Loop, LoopIn
    <3>2. QED
      BY <3>1 DEF BrokenOff, Continued
  <2>3. UnfoldsTo(Last(K).stmt, K, K')
    BY <1>3, <2>1, <2>2 DEF SourceStep, UnfoldsTo, Next1, ToExit
  <2>4. QED
    BY <1>1, <1>3, <2>3 DEF Unfolds
<1>4. QED
  BY <1>2, <1>3

(* An event happens in both.                                               *)
LEMMA EventHappens ==
  ASSUME Event
  PROVE  \E w : Happens(K, K', w) /\ Pairing(w, value')
<1>1. CASE K = <<>>
  <2>1. K' = ToExit
    BY <1>1 DEF Event, ToExit
  <2>2. Happens(K, K', {}) /\ Pairing({}, value')
    BY <1>1, <2>1 DEF Happens, Pairing
  <2>3. QED
    BY <2>2
<1>2. CASE K # <<>>
  <2> DEFINE s == Last(K).stmt
  <2>1. CASE s.k = "branch"
    <3>1. s.k = "branch"
      BY <2>1
    <3>2. PICK x \in BOOLEAN :
            /\ value' = [a \in DOMAIN value \cup {s.cond.id} |-> IF a = s.cond.id THEN x ELSE value[a]]
            /\ Then(<<IF x THEN s.yes ELSE s.no>>)
      BY <1>2, <3>1 DEF Event, Next1
    <3> DEFINE w == {<<s.cond.id, x>>}
               c == s.cond.id
    <3>3. c \in DOMAIN value' /\ value'[c] = x
      BY <3>2
    <3>4. Pairing(w, value')
      <4> DEFINE q == <<c, x>>
      <4>1. q = <<q[1], q[2]>> /\ q[1] \in DOMAIN value' /\ value'[q[1]] = q[2]
        BY <3>3
      <4>2. w = {q}
        OBVIOUS
      <4> HIDE DEF q, w
      <4>3. QED
        BY <4>1, <4>2 DEF Pairing
    <3>5. K' = Instead(K, <<IF x THEN s.yes ELSE s.no>>)
      BY <3>2 DEF Then, Instead, Env
    <3>6. ThenLeaves(s, K, K', w)
      BY <3>1, <3>5 DEF ThenLeaves
    <3>7. QED
      BY <1>2, <3>4, <3>6 DEF Happens
  <2>2. CASE s.k # "branch"
    <3>1. ThenLeaves(s, K, K', {})
      BY <1>2, <2>2 DEF Event, Next1, ThenLeaves, Then, Instead, Env, ToExit
    <3>2. Pairing({}, value')
      BY DEF Pairing
    <3>3. QED
      BY <1>2, <3>1, <3>2 DEF Happens
  <2>3. QED
    BY <2>1, <2>2
<1>3. QED
  BY <1>1, <1>2

(* Jumps go to blocks of the list.                                         *)
LEMMA JumpsListed ==
  ASSUME NEW m, Complete(m), NEW b \in InList(m), NEW i \in 1 .. Len(m.code[b])
  PROVE  /\ m.code[b][i].op = "br" => m.code[b][i].to \in InList(m)
         /\ m.code[b][i].op = "condbr" => m.code[b][i].true \in InList(m) /\ m.code[b][i].false \in InList(m)
<1> DEFINE t == m.code[b][i]
<1> SUFFICES ASSUME t.op \in {"br", "condbr"}
             PROVE  /\ t.op = "br" => t.to \in InList(m)
                    /\ t.op = "condbr" => t.true \in InList(m) /\ t.false \in InList(m)
  OBVIOUS
<1>1. Shape(m) /\ b \in BBs(m) /\ Edges(m) /\ Instructions(m)
  BY ListedBlocks DEF Complete
<1>2. Sequence(m.code[b])
  BY <1>1, EdgeLists
<1>3. t.op \in Terminators
  BY DEF Terminators
<1> DEFINE l == Len(m.code[b])
<1>4. l \in Nat /\ i = l /\ m.code[b] # <<>>
  <2>1. l \in Nat
    BY <1>2, SequenceFacts1
  <2>2. i \notin 1 .. l - 1
    BY <1>1, <1>3 DEF Instructions
  <2>3. m.code[b] # <<>>
    BY ShortSequences
  <2>4. QED
    BY <2>1, <2>2, <2>3
<1>5. Last(m.code[b]) = t
  BY <1>4 DEF Last
<1>6. IsTerminated(m, b)
  BY <1>3, <1>4, <1>5 DEF IsTerminated
<1> HIDE DEF t
<1>7. TargetsOf(m, b) = IF t.op = "br" THEN {t.to} ELSE {t.true, t.false}
  BY <1>5, <1>6 DEF TargetsOf
<1>8. TargetsOf(m, b) \subseteq InList(m)
  BY <1>1 DEF Edges
<1>9. QED
  BY <1>7, <1>8

(* A step of the builder is none once the function is built.               *)
LEMMA BuiltStops ==
  ASSUME BuildNext
  PROVE  ~ Built
<1>1. /\ \A k : Doing(k) => ~ Built
      /\ \A k : Visiting(k) => ~ Built
  BY DEF Doing, Visiting, Built
<1>2. /\ BeginFuncDef => Doing("func")
      /\ EndFuncDef => Doing("endFunc")
      /\ BeginBlockStmt => Visiting("block")
      /\ NextStmt => Doing("body")
      /\ EndBlockStmt => Doing("body")
      /\ VarDef => Visiting("decl")
      /\ VisitAct => Visiting("act")
      /\ EmptyStmt => Visiting("empty")
      /\ ReturnStmt => Visiting("ret")
      /\ BreakStmt => Visiting("brk")
      /\ ContinueStmt => Visiting("cont")
      /\ VisitAtom => Visiting("atom")
  BY DEF BeginFuncDef, EndFuncDef, BeginBlockStmt, NextStmt, EndBlockStmt, VarDef, VisitAct, EmptyStmt, ReturnStmt,
         BreakStmt, ContinueStmt, VisitAtom
<1>3. /\ BeginLAnd => Visiting("and")
      /\ EndLAnd => Doing("and")
      /\ BeginLOr => Visiting("or")
      /\ EndLOr => Doing("or")
      /\ BeginIfStmt => Visiting("if")
      /\ IfCondition => Doing("ifCond")
      /\ EndThenOnly => Doing("ifThen")
      /\ BeginElse => Doing("ifThen")
      /\ EndElse => Doing("ifElse")
      /\ BeginWhileStmt => Visiting("while")
      /\ WhileCondition => Doing("whileCond")
      /\ EndWhileStmt => Doing("whileBody")
  BY DEF BeginLAnd, EndLAnd, BeginLOr, EndLOr, BeginIfStmt, IfCondition, EndThenOnly, BeginElse, EndElse,
         BeginWhileStmt, WhileCondition, EndWhileStmt
<1>4. QED
  BY <1>1, <1>2, <1>3 DEF BuildNext

(* The run begins with the body of the function, and entryBB.              *)
LEMMA StartTogether ==
  ASSUME IInv, KInv, StartRun
  PROVE  RunInv'
<1>1. /\ Built /\ K' = Start(prog) /\ cpu' = [bb |-> entryBB, ip |-> 1] /\ prog' = prog /\ ir' = ir /\ agenda' = agenda
  BY DEF StartRun, irVars, buildVars, Start
<1>2. KEnded
  <2>1. agenda = <<>>
    BY <1>1 DEF Built
  <2>2. ~ KGoing
    BY <2>1 DEF KGoing, Tracks
  <2>3. ~ KBegun
    BY <2>1, ShortSequences DEF KBegun, Begun
  <2>4. QED
    BY <2>2, <2>3 DEF KInv
<1>3. PICK R : Simulates(prog, ir, R, {}, {})
  BY <1>2 DEF KEnded
<1>4. Complete(ir)
  BY <1>1, AlwaysSound
<1>5. entryBB \in InList(ir)
  BY <1>4 DEF Complete, Placed
<1> DEFINE k == Start(prog)
           at == [bb |-> entryBB, ip |-> 1]
<1>6. at.bb = entryBB /\ at.ip = 1
  OBVIOUS
<1>7. Sim(prog.void, ir, R, {}) /\ <<k, at.bb, at.ip, {}>> \in R
  BY <1>3, <1>6 DEF Simulates, Entry
<1>8. Pairing({}, value')
  BY DEF Pairing
<1> HIDE DEF k, at
<1>9. Together(prog, ir, k, at, value', R, k, {})
  BY <1>5, <1>6, <1>7, <1>8, ReachesOn DEF Together
<1>10. Built' /\ Together(prog', ir', K', cpu', value', R, k, {})
  BY <1>1, <1>9 DEF k, at, Built
<1>11. QED
  BY <1>10 DEF RunInv

(* The source unfolds until it shows an event.                             *)
LEMMA SourceTogether ==
  ASSUME RunInv, SourceStep
  PROVE  RunInv'
<1>1. /\ Running /\ prog' = prog /\ ir' = ir /\ agenda' = agenda /\ cpu' = cpu /\ value' = value
  BY DEF SourceStep, irVars, buildVars
<1>2. PICK R, k, w : Together(prog, ir, K, cpu, value, R, k, w)
  BY <1>1 DEF RunInv
<1>3. Unfolds(prog.void, K, K')
  BY SourceUnfolds
<1>4. Reaches(prog.void, k, K')
  BY <1>2, <1>3, ReachesOn DEF Together
<1>5. Together(prog', ir', K', cpu', value', R, k, w)
  BY <1>1, <1>2, <1>4 DEF Together
<1>6. Built'
  BY <1>1 DEF RunInv, Built
<1>7. QED
  BY <1>5, <1>6 DEF RunInv

(* The blocks are at an instruction of what unfolds to what the source is  *)
(* at.                                                                     *)
AtInstr(R, a, w) ==
  /\ Sim(prog.void, ir, R, {}) /\ cpu.bb \in InList(ir) /\ Reaches(prog.void, a, K) /\ Pairing(w, value)
  /\ Runs(prog.void, ir, R, a, cpu.bb, cpu.ip, w)

(* The instruction does what a does. *)
AllNext(R, a, b, i) == \A u, z : Happens(a, u, z) => <<u, b, i, z>> \in R
BranchesOn(R, a, w, t) == \E x \in BOOLEAN : <<t.cond, x>> \in w /\ Entry(R, a, IF x THEN t.true ELSE t.false)
RunsBy(v, R, a, b, i, w, t) ==
  \/ t.op = "alloca" /\ <<a, b, i + 1, w>> \in R
  \/ t.op = "br" /\ Entry(R, a, t.to)
  \/ t.op = "condbr" /\ BranchesOn(R, a, w, t)
  \/ Shows(v, a) /\ Shown(a) = t /\ AllNext(R, a, b, i + 1)

(* It is one of these.                                                     *)
LEMMA RunsIs ==
  ASSUME NEW R, NEW a, NEW w, AtInstr(R, a, w)
  PROVE  /\ RunsBy(prog.void, R, a, cpu.bb, cpu.ip, w, Instr)
         /\ cpu.ip \in 1 .. Len(ir.code[cpu.bb])
<1>1. Runs(prog.void, ir, R, a, cpu.bb, cpu.ip, w)
  BY DEF AtInstr
<1>2. ASSUME NEW v, NEW m, NEW b, NEW i, Runs(v, m, R, a, b, i, w)
      PROVE  RunsBy(v, R, a, b, i, w, m.code[b][i]) /\ i \in 1 .. Len(m.code[b])
  BY <1>2 DEF Runs, RunsBy, AllNext, BranchesOn
<1>3. QED
  BY <1>1, <1>2 DEF Instr

(* They are when the source shows an event.                                *)
LEMMA AtInstruction ==
  ASSUME RunInv, Running, SourceVisible
  PROVE  Built /\ \E R, a, w : AtInstr(R, a, w)
<1>1. PICK R, k, w : Together(prog, ir, K, cpu, value, R, k, w)
  BY DEF RunInv
<1>2. Shows(prog.void, K)
  BY RunNames
<1>3. PICK a : Reaches(prog.void, a, K) /\ Runs(prog.void, ir, R, a, cpu.bb, cpu.ip, w)
  <2>1. /\ Sim(prog.void, ir, R, {}) /\ cpu.bb \in InList(ir) /\ <<k, cpu.bb, cpu.ip, w>> \in R /\ Reaches(prog.void, k, K)
    BY <1>1 DEF Together
  <2>2. QED
    BY <1>2, <2>1, Ahead
<1>4. AtInstr(R, a, w)
  BY <1>1, <1>3 DEF AtInstr, Together
<1>5. QED
  BY <1>4 DEF RunInv

(* An event of the blocks is that of the source.                           *)
LEMMA EventOf ==
  ASSUME NEW R, NEW a, NEW w, AtInstr(R, a, w), SourceVisible, TargetVisible
  PROVE  a = K /\ Shown(K) = Instr /\ AllNext(R, K, cpu.bb, cpu.ip + 1)
<1>1. Instr.op \notin {"alloca", "br", "condbr"}
  BY DEF TargetVisible
<1>2. Shows(prog.void, a) /\ Shown(a) = Instr /\ AllNext(R, a, cpu.bb, cpu.ip + 1)
  BY <1>1, RunsIs DEF RunsBy
<1>3. a = K
  BY <1>2, ReachesShown DEF AtInstr
<1>4. QED
  BY <1>2, <1>3

(* The source waits for the blocks to come to its event.                   *)
LEMMA TargetTogether ==
  ASSUME IInv, RunInv, TargetStep
  PROVE  RunInv'
<1>1. /\ Running /\ SourceVisible /\ ~ TargetVisible
      /\ prog' = prog /\ ir' = ir /\ agenda' = agenda /\ K' = K /\ value' = value
  BY DEF TargetStep, irVars, buildVars
<1>2. Built
  BY <1>1 DEF RunInv
<1>3. PICK R, a, w : AtInstr(R, a, w)
  BY <1>1, AtInstruction
<1>4. Complete(ir)
  BY <1>2, AlwaysSound
<1> DEFINE b == cpu.bb
           i == cpu.ip
           t == ir.code[b][i]
<1>5. /\ Sim(prog.void, ir, R, {}) /\ b \in InList(ir) /\ Reaches(prog.void, a, K) /\ Pairing(w, value)
      /\ i \in 1 .. Len(ir.code[b])
  BY <1>3, RunsIs DEF AtInstr
<1>6. t.op \notin {"act", "eval", "ret"} /\ t = Instr
  BY <1>1 DEF TargetVisible, Instr
<1>7. /\ t.op \in {"alloca", "br", "condbr"}
      /\ t.op = "alloca" => <<a, b, i + 1, w>> \in R
      /\ t.op = "br" => Entry(R, a, t.to)
      /\ t.op = "condbr" => BranchesOn(R, a, w, t)
  <2>1. ~ (Shows(prog.void, a) /\ Shown(a) = t)
    BY <1>6, ShownEvents
  <2>2. RunsBy(prog.void, R, a, b, i, w, t)
    BY <1>3, <1>6, RunsIs
  <2> HIDE DEF b, i, t
  <2>3. QED
    BY <2>1, <2>2 DEF RunsBy
<1>8. ASSUME NEW z, <<a, cpu'.bb, cpu'.ip, z>> \in R, cpu'.bb \in InList(ir), Pairing(z, value) PROVE RunInv'
  <2>1. Together(prog', ir', K', cpu', value', R, a, z)
    BY <1>1, <1>5, <1>8 DEF Together
  <2>2. Built'
    BY <1>1, <1>2 DEF Built
  <2>3. QED
    BY <2>1, <2>2 DEF RunInv
<1>9. CASE t.op = "alloca"
  <2>1. cpu' = [cpu EXCEPT !.ip = @ + 1]
    BY <1>9 DEF TargetStep, Instr
  <2>2. cpu'.bb = b /\ cpu'.ip = i + 1
    BY <2>1
  <2>3. QED
    BY <1>5, <1>7, <1>8, <1>9, <2>2
<1>10. Pairing({}, value)
  BY DEF Pairing
<1>11. CASE t.op = "br"
  <2>1. cpu' = [bb |-> t.to, ip |-> 1]
    BY <1>11 DEF TargetStep, Instr
  <2>2. cpu'.bb = t.to /\ cpu'.ip = 1
    BY <2>1
  <2>3. t.to \in InList(ir)
    BY <1>4, <1>5, <1>11, JumpsListed
  <2>4. <<a, t.to, 1, {}>> \in R
    BY <1>7, <1>11 DEF Entry
  <2>5. <<a, cpu'.bb, cpu'.ip, {}>> \in R /\ cpu'.bb \in InList(ir)
    BY <2>2, <2>3, <2>4
  <2>6. QED
    BY <1>8, <1>10, <2>5
<1>12. CASE t.op = "condbr"
  <2>1. PICK x \in BOOLEAN : <<t.cond, x>> \in w /\ Entry(R, a, IF x THEN t.true ELSE t.false)
    BY <1>7, <1>12 DEF BranchesOn
  <2>2. value[t.cond] = x
    <3> DEFINE q == <<t.cond, x>>
    <3>1. q[1] = t.cond /\ q[2] = x /\ q \in w
      BY <2>1
    <3> HIDE DEF q
    <3>2. QED
      BY <1>5, <3>1 DEF Pairing
  <2>3. cpu' = [bb |-> IF x THEN t.true ELSE t.false, ip |-> 1]
    BY <1>12, <2>2 DEF TargetStep, Instr
  <2> DEFINE y == IF x THEN t.true ELSE t.false
  <2>4. cpu'.bb = y /\ cpu'.ip = 1
    BY <2>3
  <2>5. y \in InList(ir)
    BY <1>4, <1>5, <1>12, JumpsListed
  <2>6. <<a, y, 1, {}>> \in R
    BY <2>1 DEF Entry
  <2> HIDE DEF y
  <2>7. <<a, cpu'.bb, cpu'.ip, {}>> \in R /\ cpu'.bb \in InList(ir)
    BY <2>4, <2>5, <2>6
  <2>8. QED
    BY <1>8, <1>10, <2>7
<1>13. QED
  BY <1>7, <1>9, <1>11, <1>12

(* Both go on after their event.                                           *)
LEMMA EventTogether ==
  ASSUME RunInv, Event
  PROVE  RunInv'
<1>1. /\ Running /\ SourceVisible /\ TargetVisible
      /\ prog' = prog /\ ir' = ir /\ agenda' = agenda /\ cpu' = [cpu EXCEPT !.ip = @ + 1]
  BY DEF Event, AtEvent, irVars, buildVars
<1>2. Built /\ \E R, a, w : AtInstr(R, a, w)
  BY <1>1, AtInstruction
<1>3. PICK R, a, w : AtInstr(R, a, w)
  BY <1>2
<1>4. PICK z : Happens(K, K', z) /\ Pairing(z, value')
  BY EventHappens
<1>5. <<K', cpu.bb, cpu.ip + 1, z>> \in R
  BY <1>1, <1>3, <1>4, EventOf DEF AllNext
<1> DEFINE b == cpu.bb
           i == cpu.ip
<1>6. cpu'.bb = b /\ cpu'.ip = i + 1
  <2>1. cpu.bb # 0
    BY <1>1 DEF Running
  <2>2. QED
    BY <1>1
<1>7. Sim(prog.void, ir, R, {}) /\ b \in InList(ir)
  BY <1>3 DEF AtInstr
<1>8. <<K', cpu'.bb, cpu'.ip, z>> \in R /\ cpu'.bb \in InList(ir)
  BY <1>5, <1>6, <1>7
<1>9. Together(prog', ir', K', cpu', value', R, K', z)
  BY <1>1, <1>4, <1>7, <1>8, ReachesOn DEF Together
<1>10. Built'
  BY <1>1, <1>2 DEF Built
<1>11. QED
  BY <1>9, <1>10 DEF RunInv

-----------------------------------------------------------------------------
(* The function is as far as the source the visits in progress left, and   *)
(* the run of the two in step.                                             *)
SInv == IInv /\ KInv /\ RunInv

(* The invariant says that the next event of both is the same.             *)
LEMMA SInvSame ==
  ASSUME SInv
  PROVE  SameEvents
<1> SUFFICES ASSUME AtEvent PROVE SourceEvent = Instr
  BY DEF SameEvents
<1>1. Running /\ SourceVisible /\ TargetVisible
  BY DEF AtEvent
<1>2. PICK R, a, w : AtInstr(R, a, w)
  BY <1>1, AtInstruction DEF SInv
<1>3. Shown(K) = Instr
  BY <1>1, <1>2, EventOf
<1>4. QED
  BY <1>3, RunNames

(* It holds before FuncDef is visited.                                     *)
LEMMA SInvStarts == RunInit => SInv
<1> SUFFICES ASSUME RunInit PROVE SInv
  OBVIOUS
<1>1. IInv /\ KInv
  BY StartsUnderWay, KStarts DEF RunInit
<1>2. ~ Running
  BY DEF RunInit, Running
<1>3. QED
  BY <1>1, <1>2 DEF SInv, RunInv

(* It is about these variables only.                                       *)
LEMMA RunStutter ==
  ASSUME RunInv, UNCHANGED vars
  PROVE  RunInv'
<1>1. /\ prog' = prog /\ ir' = ir /\ agenda' = agenda /\ K' = K /\ cpu' = cpu /\ value' = value
  BY DEF vars, irVars, buildVars, runVars
<1>2. Running' = Running /\ Built' = Built
  BY <1>1 DEF Running, Built
<1>3. QED
  BY <1>1, <1>2 DEF RunInv

(* Every step of the compiler and of the run keeps it.                     *)
LEMMA SInvKept ==
  ASSUME SInv, [Next]_vars
  PROVE  SInv'
<1>1. IInv /\ KInv /\ RunInv
  BY DEF SInv
<1>2. CASE UNCHANGED vars
  <2>1. UNCHANGED irVars
    BY <1>2 DEF vars
  <2>2. QED
    BY <1>1, <1>2, <2>1, Stutter, KStutter, RunStutter DEF SInv
<1>3. CASE BuildNext /\ UNCHANGED runVars
  <2>1. IInv' /\ KInv'
    BY <1>1, <1>3, StepKeeps, KKeeps
  <2>2. ~ Running
    BY <1>1, <1>3, BuiltStops DEF RunInv
  <2>3. ~ Running'
    BY <1>3, <2>2 DEF Running, runVars
  <2>4. QED
    BY <2>1, <2>3 DEF SInv, RunInv
<1>4. CASE StartRun \/ SourceStep \/ TargetStep \/ Event
  <2>1. UNCHANGED irVars
    BY <1>4 DEF StartRun, SourceStep, TargetStep, Event
  <2>2. IInv' /\ KInv'
    BY <1>1, <2>1, Stutter, KStutter
  <2>3. RunInv'
    BY <1>1, <1>4, StartTogether, SourceTogether, TargetTogether, EventTogether
  <2>4. QED
    BY <2>2, <2>3 DEF SInv
<1>5. QED
  BY <1>2, <1>3, <1>4 DEF Next

(* Whatever values the conditions take, the function that IRBuilder made   *)
(* does what its source does next: for every program, the acts on the same *)
(* declarations, the conditions and the return, in the same order.         *)
THEOREM EventsSame == Spec => []SameEvents
<1>1. RunInit => SInv
  BY SInvStarts
<1>2. SInv /\ [Next]_vars => SInv'
  BY SInvKept
<1>3. SInv => SameEvents
  BY SInvSame
<1>4. QED
  BY <1>1, <1>2, <1>3, PTL DEF Spec
=============================================================================
