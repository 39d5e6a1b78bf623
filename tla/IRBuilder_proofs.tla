--------------------------- MODULE IRBuilder_proofs ---------------------------
(***************************************************************************)
(* That the lowering of IRBuilder is well-formed, for every program made   *)
(* of the statements and conditions of FunctionAssumption: the graph it    *)
(* leaves is what the passes take for granted (WellFormedGraph), and every *)
(* declaration gets its alloca in the entry block (DeclarationsInPlace).   *)
(*                                                                         *)
(* The first part is about the operations on the function under            *)
(* construction: what they keep of a graph in which every block is         *)
(* reached, every block leads on to one that is yet to be filled, and the  *)
(* edge lists say what the terminators say. The second is about the visits *)
(* in progress.                                                            *)
(***************************************************************************)
EXTENDS IRBuilder, SequenceFacts

(***************************************************************************)
(* The function under construction: m is the function, ins the block being *)
(* filled, H are the blocks held for later by the visits in progress.      *)
(***************************************************************************)
BBs(m) == 1 .. Len(m.code)
InList(m) == ToSet(m.list)
Distinct(s) == \A j, k \in 1 .. Len(s) : s[j] = s[k] => j = k

Shape(m) ==
  /\ DOMAIN m = {"code", "pre", "succ", "list"}
  /\ Sequence(m.code) /\ Sequence(m.pre) /\ Sequence(m.succ)
  /\ Len(m.pre) = Len(m.code) /\ Len(m.succ) = Len(m.code)
  /\ \A b \in BBs(m) : /\ Sequence(m.code[b])
                       /\ m.pre[b] \in Seq(BBs(m)) /\ m.succ[b] \in Seq(BBs(m))
  /\ m.list \in Seq(BBs(m)) /\ Distinct(m.list)

(* A block held for later is empty, one that is neither held nor filled    *)
(* has its terminator, and one that was erased held nothing.               *)
Placed(m, ins, H) ==
  /\ entryBB \in InList(m) \ H
  /\ ins \in InList(m) \ H
  /\ H \subseteq InList(m)
  /\ \A b \in H \cup (BBs(m) \ InList(m)) : m.code[b] = <<>>
  /\ \A b \in InList(m) \ H : b = ins \/ IsTerminated(m, b)

(* Terminators are last, and allocas are in the entry block.               *)
Instructions(m) ==
  /\ \A b \in BBs(m) : \A k \in 1 .. Len(m.code[b]) - 1 : m.code[b][k].op \notin Terminators
  /\ \A b \in BBs(m) \ {entryBB} : \A k \in 1 .. Len(m.code[b]) : m.code[b][k].op # "alloca"

(* No block returns yet. *)
NoReturn(m) == \A b \in BBs(m) : IsTerminated(m, b) => Last(m.code[b]).op # "ret"

TargetsOf(m, b) ==
  IF ~ IsTerminated(m, b) \/ Last(m.code[b]).op = "ret" THEN {}
  ELSE LET t == Last(m.code[b]) IN IF t.op = "br" THEN {t.to} ELSE {t.true, t.false}

(* The edge lists are those of the terminators, each edge once.            *)
Edges(m) ==
  \A b \in BBs(m) :
    /\ ToSet(m.succ[b]) = TargetsOf(m, b) /\ Distinct(m.succ[b])
    /\ TargetsOf(m, b) \subseteq InList(m) \ {entryBB}
    /\ ToSet(m.pre[b]) = {a \in BBs(m) : b \in TargetsOf(m, a)} /\ Distinct(m.pre[b])

(* Sets that no edge leaves, and sets that none enters.                    *)
ClosedIn(m, S) == \A b \in S : TargetsOf(m, b) \subseteq S
Back(m, S) == \A b \in BBs(m) : TargetsOf(m, b) \cap S # {} => b \in S

(* Every block but those held is reached from the entry.                   *)
Reach(m, H) ==
  \A S \in SUBSET BBs(m) : entryBB \in S /\ ClosedIn(m, S) => InList(m) \ H \subseteq S

(* Every block leads to one of the goals, and a leads to b.                *)
Leads(m, goals) ==
  \A S \in SUBSET BBs(m) : goals \subseteq S /\ Back(m, S) => InList(m) \subseteq S
LeadsFrom(m, a, b) == \A S \in SUBSET BBs(m) : b \in S /\ Back(m, S) => a \in S

(* The blocks that are yet to be terminated.                               *)
Goals(m, ins, H) == H \cup (IF IsTerminated(m, ins) THEN {} ELSE {ins})

UnderWay(m, ins, H) ==
  /\ Shape(m) /\ Placed(m, ins, H) /\ Instructions(m) /\ NoReturn(m)
  /\ Edges(m) /\ Reach(m, H) /\ Leads(m, Goals(m, ins, H))

-----------------------------------------------------------------------------
(***************************************************************************)
(* Lists                                                                   *)
(***************************************************************************)
(* kept[k] are the first k elements of s, without b. *)
Keeps(kept, s, b) ==
  /\ kept[0] = <<>>
  /\ \A k \in Nat : kept[k + 1] = IF s[k + 1] = b THEN kept[k] ELSE Append(kept[k], s[k + 1])

(* std::list::remove is the function its definition describes.             *)
LEMMA WithoutRecursion ==
  ASSUME NEW s, NEW b
  PROVE  \E kept : Without(s, b) = kept[Len(s)] /\ Keeps(kept, s, b)
<1> DEFINE kept[k \in Nat] ==
             IF k = 0 THEN <<>> ELSE IF s[k] = b THEN kept[k - 1] ELSE Append(kept[k - 1], s[k])
           P(g) == g = [k \in Nat |-> IF k = 0 THEN <<>>
                                      ELSE IF s[k] = b THEN g[k - 1] ELSE Append(g[k - 1], s[k])]
           D == Seq({s[k] : k \in Nat})
           step == [d \in D \X Nat |-> IF s[d[2]] = b THEN d[1] ELSE Append(d[1], s[d[2]])]
<1>1. step \in [D \X Nat -> D] /\ <<>> \in D
  <2>1. ASSUME NEW t \in D, NEW k \in Nat PROVE Append(t, s[k]) \in D
    OBVIOUS
  <2>2. <<>> \in D
    OBVIOUS
  <2> HIDE DEF D
  <2>3. QED
    BY <2>1, <2>2
<1>2. PICK f : Recursive(f, D, <<>>, step)
  <2> HIDE DEF D, step
  <2>1. QED
    BY <1>1, RecursiveExists
<1>3. P(f)
  <2>1. f \in [Nat -> D] /\ f[0] = <<>>
    BY <1>2 DEF Recursive
  <2>2. ASSUME NEW k \in Nat \ {0}
        PROVE  f[k] = IF s[k] = b THEN f[k - 1] ELSE Append(f[k - 1], s[k])
    <3>1. k - 1 \in Nat /\ k - 1 + 1 = k
      OBVIOUS
    <3>2. f[k] = step[<<f[k - 1], k>>]
      <4> HIDE DEF step
      <4>1. QED
        BY <1>2, <3>1 DEF Recursive
    <3>3. f[k - 1] \in D
      BY <2>1, <3>1
    <3> HIDE DEF D
    <3>4. QED
      BY <3>2, <3>3
  <2> HIDE DEF D
  <2>3. QED
    BY <2>1, <2>2
<1>4. kept = CHOOSE g : P(g)
  BY Zenon
<1>5. P(kept)
  <2> HIDE DEF P, kept
  <2>1. QED
    BY <1>3, <1>4
<1>6. Without(s, b) = kept[Len(s)]
  BY DEF Without
<1> HIDE DEF kept
<1>7. kept[0] = <<>>
  BY <1>5
<1>8. ASSUME NEW k \in Nat
      PROVE  kept[k + 1] = IF s[k + 1] = b THEN kept[k] ELSE Append(kept[k], s[k + 1])
  <2>1. k + 1 \in Nat /\ k + 1 # 0 /\ k + 1 - 1 = k
    OBVIOUS
  <2>2. \A i \in Nat : kept[i] = IF i = 0 THEN <<>>
                              ELSE IF s[i] = b THEN kept[i - 1] ELSE Append(kept[i - 1], s[i])
    BY <1>5, Zenon
  <2>3. QED
    BY <2>1, <2>2
<1>9. QED
  BY <1>6, <1>7, <1>8 DEF Keeps

(* It takes all occurrences of b out and nothing else. *)
LEMMA WithoutElements ==
  ASSUME NEW S, NEW s \in Seq(S), NEW b, Distinct(s)
  PROVE  /\ Without(s, b) \in Seq(S) /\ Distinct(Without(s, b))
         /\ ToSet(Without(s, b)) = ToSet(s) \ {b}
<1>0. PICK kept : Without(s, b) = kept[Len(s)] /\ Keeps(kept, s, b)
  BY WithoutRecursion
<1>1. /\ Without(s, b) = kept[Len(s)]
      /\ kept[0] = <<>>
      /\ \A k \in Nat : kept[k + 1] = IF s[k + 1] = b THEN kept[k] ELSE Append(kept[k], s[k + 1])
  BY <1>0 DEF Keeps
<1>2. Sequence(s) /\ Len(s) \in Nat /\ \A k \in 1 .. Len(s) : s[k] \in S
  BY TypedSequence, SequenceFacts1
<1> DEFINE Right(t, k) == /\ t \in Seq(S) /\ Distinct(t)
                          /\ \A e : e \in ToSet(t) <=> e # b /\ \E j \in 1 .. k : s[j] = e
           A == {k \in Nat : k <= Len(s) => Right(kept[k], k)}
<1>3. 0 \in A
  <2>1. <<>> \in Seq(S) /\ Len(<<>>) = 0 /\ Sequence(<<>>)
    BY ShortSequences
  <2>2. Distinct(<<>>) /\ \A e : e \notin ToSet(<<>>)
    BY <2>1, SequenceFacts1 DEF Distinct
  <2>3. Right(<<>>, 0)
    BY <2>1, <2>2
  <2> HIDE DEF Right
  <2>4. QED
    BY <1>1, <2>3
<1>4. ASSUME NEW k \in A PROVE k + 1 \in A
  <2>1. CASE k + 1 <= Len(s)
    <3>1. k \in Nat /\ Right(kept[k], k) /\ k + 1 \in 1 .. Len(s) /\ s[k + 1] \in S
      BY <1>2, <2>1
    <3>2. \A j : j \in 1 .. k + 1 <=> j \in 1 .. k \/ j = k + 1
      BY <3>1
    <3>3. CASE s[k + 1] = b
      <4>1. kept[k + 1] = kept[k]
        BY <1>1, <3>1, <3>3
      <4>2. \A e : e # b /\ (\E j \in 1 .. k : s[j] = e) <=> e # b /\ \E j \in 1 .. k + 1 : s[j] = e
        BY <3>2, <3>3
      <4>3. Right(kept[k + 1], k + 1)
        BY <3>1, <4>1, <4>2
      <4> HIDE DEF Right
      <4>4. QED
        BY <3>1, <4>3
    <3>4. CASE s[k + 1] # b
      <4> DEFINE t == kept[k]
                 u == Append(t, s[k + 1])
      <4>1. kept[k + 1] = u /\ t \in Seq(S) /\ Distinct(t) /\ Sequence(t)
        BY <1>1, <3>1, <3>4, TypedSequence
      <4>2. /\ Sequence(u) /\ Len(u) = Len(t) + 1 /\ Len(t) \in Nat
            /\ \A j \in 1 .. Len(t) : u[j] = t[j]
            /\ u[Len(t) + 1] = s[k + 1]
        BY <4>1, AppendSequence, SequenceFacts1
      <4>3. u \in Seq(S)
        BY <3>1, <4>1
      <4> HIDE DEF u
      <4>4. \A e : e \in ToSet(u) <=> e \in ToSet(t) \/ e = s[k + 1]
        <5>1. \A j : j \in 1 .. Len(u) <=> j \in 1 .. Len(t) \/ j = Len(t) + 1
          BY <4>2
        <5>2. \A e : e \in ToSet(u) <=> \E j \in 1 .. Len(u) : u[j] = e
          BY <4>2, SequenceFacts1
        <5>3. \A e : e \in ToSet(t) <=> \E j \in 1 .. Len(t) : t[j] = e
          BY <4>1, SequenceFacts1
        <5> HIDE DEF t
        <5>4. QED
          BY <4>2, <5>1, <5>2, <5>3
      <4>5. \A e : e \in ToSet(u) <=> e # b /\ \E j \in 1 .. k + 1 : s[j] = e
        BY <3>1, <3>2, <3>4, <4>4
      <4>6. s[k + 1] \notin ToSet(t)
        <5>1. \A j \in 1 .. k : s[j] # s[k + 1]
          BY <1>2, <2>1, <3>1 DEF Distinct
        <5>2. QED
          BY <3>1, <5>1
      <4>7. Distinct(u)
        <5>1. ASSUME NEW i \in 1 .. Len(u), NEW j \in 1 .. Len(u), u[i] = u[j] PROVE i = j
          <6>1. \A l \in 1 .. Len(t) : t[l] \in ToSet(t)
            BY <4>1, SequenceFacts1
          <6>2. \A l \in 1 .. Len(u) : l \in 1 .. Len(t) \/ l = Len(t) + 1
            BY <4>2
          <6>3. QED
            BY <4>1, <4>2, <4>6, <5>1, <6>1, <6>2 DEF Distinct
        <5>2. QED
          BY <5>1 DEF Distinct
      <4>8. Right(u, k + 1)
        BY <4>3, <4>5, <4>7
      <4> HIDE DEF Right
      <4>9. QED
        BY <3>1, <4>1, <4>8
    <3>5. QED
      BY <3>3, <3>4
  <2>2. CASE ~ (k + 1 <= Len(s))
    BY <2>2
  <2>3. QED
    BY <2>1, <2>2
<1>5. A = Nat
  <2>1. A \in SUBSET Nat
    OBVIOUS
  <2> HIDE DEF A
  <2>2. QED
    BY <1>3, <1>4, <2>1, Induction
<1>6. Right(Without(s, b), Len(s))
  <2> HIDE DEF Right
  <2>1. Len(s) \in A
    BY <1>2, <1>5
  <2>2. QED
    BY <1>1, <1>2, <2>1
<1>7. \A e : e \in ToSet(s) <=> \E j \in 1 .. Len(s) : s[j] = e
  BY <1>2, SequenceFacts1
<1>8. QED
  BY <1>6, <1>7

-----------------------------------------------------------------------------
(***************************************************************************)
(* What the operations on the function do                                  *)
(***************************************************************************)
(* The sequence r is s but for its element i, which is e. *)
Replaced(r, s, i, e) ==
  /\ Sequence(r) /\ Len(r) = Len(s) /\ r[i] = e
  /\ \A j \in 1 .. Len(s) \ {i} : r[j] = s[j]

(* EXCEPT at a place of a sequence replaces the element there.             *)
LEMMA ExceptSequence ==
  ASSUME NEW s, Sequence(s), NEW i \in 1 .. Len(s), NEW e
  PROVE  Replaced([s EXCEPT ![i] = e], s, i, e)
<1> DEFINE S == ToSet(s) \cup {e}
<1>1. s \in Seq(S) /\ e \in S
  BY SeqMonotonic DEF Sequence
<1> HIDE DEF S
<1>2. /\ [s EXCEPT ![i] = e] \in Seq(S) /\ Len([s EXCEPT ![i] = e]) = Len(s)
      /\ \A j \in 1 .. Len(s) : [s EXCEPT ![i] = e][j] = IF j = i THEN e ELSE s[j]
  BY <1>1, ExceptSeq
<1>3. Sequence([s EXCEPT ![i] = e])
  BY <1>2, TypedSequence
<1>4. QED
  BY <1>1, <1>2, <1>3 DEF Replaced

(* The listed blocks are blocks, and the lists are lists. *)
LEMMA ListedBlocks ==
  ASSUME NEW m, Shape(m)
  PROVE  /\ Len(m.code) \in Nat /\ Sequence(m.code) /\ Sequence(m.pre) /\ Sequence(m.succ)
         /\ Sequence(m.list) /\ InList(m) \subseteq BBs(m)
<1>1. m.list \in Seq(BBs(m)) /\ Sequence(m.code) /\ Sequence(m.pre) /\ Sequence(m.succ)
  BY DEF Shape
<1>2. Len(m.code) \in Nat
  BY <1>1, SequenceFacts1
<1>3. Sequence(m.list) /\ \A k \in 1 .. Len(m.list) : m.list[k] \in BBs(m)
  BY <1>1, TypedSequence
<1>4. InList(m) \subseteq BBs(m)
  BY <1>3, SequenceFacts1 DEF InList
<1>5. QED
  BY <1>1, <1>2, <1>3, <1>4

(* The edge lists of a block are lists of blocks. *)
LEMMA EdgeLists ==
  ASSUME NEW m, Shape(m), NEW b \in BBs(m)
  PROVE  /\ Sequence(m.code[b])
         /\ Sequence(m.pre[b]) /\ \A k \in 1 .. Len(m.pre[b]) : m.pre[b][k] \in BBs(m)
         /\ Sequence(m.succ[b]) /\ \A k \in 1 .. Len(m.succ[b]) : m.succ[b][k] \in BBs(m)
<1>1. m.pre[b] \in Seq(BBs(m)) /\ m.succ[b] \in Seq(BBs(m)) /\ Sequence(m.code[b])
  BY DEF Shape
<1>2. QED
  BY <1>1, TypedSequence

(* The block being filled is one of the blocks. *)
LEMMA InsertListed ==
  ASSUME NEW m, NEW ins, NEW H, Shape(m), Placed(m, ins, H)
  PROVE  /\ ins \in InList(m) \ H /\ ins \in BBs(m) /\ entryBB \in BBs(m)
         /\ H \subseteq BBs(m) /\ ins \notin BBs(m) \ InList(m)
<1>1. InList(m) \subseteq BBs(m)
  BY ListedBlocks
<1>2. QED
  BY <1>1 DEF Placed

(* n is m with an instruction added at the end of b. *)
Emitted(m, n, b, i) ==
  /\ Shape(n) /\ BBs(n) = BBs(m) /\ n.pre = m.pre /\ n.succ = m.succ /\ n.list = m.list
  /\ n.code[b] = Append(m.code[b], i)
  /\ \A x \in BBs(m) \ {b} : n.code[x] = m.code[x]
  /\ Last(n.code[b]) = i
  /\ IsTerminated(n, b) <=> i.op \in Terminators
  /\ \A k \in 1 .. Len(m.code[b]) : n.code[b][k] = m.code[b][k]
  /\ Len(n.code[b]) = Len(m.code[b]) + 1
  /\ n.code[b][Len(m.code[b]) + 1] = i

(* BasicBlock::add_instruction changes the end of one block only.          *)
LEMMA EmitFacts ==
  ASSUME NEW m, Shape(m), NEW b \in BBs(m), NEW i
  PROVE  Emitted(m, Emit(m, b, i), b, i)
<1> DEFINE n == Emit(m, b, i)
           c == [m.code EXCEPT ![b] = Append(m.code[b], i)]
<1>1. /\ DOMAIN n = DOMAIN m /\ n.code = c
      /\ n.pre = m.pre /\ n.succ = m.succ /\ n.list = m.list
  <2>1. n = [m EXCEPT !.code = c]
    BY DEF Emit
  <2>2. DOMAIN m = {"code", "pre", "succ", "list"}
    BY DEF Shape
  <2> HIDE DEF n, c
  <2>3. QED
    BY <2>1, <2>2
<1>2. Sequence(m.code) /\ Sequence(m.code[b]) /\ Len(m.code) \in Nat
  BY EdgeLists, ListedBlocks
<1>3. /\ Sequence(c) /\ Len(c) = Len(m.code) /\ c[b] = Append(m.code[b], i)
      /\ \A x \in BBs(m) \ {b} : c[x] = m.code[x]
  <2> DEFINE s == m.code
             e == Append(m.code[b], i)
  <2>1. b \in 1 .. Len(s) /\ Sequence(s)
    BY <1>2 DEF BBs
  <2> HIDE DEF s, e
  <2>2. Replaced([s EXCEPT ![b] = e], s, b, e)
    BY <2>1, ExceptSequence
  <2>3. QED
    BY <2>2 DEF Replaced, BBs, s, e
<1>4. /\ Sequence(c[b]) /\ c[b] # <<>> /\ Last(c[b]) = i
      /\ \A k \in 1 .. Len(m.code[b]) : c[b][k] = m.code[b][k]
      /\ Len(c[b]) = Len(m.code[b]) + 1
      /\ c[b][Len(m.code[b]) + 1] = i
  BY <1>2, <1>3, AppendSequence
<1> HIDE DEF c, n
<1>5. BBs(n) = BBs(m)
  BY <1>1, <1>3 DEF BBs
<1>6. Shape(n)
  BY <1>1, <1>3, <1>4, <1>5 DEF Shape
<1>7. IsTerminated(n, b) <=> i.op \in Terminators
  BY <1>1, <1>4 DEF IsTerminated
<1>8. Emitted(m, n, b, i)
  BY <1>1, <1>3, <1>4, <1>5, <1>6, <1>7 DEF Emitted
<1>9. QED
  BY <1>8 DEF n

(* The blocks, their order and their edges are the same. *)
SameGraph(m, n) ==
  /\ BBs(n) = BBs(m) /\ n.list = m.list /\ n.pre = m.pre /\ n.succ = m.succ
  /\ \A b \in BBs(m) : /\ IsTerminated(n, b) <=> IsTerminated(m, b)
                       /\ TargetsOf(n, b) = TargetsOf(m, b)

(* What is said of the graph of m is said of that of n.                    *)
LEMMA SameGraphKeeps ==
  ASSUME NEW m, NEW n, Shape(m), SameGraph(m, n)
  PROVE  /\ Edges(m) => Edges(n)
         /\ \A H : Reach(m, H) => Reach(n, H)
         /\ \A G : Leads(m, G) => Leads(n, G)
         /\ \A a, b : LeadsFrom(m, a, b) => LeadsFrom(n, a, b)
         /\ \A ins \in BBs(m) : \A H : Goals(n, ins, H) = Goals(m, ins, H)
<1>1. /\ BBs(n) = BBs(m) /\ InList(n) = InList(m)
      /\ \A S \in SUBSET BBs(m) : (ClosedIn(n, S) <=> ClosedIn(m, S)) /\ (Back(n, S) <=> Back(m, S))
  BY DEF SameGraph, InList, ClosedIn, Back
<1>2. Edges(m) => Edges(n)
  BY <1>1 DEF SameGraph, Edges
<1>4. \A H : Reach(m, H) => Reach(n, H)
  BY <1>1 DEF Reach
<1>5. \A G : Leads(m, G) => Leads(n, G)
  BY <1>1 DEF Leads
<1>6. \A a, b : LeadsFrom(m, a, b) => LeadsFrom(n, a, b)
  BY <1>1 DEF LeadsFrom
<1>7. \A ins \in BBs(m) : \A H : Goals(n, ins, H) = Goals(m, ins, H)
  BY <1>1 DEF SameGraph, Goals
<1>8. QED
  BY <1>2, <1>4, <1>5, <1>6, <1>7

(* An instruction is added to the block being filled, an alloca only to    *)
(* the entry block.                                                        *)
LEMMA EmitKeeps ==
  ASSUME NEW m, NEW ins, NEW H, UnderWay(m, ins, H), ~ IsTerminated(m, ins),
         NEW i, i.op = "alloca" => ins = entryBB, NEW n, Emitted(m, n, ins, i)
  PROVE  /\ Placed(n, ins, H) /\ Instructions(n) /\ (i.op # "ret" => NoReturn(n))
         /\ \A b \in BBs(m) \ {ins} : /\ IsTerminated(n, b) <=> IsTerminated(m, b)
                                     /\ TargetsOf(n, b) = TargetsOf(m, b)
<1>1. Shape(m) /\ Placed(m, ins, H) /\ Instructions(m) /\ NoReturn(m)
  BY DEF UnderWay
<1>2. /\ ins \in InList(m) \ H /\ InList(m) \subseteq BBs(m) /\ ins \in BBs(m)
      /\ Sequence(m.code[ins])
  BY <1>1, InsertListed, ListedBlocks, EdgeLists
<1>3. /\ Shape(n) /\ BBs(n) = BBs(m) /\ n.list = m.list
      /\ \A x \in BBs(m) \ {ins} : n.code[x] = m.code[x]
      /\ Last(n.code[ins]) = i /\ (IsTerminated(n, ins) <=> i.op \in Terminators)
      /\ \A k \in 1 .. Len(m.code[ins]) : n.code[ins][k] = m.code[ins][k]
      /\ Len(n.code[ins]) = Len(m.code[ins]) + 1
      /\ n.code[ins][Len(m.code[ins]) + 1] = i
  BY DEF Emitted
<1>4. \A b \in BBs(m) \ {ins} : /\ IsTerminated(n, b) <=> IsTerminated(m, b)
                                /\ TargetsOf(n, b) = TargetsOf(m, b)
  BY <1>3 DEF IsTerminated, TargetsOf
<1>5. Placed(n, ins, H)
  <2>1. InList(n) = InList(m)
    BY <1>3 DEF InList
  <2>2. ins \notin H \cup (BBs(m) \ InList(m)) /\ H \subseteq BBs(m)
    BY <1>1, <1>2 DEF Placed
  <2>3. QED
    BY <1>1, <1>2, <1>3, <1>4, <2>1, <2>2 DEF Placed
<1>6. \A k \in 1 .. Len(m.code[ins]) : m.code[ins][k].op \notin Terminators
  <2>1. Len(m.code[ins]) \in Nat /\ (m.code[ins] = <<>> <=> Len(m.code[ins]) = 0)
    BY <1>2, SequenceFacts1
  <2>2. ASSUME NEW k \in 1 .. Len(m.code[ins]) PROVE m.code[ins][k].op \notin Terminators
    <3>1. CASE k \in 1 .. Len(m.code[ins]) - 1
      BY <1>1, <1>2, <3>1 DEF Instructions
    <3>2. CASE k = Len(m.code[ins])
      BY <2>1, <3>2 DEF IsTerminated, Last
    <3>3. QED
      BY <2>1, <3>1, <3>2
  <2>3. QED
    BY <2>2
<1>7. Instructions(n)
  <2>1. Len(m.code[ins]) \in Nat
    BY <1>2, SequenceFacts1
  <2>2. \A k \in 1 .. Len(n.code[ins]) - 1 : n.code[ins][k].op \notin Terminators
    <3>1. Len(n.code[ins]) - 1 = Len(m.code[ins])
      BY <1>3, <2>1
    <3>2. QED
      BY <1>3, <1>6, <3>1
  <2>3. \A b \in BBs(n) : \A k \in 1 .. Len(n.code[b]) - 1 : n.code[b][k].op \notin Terminators
    BY <1>1, <1>3, <2>2 DEF Instructions
  <2>4. ins # entryBB => \A k \in 1 .. Len(n.code[ins]) : n.code[ins][k].op # "alloca"
    <3>1. \A k \in 1 .. Len(n.code[ins]) : k \in 1 .. Len(m.code[ins]) \/ k = Len(m.code[ins]) + 1
      BY <1>3, <2>1
    <3>2. ins # entryBB => \A k \in 1 .. Len(m.code[ins]) : m.code[ins][k].op # "alloca"
      BY <1>1, <1>2 DEF Instructions
    <3>3. QED
      BY <1>3, <3>1, <3>2
  <2>5. QED
    BY <1>1, <1>3, <2>3, <2>4 DEF Instructions
<1>8. i.op # "ret" => NoReturn(n)
  BY <1>1, <1>3, <1>4 DEF NoReturn
<1>9. QED
  BY <1>4, <1>5, <1>7, <1>8

(* One that does not end it leaves the block open and the graph as it is.  *)
LEMMA EmitPlain ==
  ASSUME NEW m, NEW ins, NEW H, UnderWay(m, ins, H), ~ IsTerminated(m, ins),
         NEW i, i.op \notin Terminators, i.op = "alloca" => ins = entryBB,
         NEW n, Emitted(m, n, ins, i)
  PROVE  UnderWay(n, ins, H) /\ ~ IsTerminated(n, ins) /\ SameGraph(m, n)
<1>1. /\ Shape(m) /\ Placed(m, ins, H) /\ Edges(m) /\ Reach(m, H)
      /\ Leads(m, Goals(m, ins, H)) /\ ins \in BBs(m)
  BY InsertListed DEF UnderWay
<1>2. i.op # "ret"
  BY DEF Terminators
<1>4. /\ Placed(n, ins, H) /\ Instructions(n) /\ NoReturn(n)
      /\ \A b \in BBs(m) \ {ins} : /\ IsTerminated(n, b) <=> IsTerminated(m, b)
                                   /\ TargetsOf(n, b) = TargetsOf(m, b)
  BY <1>2, EmitKeeps
<1>5. /\ Shape(n) /\ BBs(n) = BBs(m) /\ n.pre = m.pre /\ n.succ = m.succ /\ n.list = m.list
      /\ ~ IsTerminated(n, ins)
  BY DEF Emitted
<1>6. TargetsOf(n, ins) = TargetsOf(m, ins)
  BY <1>5 DEF TargetsOf
<1>7. SameGraph(m, n)
  BY <1>4, <1>5, <1>6 DEF SameGraph
<1>8. Edges(n) /\ Reach(n, H) /\ Leads(n, Goals(n, ins, H))
  BY <1>1, <1>7, SameGraphKeeps
<1>9. UnderWay(n, ins, H)
  BY <1>4, <1>5, <1>8 DEF UnderWay
<1>10. QED
  BY <1>5, <1>7, <1>9

(* What of m is still so of n, which has the blocks R no more and new      *)
(* edges to those in T.                                                    *)
Carries(m, n, T, R) ==
  /\ BBs(m) \subseteq BBs(n) /\ InList(m) \ R \subseteq InList(n)
  /\ \A b \in BBs(m) : /\ m.pre[b] # <<>> => n.pre[b] # <<>>
                       /\ b \notin T /\ m.pre[b] = <<>> => n.pre[b] = <<>>
  /\ \A a, b : b \in BBs(m) /\ LeadsFrom(m, a, b) => LeadsFrom(n, a, b)

(* With the graph stay the entries of every edge list.                     *)
LEMMA SameGraphCarries ==
  ASSUME NEW m, NEW n, Shape(m), SameGraph(m, n)
  PROVE  Carries(m, n, {}, {})
<1>1. \A a, b : LeadsFrom(m, a, b) => LeadsFrom(n, a, b)
  BY SameGraphKeeps
<1>2. QED
  BY <1>1 DEF SameGraph, Carries, InList

(* A list of as many empty lists, and one of the numbers after l.          *)
LEMMA NewLists ==
  ASSUME NEW l \in Nat, NEW n \in Nat
  PROVE  LET empty == [k \in 1 .. n |-> <<>>]
             ids == [k \in 1 .. n |-> l + k]
         IN /\ Sequence(empty) /\ Len(empty) = n /\ \A k \in 1 .. n : empty[k] = <<>>
            /\ Sequence(ids) /\ Len(ids) = n /\ \A k \in 1 .. n : ids[k] = l + k
<1> DEFINE empty == [k \in 1 .. n |-> <<>>]
           ids == [k \in 1 .. n |-> l + k]
<1>1. empty \in Seq({<<>>}) /\ Len(empty) = n
  OBVIOUS
<1>2. ids \in Seq(Nat) /\ Len(ids) = n
  OBVIOUS
<1>3. QED
  BY <1>1, <1>2, TypedSequence

(* w is m with the blocks New. *)
Added(m, w, New) ==
  /\ Shape(w) /\ BBs(w) = BBs(m) \cup New /\ BBs(m) \cap New = {} /\ InList(w) = InList(m) \cup New
  /\ \A b \in BBs(m) : w.code[b] = m.code[b] /\ w.pre[b] = m.pre[b] /\ w.succ[b] = m.succ[b]
  /\ \A b \in New : w.code[b] = <<>> /\ w.pre[b] = <<>> /\ w.succ[b] = <<>>

(* c is s followed by t, which has n elements. *)
Longer(c, s, t, l, n) ==
  /\ Sequence(c) /\ Len(c) = l + n
  /\ \A b \in 1 .. l : c[b] = s[b]
  /\ \A b \in l + 1 .. l + n : b - l \in 1 .. n /\ c[b] = t[b - l]

(* The elements of a concatenation.                                        *)
LEMMA LongerList ==
  ASSUME NEW s, NEW t, Sequence(s), Sequence(t),
         NEW l \in Nat, l = Len(s), NEW n \in Nat, n = Len(t)
  PROVE  Longer(s \o t, s, t, l, n)
<1>1. l \in Nat /\ n \in Nat
  BY SequenceFacts1
<1>2. /\ Sequence(s \o t) /\ Len(s \o t) = l + n
      /\ \A b \in 1 .. l : (s \o t)[b] = s[b]
      /\ \A k \in 1 .. n : (s \o t)[l + k] = t[k]
  BY ConcatSequence
<1>3. ASSUME NEW b \in l + 1 .. l + n PROVE b - l \in 1 .. n /\ (s \o t)[b] = t[b - l]
  <2>1. b - l \in 1 .. n /\ l + (b - l) = b
    BY <1>1
  <2>2. QED
    BY <1>2, <2>1
<1>4. QED
  BY <1>2, <1>3 DEF Longer

(* c is a list like s up to l, with n empty lists after it. *)
Empties(t, n) == Sequence(t) /\ Len(t) = n /\ \A k \in 1 .. n : t[k] = <<>>
WithEmpty(c, s, l, n) ==
  /\ Sequence(c) /\ Len(c) = l + n
  /\ \A b \in 1 .. l : c[b] = s[b]
  /\ \A b \in l + 1 .. l + n : c[b] = <<>>

(* The elements of a list that n empty lists are put after.                *)
LEMMA LongerByEmpty ==
  ASSUME NEW s, Sequence(s), NEW l \in Nat, l = Len(s), NEW n \in Nat,
         NEW t, Empties(t, n), NEW c, c = s \o t
  PROVE  WithEmpty(c, s, l, n)
<1>1. Longer(s \o t, s, t, l, n)
  BY LongerList DEF Empties
<1>2. QED
  BY <1>1 DEF Longer, Empties, WithEmpty

(* The new blocks are empty and have no edges; the others stay. *)
LEMMA NewBlocksFacts ==
  ASSUME NEW m, Shape(m), NEW n \in Nat
  PROVE  Added(m, NewBlocks(m, n), Len(m.code) + 1 .. Len(m.code) + n)
         /\ Len(NewBlocks(m, n).code) = Len(m.code) + n
<1> DEFINE l == Len(m.code)
           ids == [k \in 1 .. n |-> l + k]
           empty == [k \in 1 .. n |-> <<>>]
           w == NewBlocks(m, n)
           New == l + 1 .. l + n
<1>1. w = [code |-> m.code \o empty, pre |-> m.pre \o empty, succ |-> m.succ \o empty,
           list |-> m.list \o ids]
  BY DEF NewBlocks
<1>2. /\ DOMAIN w = {"code", "pre", "succ", "list"}
      /\ w.code = m.code \o empty /\ w.pre = m.pre \o empty /\ w.succ = m.succ \o empty
      /\ w.list = m.list \o ids
  <2> HIDE DEF w, empty, ids
  <2>1. QED
    BY <1>1
<1>3. /\ l \in Nat /\ Sequence(m.code) /\ Sequence(m.pre) /\ Sequence(m.succ) /\ Sequence(m.list)
      /\ Len(m.code) = l /\ Len(m.pre) = l /\ Len(m.succ) = l /\ BBs(m) = 1 .. l
  BY ListedBlocks DEF Shape, BBs
<1>4. /\ Empties(empty, n)
      /\ Sequence(ids) /\ Len(ids) = n /\ \A k \in 1 .. n : ids[k] = l + k
  BY <1>3, NewLists DEF Empties
<1> HIDE DEF w, empty, ids, l
<1>5. /\ Sequence(w.code) /\ Len(w.code) = l + n
      /\ \A b \in 1 .. l : w.code[b] = m.code[b]
      /\ \A b \in New : w.code[b] = <<>>
  <2>1. WithEmpty(w.code, m.code, l, n)
    BY <1>2, <1>3, <1>4, LongerByEmpty
  <2>2. QED
    BY <2>1 DEF WithEmpty
<1>6. /\ Sequence(w.pre) /\ Len(w.pre) = l + n
      /\ \A b \in 1 .. l : w.pre[b] = m.pre[b]
      /\ \A b \in New : w.pre[b] = <<>>
  <2>1. WithEmpty(w.pre, m.pre, l, n)
    BY <1>2, <1>3, <1>4, LongerByEmpty
  <2>2. QED
    BY <2>1 DEF WithEmpty
<1>7. /\ Sequence(w.succ) /\ Len(w.succ) = l + n
      /\ \A b \in 1 .. l : w.succ[b] = m.succ[b]
      /\ \A b \in New : w.succ[b] = <<>>
  <2>1. WithEmpty(w.succ, m.succ, l, n)
    BY <1>2, <1>3, <1>4, LongerByEmpty
  <2>2. QED
    BY <2>1 DEF WithEmpty
<1> DEFINE q == Len(m.list)
<1>8. /\ q \in Nat /\ Sequence(w.list) /\ Len(w.list) = q + n
      /\ \A j \in 1 .. q : w.list[j] = m.list[j] /\ m.list[j] \in 1 .. l
      /\ \A j \in q + 1 .. q + n : w.list[j] = l + (j - q)
  <2>1. \A j \in 1 .. q : m.list[j] \in BBs(m)
    BY TypedSequence DEF Shape
  <2>2. q \in Nat
    BY <1>3, SequenceFacts1
  <2>3. QED
    <3>1. Longer(w.list, m.list, ids, q, n)
      BY <1>2, <1>3, <1>4, <2>2, LongerList
    <3>2. \A j \in q + 1 .. q + n : j - q \in 1 .. n => ids[j - q] = l + (j - q)
      BY <1>4
    <3>3. QED
      BY <1>3, <2>1, <2>2, <3>1, <3>2 DEF Longer
<1> HIDE DEF q
<1>9. BBs(w) = BBs(m) \cup New /\ BBs(m) \cap New = {}
  BY <1>3, <1>5 DEF BBs
<1>10. /\ \A e : e \in ToSet(w.list) <=> e \in ToSet(m.list) \/ e \in New
       /\ Distinct(w.list)
       /\ w.list \in Seq(BBs(w))
  <2>1. \A j : j \in 1 .. q + n <=> j \in 1 .. q \/ j \in q + 1 .. q + n
    BY <1>8
  <2>2. \A e : e \in New <=> \E j \in q + 1 .. q + n : w.list[j] = e
    <3>1. ASSUME NEW j \in q + 1 .. q + n PROVE w.list[j] \in New
      BY <1>3, <1>8
    <3>2. ASSUME NEW e \in New PROVE \E j \in q + 1 .. q + n : w.list[j] = e
      <4> DEFINE j == q + (e - l)
      <4>1. j \in q + 1 .. q + n /\ l + (j - q) = e
        BY <1>3, <1>8
      <4> HIDE DEF j
      <4>2. w.list[j] = l + (j - q)
        BY <1>8, <4>1
      <4>3. QED
        BY <4>1, <4>2
    <3>3. QED
      BY <3>1, <3>2
  <2>3. /\ \A e : e \in ToSet(w.list) <=> \E j \in 1 .. q + n : w.list[j] = e
        /\ \A e : e \in ToSet(m.list) <=> \E j \in 1 .. q : m.list[j] = e
    <3>1. ASSUME NEW s, Sequence(s)
          PROVE  \A e : e \in ToSet(s) <=> \E j \in 1 .. Len(s) : s[j] = e
      BY <3>1, SequenceFacts1
    <3> DEFINE s == w.list
               t == m.list
    <3>2. Sequence(s) /\ Sequence(t) /\ Len(s) = q + n /\ Len(t) = q
      BY <1>3, <1>8 DEF q
    <3> HIDE DEF s, t
    <3>3. /\ \A e : e \in ToSet(s) <=> \E j \in 1 .. q + n : s[j] = e
          /\ \A e : e \in ToSet(t) <=> \E j \in 1 .. q : t[j] = e
      BY <3>1, <3>2
    <3>4. QED
      BY <3>3 DEF s, t
  <2>4. \A e : e \in ToSet(w.list) <=> e \in ToSet(m.list) \/ e \in New
    <3>1. \A e : (\E j \in 1 .. q + n : w.list[j] = e)
                 <=> (\E j \in 1 .. q : w.list[j] = e) \/ \E j \in q + 1 .. q + n : w.list[j] = e
      BY <2>1
    <3>2. \A e : (\E j \in 1 .. q : w.list[j] = e) <=> \E j \in 1 .. q : m.list[j] = e
      BY <1>8
    <3>3. QED
      BY <2>2, <2>3, <3>1, <3>2, Zenon
  <2>5. ASSUME NEW j \in 1 .. q + n, NEW k \in 1 .. q + n, w.list[j] = w.list[k] PROVE j = k
    <3>1. \A i \in q + 1 .. q + n : w.list[i] \notin 1 .. l
      BY <1>3, <1>8
    <3>2. CASE j \in 1 .. q /\ k \in 1 .. q
      BY <1>8, <2>5, <3>2 DEF Shape, Distinct, q
    <3>3. CASE j \in q + 1 .. q + n /\ k \in q + 1 .. q + n
      <4>1. l + (j - q) = l + (k - q)
        BY <1>8, <2>5, <3>3
      <4>2. QED
        BY <1>3, <1>8, <4>1, <3>3
    <3>4. QED
      BY <1>8, <2>1, <2>5, <3>1, <3>2, <3>3
  <2>6. \A j \in 1 .. q + n : w.list[j] \in BBs(w)
    BY <1>3, <1>8, <1>9, <2>1, <2>2
  <2>7. w.list \in Seq(BBs(w))
    BY <1>8, <2>6, SequenceTyped
  <2>8. QED
    BY <1>8, <2>4, <2>5, <2>7 DEF Distinct
<1>11. \A b \in BBs(w) : /\ Sequence(w.code[b])
                         /\ w.pre[b] \in Seq(BBs(w)) /\ w.succ[b] \in Seq(BBs(w))
  <2>1. CASE TRUE
    <3>1. \A b \in BBs(m) : /\ Sequence(m.code[b])
                            /\ m.pre[b] \in Seq(BBs(m)) /\ m.succ[b] \in Seq(BBs(m))
      BY DEF Shape
    <3>2. \A s : s \in Seq(BBs(m)) => s \in Seq(BBs(w))
      BY <1>9, SeqMonotonic
    <3>3. <<>> \in Seq(BBs(w)) /\ Sequence(<<>>)
      BY ShortSequences
    <3>4. QED
      BY <1>3, <1>5, <1>6, <1>7, <1>9, <3>1, <3>2, <3>3
  <2>2. QED
    BY <2>1
<1>12. Shape(w)
  BY <1>2, <1>5, <1>6, <1>7, <1>10, <1>11 DEF Shape
<1>13. InList(w) = InList(m) \cup New
  BY <1>10 DEF InList
<1>14. Added(m, w, New)
  BY <1>3, <1>5, <1>6, <1>7, <1>9, <1>12, <1>13 DEF Added
<1>15. QED
  BY <1>5, <1>14 DEF w, l
(* No block that is not listed has edges, and every edge is between blocks. *)
LEMMA EdgesInside ==
  ASSUME NEW m, Shape(m), Edges(m), NEW b \in BBs(m)
  PROVE  /\ TargetsOf(m, b) \subseteq InList(m) \ {entryBB} /\ TargetsOf(m, b) \subseteq BBs(m)
         /\ ToSet(m.succ[b]) = TargetsOf(m, b) /\ Distinct(m.succ[b])
         /\ ToSet(m.pre[b]) = {a \in BBs(m) : b \in TargetsOf(m, a)} /\ Distinct(m.pre[b])
         /\ (m.code[b] = <<>> => TargetsOf(m, b) = {} /\ ~ IsTerminated(m, b))
<1>1. /\ TargetsOf(m, b) \subseteq InList(m) \ {entryBB}
      /\ ToSet(m.succ[b]) = TargetsOf(m, b) /\ Distinct(m.succ[b])
      /\ ToSet(m.pre[b]) = {a \in BBs(m) : b \in TargetsOf(m, a)} /\ Distinct(m.pre[b])
  BY DEF Edges
<1>2. m.code[b] = <<>> => TargetsOf(m, b) = {} /\ ~ IsTerminated(m, b)
  BY DEF TargetsOf, IsTerminated
<1>3. QED
  BY <1>1, <1>2, ListedBlocks

(* New blocks are held, and change nothing else.                           *)
LEMMA AddedUnderWay ==
  ASSUME NEW m, NEW ins, NEW H, UnderWay(m, ins, H), NEW New, NEW w, Added(m, w, New)
  PROVE  /\ UnderWay(w, ins, H \cup New) /\ Carries(m, w, {}, {})
         /\ IsTerminated(w, ins) <=> IsTerminated(m, ins)
<1>1. /\ Shape(m) /\ Placed(m, ins, H) /\ Instructions(m) /\ NoReturn(m)
      /\ Edges(m) /\ Reach(m, H) /\ Leads(m, Goals(m, ins, H))
  BY DEF UnderWay
<1>2. /\ Shape(w) /\ BBs(w) = BBs(m) \cup New /\ BBs(m) \cap New = {}
      /\ InList(w) = InList(m) \cup New
      /\ \A b \in BBs(m) : w.code[b] = m.code[b] /\ w.pre[b] = m.pre[b] /\ w.succ[b] = m.succ[b]
      /\ \A b \in New : w.code[b] = <<>> /\ w.pre[b] = <<>> /\ w.succ[b] = <<>>
  BY DEF Added
<1>3. /\ InList(m) \subseteq BBs(m) /\ ins \in BBs(m) /\ H \subseteq BBs(m) /\ entryBB \in BBs(m)
  BY <1>1, InsertListed, ListedBlocks
<1>4. /\ \A b \in BBs(m) : /\ IsTerminated(w, b) <=> IsTerminated(m, b)
                           /\ TargetsOf(w, b) = TargetsOf(m, b)
      /\ \A b \in New : ~ IsTerminated(w, b) /\ TargetsOf(w, b) = {}
  BY <1>2 DEF IsTerminated, TargetsOf
<1>5. \A b \in BBs(m) : TargetsOf(m, b) \subseteq InList(m) \ {entryBB} /\ TargetsOf(m, b) \subseteq BBs(m)
  BY <1>1, EdgesInside
<1>6. Placed(w, ins, H \cup New)
  <2>1. \A b \in BBs(w) \ InList(w) : b \in BBs(m) \ InList(m)
    BY <1>2
  <2>2. \A b \in H \cup (BBs(m) \ InList(m)) : m.code[b] = <<>>
    BY <1>1 DEF Placed
  <2>3. \A b \in (H \cup New) \cup (BBs(w) \ InList(w)) : w.code[b] = <<>>
    BY <1>2, <1>3, <2>1, <2>2
  <2>4. \A b \in InList(w) \ (H \cup New) : b = ins \/ IsTerminated(w, b)
    BY <1>1, <1>2, <1>3, <1>4 DEF Placed
  <2>5. /\ entryBB \in InList(w) \ (H \cup New) /\ ins \in InList(w) \ (H \cup New)
        /\ H \cup New \subseteq InList(w)
    BY <1>1, <1>2, <1>3 DEF Placed
  <2>6. QED
    BY <2>3, <2>4, <2>5 DEF Placed
<1>7. Instructions(w)
  <2>1. \A b \in New : \A k \in 1 .. Len(w.code[b]) : FALSE
    BY <1>2, ShortSequences
  <2>2. \A b \in New : \A k \in 1 .. Len(w.code[b]) - 1 : FALSE
    BY <1>2, ShortSequences
  <2>3. QED
    BY <1>1, <1>2, <2>1, <2>2 DEF Instructions
<1>8. NoReturn(w)
  BY <1>1, <1>2, <1>4 DEF NoReturn
<1>9. Edges(w)
  <2>1. ASSUME NEW b \in BBs(m)
        PROVE  /\ ToSet(w.succ[b]) = TargetsOf(w, b) /\ Distinct(w.succ[b])
               /\ TargetsOf(w, b) \subseteq InList(w) \ {entryBB}
               /\ ToSet(w.pre[b]) = {a \in BBs(w) : b \in TargetsOf(w, a)} /\ Distinct(w.pre[b])
    <3>1. {a \in BBs(w) : b \in TargetsOf(w, a)} = {a \in BBs(m) : b \in TargetsOf(m, a)}
      BY <1>2, <1>4
    <3>2. QED
      BY <1>1, <1>2, <1>4, <3>1 DEF Edges
  <2>2. ASSUME NEW b \in New
        PROVE  /\ ToSet(w.succ[b]) = TargetsOf(w, b) /\ Distinct(w.succ[b])
               /\ TargetsOf(w, b) \subseteq InList(w) \ {entryBB}
               /\ ToSet(w.pre[b]) = {a \in BBs(w) : b \in TargetsOf(w, a)} /\ Distinct(w.pre[b])
    <3>1. ToSet(<<>>) = {} /\ Distinct(<<>>)
      BY ShortSequences, SequenceFacts1 DEF Distinct
    <3>2. {a \in BBs(w) : b \in TargetsOf(w, a)} = {}
      BY <1>2, <1>4, <1>5
    <3>3. QED
      BY <1>2, <1>4, <3>1, <3>2
  <2>3. QED
    BY <1>2, <2>1, <2>2 DEF Edges
<1>10. ASSUME NEW S \in SUBSET BBs(w)
       PROVE  /\ S \cap BBs(m) \in SUBSET BBs(m)
              /\ ClosedIn(w, S) => ClosedIn(m, S \cap BBs(m))
              /\ Back(w, S) => Back(m, S \cap BBs(m))
  BY <1>2, <1>4, <1>5 DEF ClosedIn, Back
<1>11. Reach(w, H \cup New)
  <2>1. ASSUME NEW S \in SUBSET BBs(w), entryBB \in S, ClosedIn(w, S)
        PROVE  InList(w) \ (H \cup New) \subseteq S
    <3>1. InList(m) \ H \subseteq S \cap BBs(m)
      BY <1>1, <1>3, <1>10, <2>1 DEF Reach
    <3>2. QED
      BY <1>2, <3>1
  <2>2. QED
    BY <2>1 DEF Reach
<1>12. Leads(w, Goals(w, ins, H \cup New))
  <2>1. ASSUME NEW S \in SUBSET BBs(w), Goals(w, ins, H \cup New) \subseteq S, Back(w, S)
        PROVE  InList(w) \subseteq S
    <3>1. Goals(m, ins, H) \subseteq S \cap BBs(m) /\ New \subseteq S
      BY <1>3, <1>4, <2>1 DEF Goals
    <3>2. InList(m) \subseteq S \cap BBs(m)
      BY <1>1, <1>10, <2>1, <3>1 DEF Leads
    <3>3. QED
      BY <1>2, <3>1, <3>2
  <2>2. QED
    BY <2>1 DEF Leads
<1>13. Carries(m, w, {}, {})
  <2>1. ASSUME NEW a, NEW b \in BBs(m), LeadsFrom(m, a, b) PROVE LeadsFrom(w, a, b)
    BY <1>10, <2>1 DEF LeadsFrom
  <2>2. QED
    BY <1>2, <2>1 DEF Carries
<1>14. UnderWay(w, ins, H \cup New)
  BY <1>2, <1>6, <1>7, <1>8, <1>9, <1>11, <1>12 DEF UnderWay
<1>15. QED
  BY <1>3, <1>4, <1>13, <1>14
(* The elements of a list with one more. *)
LEMMA AppendElements ==
  ASSUME NEW s, Sequence(s), NEW e
  PROVE  /\ ToSet(Append(s, e)) = ToSet(s) \cup {e}
         /\ Distinct(s) /\ e \notin ToSet(s) => Distinct(Append(s, e))
<1> DEFINE u == Append(s, e)
<1>1. /\ Sequence(u) /\ Len(u) = Len(s) + 1 /\ Len(s) \in Nat
      /\ \A j \in 1 .. Len(s) : u[j] = s[j]
      /\ u[Len(s) + 1] = e
  BY AppendSequence, SequenceFacts1
<1> HIDE DEF u
<1>2. \A j : j \in 1 .. Len(u) <=> j \in 1 .. Len(s) \/ j = Len(s) + 1
  BY <1>1
<1>3. /\ \A x : x \in ToSet(u) <=> \E j \in 1 .. Len(u) : u[j] = x
      /\ \A x : x \in ToSet(s) <=> \E j \in 1 .. Len(s) : s[j] = x
  BY <1>1, SequenceFacts1
<1>4. \A x : x \in ToSet(u) <=> x \in ToSet(s) \cup {e}
  BY <1>1, <1>2, <1>3
<1>5. ASSUME Distinct(s), e \notin ToSet(s) PROVE Distinct(u)
  <2>1. ASSUME NEW i \in 1 .. Len(u), NEW j \in 1 .. Len(u), u[i] = u[j] PROVE i = j
    <3>1. \A l \in 1 .. Len(s) : s[l] \in ToSet(s)
      BY <1>3
    <3>2. \A l \in 1 .. Len(u) : l \in 1 .. Len(s) \/ l = Len(s) + 1
      BY <1>2
    <3>3. QED
      BY <1>1, <1>5, <2>1, <3>1, <3>2 DEF Distinct
  <2>2. QED
    BY <2>1 DEF Distinct
<1>6. ToSet(u) = ToSet(s) \cup {e}
  BY <1>4
<1>7. QED
  BY <1>5, <1>6 DEF u

(* n is e with the edges from b to the blocks in T. *)
Linked(e, n, b, T) ==
  /\ Shape(n) /\ n.code = e.code /\ n.list = e.list
  /\ e.succ[b] = <<>> => ToSet(n.succ[b]) = T /\ Distinct(n.succ[b])
  /\ \A x \in BBs(e) \ {b} : n.succ[x] = e.succ[x]
  /\ \A x \in T : n.pre[x] = Append(e.pre[x], b)
  /\ \A x \in BBs(e) \ T : n.pre[x] = e.pre[x]

(* A terminator and its edges: what is reached and what leads on stays so. *)
LEMMA LinkedUnderWay ==
  ASSUME NEW m, NEW ins, NEW H, UnderWay(m, ins, H), ~ IsTerminated(m, ins),
         NEW i, i.op \in {"br", "condbr"}, NEW e, Emitted(m, e, ins, i),
         NEW T, TargetsOf(e, ins) = T, T \subseteq InList(m) \ {entryBB},
         NEW n, Linked(e, n, ins, T),
         NEW t \in T, NEW h \in H, LeadsFrom(m, t, h)
  PROVE  /\ UnderWay(n, ins, H) /\ IsTerminated(n, ins) /\ Carries(m, n, T, {})
         /\ \A x \in T : n.pre[x] # <<>> /\ \A a : LeadsFrom(m, a, ins) => LeadsFrom(n, a, x)
<1>1. /\ Shape(m) /\ Placed(m, ins, H) /\ Instructions(m) /\ NoReturn(m)
      /\ Edges(m) /\ Reach(m, H) /\ Leads(m, Goals(m, ins, H))
  BY DEF UnderWay
<1>2. /\ InList(m) \subseteq BBs(m) /\ ins \in BBs(m) /\ H \subseteq BBs(m) /\ entryBB \in BBs(m)
      /\ ins \notin H /\ T \subseteq BBs(m)
  BY <1>1, InsertListed, ListedBlocks
<1>3. /\ BBs(e) = BBs(m) /\ e.list = m.list /\ e.pre = m.pre /\ e.succ = m.succ
      /\ IsTerminated(e, ins)
  BY DEF Emitted, Terminators
<1>4. /\ Placed(e, ins, H) /\ Instructions(e) /\ NoReturn(e)
      /\ \A b \in BBs(m) \ {ins} : /\ IsTerminated(e, b) <=> IsTerminated(m, b)
                                   /\ TargetsOf(e, b) = TargetsOf(m, b)
  <2>1. i.op # "ret" /\ i.op # "alloca"
    OBVIOUS
  <2>2. QED
    BY <2>1, EmitKeeps
<1>5. Shape(n) /\ n.code = e.code /\ n.list = e.list
  BY DEF Linked
<1>6. /\ BBs(n) = BBs(m) /\ InList(n) = InList(m)
      /\ \A b : /\ IsTerminated(n, b) <=> IsTerminated(e, b)
                /\ TargetsOf(n, b) = TargetsOf(e, b)
  BY <1>3, <1>5 DEF BBs, InList, IsTerminated, TargetsOf
<1>7. Placed(n, ins, H) /\ Instructions(n) /\ NoReturn(n)
  <2>1. Placed(n, ins, H)
    BY <1>3, <1>4, <1>5, <1>6 DEF Placed, InList
  <2>2. Instructions(n)
    BY <1>3, <1>4, <1>5, <1>6 DEF Instructions
  <2>3. NoReturn(n)
    BY <1>3, <1>4, <1>5, <1>6 DEF NoReturn
  <2>4. QED
    BY <2>1, <2>2, <2>3
<1>8. TargetsOf(m, ins) = {} /\ m.succ[ins] = <<>>
  <2>1. TargetsOf(m, ins) = {}
    BY DEF TargetsOf
  <2>2. ToSet(m.succ[ins]) = {} /\ Sequence(m.succ[ins])
    BY <1>1, <1>2, <2>1, EdgesInside, EdgeLists
  <2>3. m.succ[ins] = <<>>
    BY <2>2, SequenceFacts1
  <2>4. QED
    BY <2>1, <2>3
<1>9. /\ \A b \in BBs(m) \ {ins} : TargetsOf(n, b) = TargetsOf(m, b)
      /\ TargetsOf(n, ins) = T
  BY <1>4, <1>6
<1>10. /\ ToSet(n.succ[ins]) = T /\ Distinct(n.succ[ins])
       /\ \A b \in BBs(m) \ {ins} : n.succ[b] = m.succ[b]
       /\ \A b \in T : n.pre[b] = Append(m.pre[b], ins)
       /\ \A b \in BBs(m) \ T : n.pre[b] = m.pre[b]
  BY <1>3, <1>8 DEF Linked
<1>11. \A b \in BBs(m) : /\ TargetsOf(m, b) \subseteq InList(m) \ {entryBB}
                         /\ ToSet(m.succ[b]) = TargetsOf(m, b) /\ Distinct(m.succ[b])
                         /\ ToSet(m.pre[b]) = {a \in BBs(m) : b \in TargetsOf(m, a)}
                         /\ Distinct(m.pre[b]) /\ Sequence(m.pre[b])
  BY <1>1, EdgesInside, EdgeLists
<1>12. ASSUME NEW b \in BBs(m)
       PROVE  /\ ToSet(n.succ[b]) = TargetsOf(n, b) /\ Distinct(n.succ[b])
              /\ TargetsOf(n, b) \subseteq InList(n) \ {entryBB}
  BY <1>6, <1>9, <1>10, <1>11
<1>13. ASSUME NEW b \in BBs(m)
       PROVE  ToSet(n.pre[b]) = {a \in BBs(n) : b \in TargetsOf(n, a)} /\ Distinct(n.pre[b])
  <2>1. CASE b \in T
    <3>1. {a \in BBs(n) : b \in TargetsOf(n, a)} = {a \in BBs(m) : b \in TargetsOf(m, a)} \cup {ins}
      BY <1>2, <1>6, <1>8, <1>9, <2>1
    <3>2. ins \notin ToSet(m.pre[b]) /\ Distinct(m.pre[b]) /\ Sequence(m.pre[b])
      BY <1>8, <1>11
    <3>3. ToSet(n.pre[b]) = ToSet(m.pre[b]) \cup {ins} /\ Distinct(n.pre[b])
      <4> DEFINE s == m.pre[b]
      <4>1. n.pre[b] = Append(s, ins)
        BY <1>10, <2>1
      <4>2. ins \notin ToSet(s) /\ Distinct(s) /\ Sequence(s)
        BY <3>2
      <4> HIDE DEF s
      <4>3. ToSet(Append(s, ins)) = ToSet(s) \cup {ins} /\ Distinct(Append(s, ins))
        BY <4>2, AppendElements
      <4>4. QED
        BY <4>1, <4>3 DEF s
    <3>4. QED
      BY <1>11, <3>1, <3>3
  <2>2. CASE b \notin T
    <3>1. {a \in BBs(n) : b \in TargetsOf(n, a)} = {a \in BBs(m) : b \in TargetsOf(m, a)}
      BY <1>2, <1>6, <1>8, <1>9, <2>2
    <3>2. QED
      BY <1>10, <1>11, <2>2, <3>1
  <2>3. QED
    BY <2>1, <2>2
<1>14. Edges(n)
  BY <1>6, <1>12, <1>13 DEF Edges
<1>15. ASSUME NEW S \in SUBSET BBs(m)
       PROVE  /\ ClosedIn(n, S) => ClosedIn(m, S)
              /\ Back(n, S) => Back(m, S) /\ (T \cap S # {} => ins \in S)
  <2>1. ASSUME ClosedIn(n, S), NEW b \in S PROVE TargetsOf(m, b) \subseteq S
    BY <1>8, <1>9, <2>1 DEF ClosedIn
  <2>2. ASSUME Back(n, S), NEW b \in BBs(m), TargetsOf(m, b) \cap S # {} PROVE b \in S
    BY <1>6, <1>8, <1>9, <2>2 DEF Back
  <2>3. ASSUME Back(n, S), T \cap S # {} PROVE ins \in S
    BY <1>2, <1>6, <1>9, <2>3 DEF Back
  <2>4. QED
    BY <2>1, <2>2, <2>3 DEF ClosedIn, Back
<1>16. Reach(n, H)
  BY <1>1, <1>6, <1>15 DEF Reach
<1>17. ASSUME NEW S \in SUBSET BBs(m), Goals(n, ins, H) \subseteq S, Back(n, S)
       PROVE  InList(n) \subseteq S
  <2>1. H \subseteq S /\ Back(m, S) /\ (T \cap S # {} => ins \in S)
    BY <1>15, <1>17 DEF Goals
  <2>2. t \in S
    BY <2>1 DEF LeadsFrom
  <2>3. Goals(m, ins, H) \subseteq S
    BY <2>1, <2>2 DEF Goals
  <2>4. QED
    BY <1>1, <1>6, <2>1, <2>3 DEF Leads
<1>18. Leads(n, Goals(n, ins, H))
  BY <1>6, <1>17 DEF Leads
<1>19. UnderWay(n, ins, H)
  BY <1>5, <1>7, <1>14, <1>16, <1>18 DEF UnderWay
<1>20. ASSUME NEW a, NEW b, LeadsFrom(m, a, b) PROVE LeadsFrom(n, a, b)
  BY <1>6, <1>15, <1>20 DEF LeadsFrom
<1>21. ASSUME NEW x \in T
       PROVE  n.pre[x] # <<>> /\ \A a : LeadsFrom(m, a, ins) => LeadsFrom(n, a, x)
  <2>1. n.pre[x] # <<>>
    BY <1>2, <1>10, <1>11, AppendSequence
  <2>2. ASSUME NEW a, LeadsFrom(m, a, ins) PROVE LeadsFrom(n, a, x)
    <3>1. ASSUME NEW S \in SUBSET BBs(m), x \in S, Back(n, S) PROVE a \in S
      BY <1>15, <2>2, <3>1 DEF LeadsFrom
    <3>2. QED
      BY <1>6, <3>1 DEF LeadsFrom
  <2>3. QED
    BY <2>1, <2>2
<1>22. Carries(m, n, T, {})
  <2>1. ASSUME NEW b \in BBs(m)
        PROVE  /\ m.pre[b] # <<>> => n.pre[b] # <<>>
               /\ b \notin T /\ m.pre[b] = <<>> => n.pre[b] = <<>>
    BY <1>10, <1>21
  <2>2. QED
    BY <1>6, <1>20, <2>1 DEF Carries
<1>23. QED
  BY <1>3, <1>6, <1>19, <1>21, <1>22
(* A jump leads to its target. *)
LEMMA BrLinked ==
  ASSUME NEW m, Shape(m), NEW a \in BBs(m), NEW b \in BBs(m), NEW i, i = [op |-> "br", to |-> b]
  PROVE  /\ Emitted(m, Emit(m, a, i), a, i) /\ TargetsOf(Emit(m, a, i), a) = {b}
         /\ Linked(Emit(m, a, i), create_br(m, a, b), a, {b})
<1> DEFINE e == Emit(m, a, i)
           n == create_br(m, a, b)
<1>1. Emitted(m, e, a, i)
  BY EmitFacts
<1>2. n = [e EXCEPT !.pre[b] = Append(@, a), !.succ[a] = Append(@, b)]
  BY DEF create_br
<1> HIDE DEF e, n
<1>3. /\ Shape(e) /\ BBs(e) = BBs(m) /\ Last(e.code[a]) = i /\ IsTerminated(e, a)
  BY <1>1 DEF Emitted, Terminators
<1>4. TargetsOf(e, a) = {b}
  BY <1>3 DEF TargetsOf
<1> DEFINE p == e.pre
           s == e.succ
           p2 == [p EXCEPT ![b] = Append(p[b], a)]
           s2 == [s EXCEPT ![a] = Append(s[a], b)]
<1>5. /\ DOMAIN n = {"code", "pre", "succ", "list"}
      /\ n.code = e.code /\ n.list = e.list /\ n.pre = p2 /\ n.succ = s2
  <2>1. DOMAIN e = {"code", "pre", "succ", "list"}
    BY <1>3 DEF Shape
  <2>2. n = [e EXCEPT !.pre = p2, !.succ = s2]
    BY <1>2
  <2> HIDE DEF p2, s2
  <2>3. QED
    BY <2>1, <2>2
<1>6. /\ Sequence(p) /\ Len(p) = Len(e.code) /\ Sequence(s) /\ Len(s) = Len(e.code)
      /\ a \in 1 .. Len(s) /\ b \in 1 .. Len(p) /\ BBs(e) = 1 .. Len(e.code)
  BY <1>3 DEF Shape, BBs
<1> HIDE DEF p, s
<1>7. /\ Sequence(p2) /\ Len(p2) = Len(p) /\ p2[b] = Append(p[b], a)
      /\ \A x \in 1 .. Len(p) \ {b} : p2[x] = p[x]
  <2>1. Replaced(p2, p, b, Append(p[b], a))
    BY <1>6, ExceptSequence
  <2> HIDE DEF p2
  <2>2. QED
    BY <2>1 DEF Replaced
<1>8. /\ Sequence(s2) /\ Len(s2) = Len(s) /\ s2[a] = Append(s[a], b)
      /\ \A x \in 1 .. Len(s) \ {a} : s2[x] = s[x]
  <2>1. Replaced(s2, s, a, Append(s[a], b))
    BY <1>6, ExceptSequence
  <2> HIDE DEF s2
  <2>2. QED
    BY <2>1 DEF Replaced
<1>9. \A x \in BBs(e) : /\ Sequence(e.code[x])
                        /\ p[x] \in Seq(BBs(e)) /\ s[x] \in Seq(BBs(e))
  BY <1>3 DEF Shape, p, s
<1> HIDE DEF p2, s2
<1>10. BBs(n) = BBs(e)
  BY <1>5 DEF BBs
<1>11. \A x \in BBs(e) : p2[x] \in Seq(BBs(e)) /\ s2[x] \in Seq(BBs(e))
  <2>1. Append(p[b], a) \in Seq(BBs(e)) /\ Append(s[a], b) \in Seq(BBs(e))
    BY <1>3, <1>9
  <2>2. QED
    BY <1>6, <1>7, <1>8, <1>9, <2>1
<1>12. Shape(n)
  BY <1>3, <1>5, <1>6, <1>7, <1>8, <1>9, <1>10, <1>11 DEF Shape
<1>13. s[a] = <<>> => ToSet(n.succ[a]) = {b} /\ Distinct(n.succ[a])
  <2>1. Sequence(<<>>) /\ ToSet(<<>>) = {} /\ Distinct(<<>>)
    BY ShortSequences, SequenceFacts1 DEF Distinct
  <2>2. ASSUME s[a] = <<>> PROVE ToSet(n.succ[a]) = {b} /\ Distinct(n.succ[a])
    <3> DEFINE z == s[a]
    <3>1. Sequence(z) /\ ToSet(z) = {} /\ Distinct(z) /\ n.succ[a] = Append(z, b)
      BY <1>5, <1>8, <2>1, <2>2
    <3> HIDE DEF z
    <3>2. ToSet(Append(z, b)) = {b} /\ Distinct(Append(z, b))
      BY <3>1, AppendElements
    <3>3. QED
      BY <3>1, <3>2
  <2>3. QED
    BY <2>2
<1>14. Linked(e, n, a, {b})
  BY <1>5, <1>6, <1>7, <1>8, <1>12, <1>13 DEF Linked, p, s
<1>15. QED
  BY <1>1, <1>4, <1>14 DEF e, n

(* The predecessors of a block a conditional branch adds. *)
Copies(t, f, b, a) == [k \in 1 .. Cardinality({x \in {1, 2} : <<t, f>>[x] = b}) |-> a]
OneEntry(t, f, b, a, s) ==
  /\ b \in {t, f} => s \o Copies(t, f, b, a) = Append(s, a)
  /\ b \notin {t, f} => s \o Copies(t, f, b, a) = s

(* create_cond_br enters its block in each target once.                    *)
LEMMA BranchEntries ==
  ASSUME NEW t, NEW f, t # f, NEW b, NEW a, NEW s, Sequence(s)
  PROVE  OneEntry(t, f, b, a, s)
<1> DEFINE X == {x \in {1, 2} : <<t, f>>[x] = b}
<1>1. /\ b = t => X = {1}
      /\ b = f => X = {2}
      /\ b \notin {t, f} => X = {}
  OBVIOUS
<1>2. Cardinality({1}) = 1 /\ Cardinality({2}) = 1 /\ Cardinality({}) = 0
  BY FS_Singleton, FS_EmptySet
<1>3. Cardinality(X) = IF b \in {t, f} THEN 1 ELSE 0
  BY <1>1, <1>2
<1> HIDE DEF X
<1>4. [k \in 1 .. 1 |-> a] = <<a>> /\ [k \in 1 .. 0 |-> a] = <<>>
  OBVIOUS
<1>5. s \o <<a>> = Append(s, a) /\ s \o <<>> = s
  <2>1. s \in Seq(ToSet(s) \cup {a})
    BY SeqMonotonic DEF Sequence
  <2>2. s \o <<>> = s
    BY ConcatSequence, ShortSequences
  <2>3. s \o <<a>> = Append(s, a)
    BY <2>1, AppendIsConcat
  <2>4. QED
    BY <2>2, <2>3
<1>6. CASE b \in {t, f}
  <2>1. [k \in 1 .. Cardinality(X) |-> a] = <<a>>
    BY <1>3, <1>4, <1>6
  <2>2. QED
    BY <1>5, <1>6, <2>1 DEF X, Copies, OneEntry
<1>7. CASE b \notin {t, f}
  <2>1. [k \in 1 .. Cardinality(X) |-> a] = <<>>
    BY <1>3, <1>4, <1>7
  <2>2. QED
    BY <1>5, <1>7, <2>1 DEF X, Copies, OneEntry
<1>8. QED
  BY <1>6, <1>7 DEF OneEntry

(* A conditional branch leads to both its targets. *)
LEMMA CondBrLinked ==
  ASSUME NEW m, Shape(m), NEW a \in BBs(m), NEW c, NEW t \in BBs(m), NEW f \in BBs(m), t # f,
         NEW i, i = [op |-> "condbr", cond |-> c, true |-> t, false |-> f]
  PROVE  /\ Emitted(m, Emit(m, a, i), a, i) /\ TargetsOf(Emit(m, a, i), a) = {t, f}
         /\ Linked(Emit(m, a, i), create_cond_br(m, a, c, t, f), a, {t, f})
<1> DEFINE e == Emit(m, a, i)
           n == create_cond_br(m, a, c, t, f)
           p == e.pre
           s == e.succ
           p2 == [b \in DOMAIN p |-> p[b] \o [k \in 1 .. Cardinality({x \in {1, 2} : <<t, f>>[x] = b}) |-> a]]
           s2 == [s EXCEPT ![a] = s[a] \o <<f, t>>]
<1>1. Emitted(m, e, a, i)
  BY EmitFacts
<1>2. n = [e EXCEPT !.succ = s2, !.pre = p2]
  BY DEF create_cond_br
<1>3. Shape(e) /\ BBs(e) = BBs(m) /\ Last(e.code[a]) = i /\ IsTerminated(e, a)
  <2> HIDE DEF e
  <2>1. QED
    BY <1>1 DEF Emitted, Terminators
<1> HIDE DEF e, n
<1>4. TargetsOf(e, a) = {t, f}
  BY <1>3 DEF TargetsOf
<1>5. /\ DOMAIN n = {"code", "pre", "succ", "list"}
      /\ n.code = e.code /\ n.list = e.list /\ n.pre = p2 /\ n.succ = s2
  <2>1. DOMAIN e = {"code", "pre", "succ", "list"}
    BY <1>3 DEF Shape
  <2> HIDE DEF p2, s2
  <2>3. QED
    BY <2>1, <1>2
<1>6. /\ Sequence(p) /\ Len(p) = Len(e.code) /\ Sequence(s) /\ Len(s) = Len(e.code)
      /\ a \in 1 .. Len(s) /\ BBs(e) = 1 .. Len(e.code) /\ DOMAIN p = BBs(e)
      /\ Len(e.code) \in Nat
  <2>1. /\ Sequence(p) /\ Len(p) = Len(e.code) /\ Sequence(s) /\ Len(s) = Len(e.code)
        /\ a \in 1 .. Len(s) /\ BBs(e) = 1 .. Len(e.code)
    BY <1>3 DEF Shape, BBs
  <2> HIDE DEF p, s
  <2>2. DOMAIN p = 1 .. Len(p) /\ Len(p) \in Nat
    BY <2>1, SequenceFacts1
  <2>3. QED
    BY <2>1, <2>2
<1>7. \A x \in BBs(e) : /\ Sequence(e.code[x]) /\ Sequence(p[x]) /\ Sequence(s[x])
                        /\ p[x] \in Seq(BBs(e)) /\ s[x] \in Seq(BBs(e))
  BY <1>3, EdgeLists DEF Shape
<1> HIDE DEF p, s
<1>8. \A x \in BBs(e) : p2[x] = IF x \in {t, f} THEN Append(p[x], a) ELSE p[x]
  <2>1. ASSUME NEW x \in BBs(e)
        PROVE  p2[x] = IF x \in {t, f} THEN Append(p[x], a) ELSE p[x]
    <3>1. p2[x] = p[x] \o Copies(t, f, x, a)
      BY <1>6 DEF Copies
    <3>2. Sequence(p[x])
      BY <1>7
    <3>3. p[x] \o Copies(t, f, x, a) = IF x \in {t, f} THEN Append(p[x], a) ELSE p[x]
      <4>1. OneEntry(t, f, x, a, p[x])
        BY <3>2, BranchEntries
      <4>2. QED
        BY <4>1 DEF OneEntry
    <3>4. QED
      BY <3>1, <3>3
  <2> HIDE DEF p2
  <2>2. QED
    BY <2>1
<1>9. Sequence(p2) /\ Len(p2) = Len(e.code)
  <2>1. DOMAIN p2 = 1 .. Len(e.code)
    BY <1>6
  <2> DEFINE D == {p2[x] : x \in BBs(e)}
  <2>2. p2 \in [1 .. Len(e.code) -> D]
    BY <1>6
  <2> HIDE DEF p2, D
  <2>3. p2 \in Seq(D) /\ Len(p2) = Len(e.code)
    BY <1>6, <2>2
  <2>4. QED
    BY <2>3, TypedSequence
<1>10. /\ Sequence(s2) /\ Len(s2) = Len(s) /\ s2[a] = s[a] \o <<f, t>>
       /\ \A x \in 1 .. Len(s) \ {a} : s2[x] = s[x]
  <2>1. Replaced(s2, s, a, s[a] \o <<f, t>>)
    BY <1>6, ExceptSequence
  <2> HIDE DEF s2
  <2>2. QED
    BY <2>1 DEF Replaced
<1> HIDE DEF p2, s2
<1>11. BBs(n) = BBs(e)
  BY <1>5 DEF BBs
<1>12. \A x \in BBs(e) : p2[x] \in Seq(BBs(e)) /\ s2[x] \in Seq(BBs(e))
  <2>1. \A x \in BBs(e) : Append(p[x], a) \in Seq(BBs(e))
    BY <1>3, <1>7
  <2>2. s[a] \o <<f, t>> \in Seq(BBs(e))
    <3>1. <<f, t>> \in Seq(BBs(e)) /\ s[a] \in Seq(BBs(e))
      BY <1>3, <1>7
    <3>2. QED
      BY <3>1, ConcatProperties
  <2>3. QED
    BY <1>6, <1>7, <1>8, <1>10, <2>1, <2>2
<1>13. Shape(n)
  BY <1>3, <1>5, <1>6, <1>7, <1>9, <1>10, <1>11, <1>12 DEF Shape
<1>14. s[a] = <<>> => ToSet(n.succ[a]) = {t, f} /\ Distinct(n.succ[a])
  <2>1. Sequence(<<f, t>>) /\ ToSet(<<f, t>>) = {f, t} /\ Distinct(<<f, t>>)
    BY ShortSequences DEF Distinct
  <2>2. <<>> \o <<f, t>> = <<f, t>>
    OBVIOUS
  <2>3. QED
    BY <1>5, <1>10, <2>1, <2>2
<1>15. Linked(e, n, a, {t, f})
  BY <1>3, <1>5, <1>6, <1>8, <1>10, <1>13, <1>14 DEF Linked, p, s
<1>16. QED
  BY <1>1, <1>4, <1>15 DEF e, n
(* The block ins of m has got its terminator, whose targets are T. *)
Branched(m, n, ins, H, T) ==
  /\ UnderWay(n, ins, H) /\ IsTerminated(n, ins) /\ Carries(m, n, T, {})
  /\ \A x \in T : n.pre[x] # <<>> /\ \A a : LeadsFrom(m, a, ins) => LeadsFrom(n, a, x)

(* A jump to a block from which a held one is reached. *)
LEMMA Jump ==
  ASSUME NEW m, NEW ins, NEW H, UnderWay(m, ins, H), ~ IsTerminated(m, ins),
         NEW b \in InList(m) \ {entryBB}, NEW h \in H, LeadsFrom(m, b, h)
  PROVE  Branched(m, create_br(m, ins, b), ins, H, {b})
<1> DEFINE i == [op |-> "br", to |-> b]
           e == Emit(m, ins, i)
           n == create_br(m, ins, b)
<1>1. Shape(m) /\ ins \in BBs(m) /\ b \in BBs(m) /\ i.op \in {"br", "condbr"}
  BY InsertListed, ListedBlocks DEF UnderWay
<1>2. Emitted(m, e, ins, i) /\ TargetsOf(e, ins) = {b} /\ Linked(e, n, ins, {b})
  BY <1>1, BrLinked
<1> HIDE DEF i, e, n
<1>3. /\ UnderWay(n, ins, H) /\ IsTerminated(n, ins) /\ Carries(m, n, {b}, {})
      /\ \A x \in {b} : n.pre[x] # <<>> /\ \A a : LeadsFrom(m, a, ins) => LeadsFrom(n, a, x)
  <2> DEFINE T == {b}
  <2>1. /\ TargetsOf(e, ins) = T /\ T \subseteq InList(m) \ {entryBB} /\ Linked(e, n, ins, T)
        /\ b \in T
    BY <1>2
  <2> HIDE DEF T
  <2>2. /\ UnderWay(n, ins, H) /\ IsTerminated(n, ins) /\ Carries(m, n, T, {})
        /\ \A x \in T : n.pre[x] # <<>> /\ \A a : LeadsFrom(m, a, ins) => LeadsFrom(n, a, x)
    BY <1>1, <1>2, <2>1, LinkedUnderWay
  <2>3. QED
    BY <2>2 DEF T
<1>4. QED
  BY <1>3 DEF Branched, n

(* A conditional branch to two held blocks. *)
LEMMA Fork ==
  ASSUME NEW m, NEW ins, NEW H, UnderWay(m, ins, H), ~ IsTerminated(m, ins),
         NEW c, NEW t \in H, NEW f \in H, t # f
  PROVE  Branched(m, create_cond_br(m, ins, c, t, f), ins, H, {t, f})
<1> DEFINE i == [op |-> "condbr", cond |-> c, true |-> t, false |-> f]
           e == Emit(m, ins, i)
           n == create_cond_br(m, ins, c, t, f)
<1>1. /\ Shape(m) /\ ins \in BBs(m) /\ t \in BBs(m) /\ f \in BBs(m) /\ i.op \in {"br", "condbr"}
      /\ H \subseteq InList(m) \ {entryBB}
  BY InsertListed, ListedBlocks DEF UnderWay, Placed
<1>2. Emitted(m, e, ins, i) /\ TargetsOf(e, ins) = {t, f} /\ Linked(e, n, ins, {t, f})
  BY <1>1, CondBrLinked
<1> HIDE DEF i, e, n
<1> DEFINE T == {t, f}
<1>3. /\ TargetsOf(e, ins) = T /\ T \subseteq InList(m) \ {entryBB} /\ Linked(e, n, ins, T)
      /\ t \in T /\ LeadsFrom(m, t, t)
  BY <1>1, <1>2 DEF LeadsFrom
<1> HIDE DEF T
<1>4. /\ UnderWay(n, ins, H) /\ IsTerminated(n, ins) /\ Carries(m, n, T, {})
      /\ \A x \in T : n.pre[x] # <<>> /\ \A a : LeadsFrom(m, a, ins) => LeadsFrom(n, a, x)
  BY <1>1, <1>2, <1>3, LinkedUnderWay
<1>5. QED
  BY <1>4 DEF Branched, n, T

(* A held block that is jumped to is entered, the block before it is done. *)
LEMMA EnterHeld ==
  ASSUME NEW m, NEW ins, NEW H, UnderWay(m, ins, H), IsTerminated(m, ins),
         NEW h \in H, m.pre[h] # <<>>
  PROVE  UnderWay(m, h, H \ {h}) /\ ~ IsTerminated(m, h)
<1>1. /\ Shape(m) /\ Placed(m, ins, H) /\ Edges(m) /\ Reach(m, H) /\ Leads(m, Goals(m, ins, H))
  BY DEF UnderWay
<1>2. InList(m) \subseteq BBs(m) /\ ins \in BBs(m) /\ h \in BBs(m) /\ h \in InList(m)
  BY <1>1, InsertListed, ListedBlocks DEF Placed
<1>3. m.code[h] = <<>> /\ ~ IsTerminated(m, h)
  BY <1>1 DEF Placed, IsTerminated
<1>4. Placed(m, h, H \ {h})
  BY <1>1, <1>2 DEF Placed
<1>5. Reach(m, H \ {h})
  <2>1. ASSUME NEW S \in SUBSET BBs(m), entryBB \in S, ClosedIn(m, S) PROVE h \in S
    <3>1. InList(m) \ H \subseteq S
      BY <1>1, <2>1 DEF Reach
    <3>2. Sequence(m.pre[h]) /\ ToSet(m.pre[h]) = {a \in BBs(m) : h \in TargetsOf(m, a)}
      BY <1>1, <1>2, EdgeLists, EdgesInside
    <3>3. PICK a \in BBs(m) : h \in TargetsOf(m, a)
      BY <3>2, SequenceFacts1
    <3>4. m.code[a] # <<>>
      BY <1>1, <3>3, EdgesInside
    <3>5. a \in InList(m) \ H
      BY <1>1, <3>3, <3>4 DEF Placed
    <3>6. QED
      BY <2>1, <3>1, <3>3, <3>5 DEF ClosedIn
  <2>2. QED
    BY <1>1, <2>1 DEF Reach
<1>6. Goals(m, h, H \ {h}) = Goals(m, ins, H)
  BY <1>3 DEF Goals
<1>7. UnderWay(m, h, H \ {h})
  BY <1>1, <1>4, <1>5, <1>6 DEF UnderWay
<1>8. QED
  BY <1>3, <1>7

(* The builder goes back to a block that is done. *)
LEMMA MoveTo ==
  ASSUME NEW m, NEW ins, NEW H, UnderWay(m, ins, H), IsTerminated(m, ins),
         NEW b \in InList(m) \ H
  PROVE  UnderWay(m, b, H) /\ IsTerminated(m, b)
<1>1. Placed(m, ins, H) /\ IsTerminated(m, b)
  BY DEF UnderWay, Placed
<1>2. Placed(m, b, H) /\ Goals(m, b, H) = Goals(m, ins, H)
  BY <1>1 DEF Placed, Goals
<1>3. QED
  BY <1>1, <1>2 DEF UnderWay

(* A held block that nothing jumps to is taken off the list, and that is   *)
(* all: it has no edges.                                                   *)
LEMMA EraseFacts ==
  ASSUME NEW m, Shape(m), Edges(m), NEW b \in BBs(m), m.code[b] = <<>>, m.pre[b] = <<>>
  PROVE  LET n == erase_from_parent(m, b) IN
         /\ Shape(n) /\ n.code = m.code /\ n.pre = m.pre /\ n.succ = m.succ
         /\ InList(n) = InList(m) \ {b}
<1> DEFINE n == erase_from_parent(m, b)
<1>1. /\ DOMAIN m = {"code", "pre", "succ", "list"} /\ m.list \in Seq(BBs(m)) /\ Distinct(m.list)
      /\ Sequence(m.code) /\ Sequence(m.pre) /\ Sequence(m.succ)
  BY DEF Shape
<1>2. ToSet(m.succ[b]) = {} /\ ToSet(m.pre[b]) = {}
  <2>1. ToSet(m.succ[b]) = {}
    BY EdgesInside
  <2>2. Sequence(<<>>) /\ Len(<<>>) = 0
    BY ShortSequences
  <2>3. ToSet(m.pre[b]) = {}
    BY <2>2, SequenceFacts1
  <2>4. QED
    BY <2>1, <2>3
<1> DEFINE p == m.pre
           s == m.succ
<1>3. /\ [x \in DOMAIN p |-> IF x \in ToSet(m.succ[b]) THEN Without(p[x], b) ELSE p[x]] = p
      /\ [x \in DOMAIN s |-> IF x \in ToSet(m.pre[b]) THEN Without(s[x], b) ELSE s[x]] = s
  <2>1. p \in Seq(ToSet(p)) /\ s \in Seq(ToSet(s))
    BY <1>1 DEF Sequence
  <2> DEFINE A == ToSet(m.succ[b])
             B == ToSet(m.pre[b])
             P == ToSet(p)
             Q == ToSet(s)
  <2>2. A = {} /\ B = {}
    BY <1>2
  <2> HIDE DEF p, s, A, B, P, Q
  <2>3. DOMAIN p = 1 .. Len(p) /\ p \in [DOMAIN p -> P]
    BY <2>1, LenProperties DEF P
  <2>4. DOMAIN s = 1 .. Len(s) /\ s \in [DOMAIN s -> Q]
    BY <2>1, LenProperties DEF Q
  <2>5. [x \in DOMAIN p |-> IF x \in A THEN Without(p[x], b) ELSE p[x]] = p
    BY <2>2, <2>3
  <2>6. [x \in DOMAIN s |-> IF x \in B THEN Without(s[x], b) ELSE s[x]] = s
    BY <2>2, <2>4
  <2>7. QED
    BY <2>5, <2>6 DEF A, B
<1>4. n = [m EXCEPT !.list = Without(@, b),
                    !.pre = [x \in DOMAIN @ |-> IF x \in ToSet(m.succ[b]) THEN Without(@[x], b) ELSE @[x]],
                    !.succ = [x \in DOMAIN @ |-> IF x \in ToSet(m.pre[b]) THEN Without(@[x], b) ELSE @[x]]]
  BY DEF erase_from_parent
<1>5. n = [m EXCEPT !.list = Without(m.list, b), !.pre = p, !.succ = s]
  BY <1>3, <1>4
<1>6. /\ DOMAIN n = {"code", "pre", "succ", "list"}
      /\ n.code = m.code /\ n.pre = m.pre /\ n.succ = m.succ /\ n.list = Without(m.list, b)
  <2> HIDE DEF n
  <2>1. QED
    BY <1>1, <1>5
<1>7. /\ Without(m.list, b) \in Seq(BBs(m)) /\ Distinct(Without(m.list, b))
      /\ ToSet(Without(m.list, b)) = ToSet(m.list) \ {b}
  BY <1>1, WithoutElements
<1> HIDE DEF n, p, s
<1>8. BBs(n) = BBs(m)
  BY <1>6 DEF BBs
<1>9. Shape(n) /\ InList(n) = InList(m) \ {b}
  BY <1>6, <1>7, <1>8 DEF Shape, InList
<1>10. QED
  BY <1>6, <1>9 DEF n

(* A function under construction stays one without such a block.           *)
LEMMA EraseHeld ==
  ASSUME NEW m, NEW ins, NEW H, UnderWay(m, ins, H), NEW b \in H, m.pre[b] = <<>>,
         NEW n, n = erase_from_parent(m, b)
  PROVE  /\ UnderWay(n, ins, H \ {b}) /\ Carries(m, n, {}, {b}) /\ n.pre = m.pre
         /\ \A x : IsTerminated(n, x) <=> IsTerminated(m, x)
<1>1. /\ Shape(m) /\ Placed(m, ins, H) /\ Instructions(m) /\ NoReturn(m)
      /\ Edges(m) /\ Reach(m, H) /\ Leads(m, Goals(m, ins, H))
  BY DEF UnderWay
<1>2. /\ InList(m) \subseteq BBs(m) /\ ins \in BBs(m) /\ b \in BBs(m) /\ m.code[b] = <<>>
  BY <1>1, InsertListed, ListedBlocks DEF Placed
<1>3. /\ Shape(n) /\ n.code = m.code /\ n.pre = m.pre /\ n.succ = m.succ
      /\ InList(n) = InList(m) \ {b}
  BY <1>1, <1>2, EraseFacts
<1>4. /\ BBs(n) = BBs(m)
      /\ \A x : /\ IsTerminated(n, x) <=> IsTerminated(m, x)
                /\ TargetsOf(n, x) = TargetsOf(m, x)
  BY <1>3 DEF BBs, IsTerminated, TargetsOf
<1>5. Placed(n, ins, H \ {b})
  <2>1. \A x \in (H \ {b}) \cup (BBs(n) \ InList(n)) : n.code[x] = <<>>
    BY <1>1, <1>2, <1>3, <1>4 DEF Placed
  <2>2. \A x \in InList(n) \ (H \ {b}) : x = ins \/ IsTerminated(n, x)
    BY <1>1, <1>3, <1>4 DEF Placed
  <2>3. QED
    BY <1>1, <1>3, <2>1, <2>2 DEF Placed
<1>6. Instructions(n) /\ NoReturn(n)
  BY <1>1, <1>3, <1>4 DEF Instructions, NoReturn
<1>7. \A x \in BBs(m) : b \notin TargetsOf(m, x)
  <2>1. ToSet(m.pre[b]) = {a \in BBs(m) : b \in TargetsOf(m, a)}
    BY <1>1, <1>2, EdgesInside
  <2>2. ToSet(<<>>) = {}
    BY ShortSequences, SequenceFacts1
  <2>3. QED
    BY <2>1, <2>2
<1>8. Edges(n)
  <2>1. ASSUME NEW x \in BBs(n)
        PROVE  /\ ToSet(n.succ[x]) = TargetsOf(n, x) /\ Distinct(n.succ[x])
               /\ TargetsOf(n, x) \subseteq InList(n) \ {entryBB}
               /\ ToSet(n.pre[x]) = {a \in BBs(n) : x \in TargetsOf(n, a)} /\ Distinct(n.pre[x])
    <3>1. /\ ToSet(m.succ[x]) = TargetsOf(m, x) /\ Distinct(m.succ[x])
          /\ TargetsOf(m, x) \subseteq InList(m) \ {entryBB}
          /\ ToSet(m.pre[x]) = {a \in BBs(m) : x \in TargetsOf(m, a)} /\ Distinct(m.pre[x])
      BY <1>1, <1>4, EdgesInside
    <3>2. QED
      BY <1>3, <1>4, <1>7, <3>1
  <2>2. QED
    BY <2>1 DEF Edges
<1>9. \A S \in SUBSET BBs(m) : (ClosedIn(n, S) <=> ClosedIn(m, S)) /\ (Back(n, S) <=> Back(m, S))
  BY <1>4 DEF ClosedIn, Back
<1>10. Reach(n, H \ {b})
  BY <1>1, <1>3, <1>4, <1>9 DEF Reach
<1>11. Leads(n, Goals(n, ins, H \ {b}))
  <2>1. ASSUME NEW S \in SUBSET BBs(m), Goals(n, ins, H \ {b}) \subseteq S, Back(m, S)
        PROVE  InList(n) \subseteq S
    <3>1. S \cup {b} \in SUBSET BBs(m) /\ Goals(m, ins, H) \subseteq S \cup {b}
      BY <1>2, <1>4, <2>1 DEF Goals
    <3>2. Back(m, S \cup {b})
      BY <1>7, <2>1 DEF Back
    <3>3. InList(m) \subseteq S \cup {b}
      BY <1>1, <3>1, <3>2 DEF Leads
    <3>4. QED
      BY <1>3, <3>3
  <2>2. QED
    BY <1>4, <1>9, <2>1 DEF Leads
<1>12. UnderWay(n, ins, H \ {b})
  BY <1>3, <1>5, <1>6, <1>8, <1>10, <1>11 DEF UnderWay
<1>13. Carries(m, n, {}, {b})
  <2>1. \A x, y : LeadsFrom(m, x, y) => LeadsFrom(n, x, y)
    BY <1>4, <1>9 DEF LeadsFrom
  <2>2. QED
    BY <1>3, <1>4, <2>1 DEF Carries
<1>14. QED
  BY <1>3, <1>4, <1>12, <1>13
(* VarDef without the initializer. *)
Allocated(m, ins, here, alloca) ==
  LET terminator == IF IsTerminated(m, entryBB) THEN <<Last(m.code[entryBB])>> ELSE <<>>
      m1 == IF terminator = <<>> THEN m ELSE PopBack(m, entryBB)
      m2 == PopBack(Emit(m1, ins, alloca), here)
  IN [m2 EXCEPT !.code[entryBB] = @ \o <<alloca>> \o terminator]

(* Two functions that only differ in the code of one block. *)
OtherCode(m, n, b, c) ==
  /\ DOMAIN n = DOMAIN m /\ n.pre = m.pre /\ n.succ = m.succ /\ n.list = m.list
  /\ Sequence(n.code) /\ Len(n.code) = Len(m.code) /\ n.code[b] = c
  /\ \A x \in BBs(m) \ {b} : n.code[x] = m.code[x]

(* EXCEPT of the code of a block changes nothing else.                     *)
LEMMA WithCode ==
  ASSUME NEW m, Shape(m), NEW b \in BBs(m), NEW c
  PROVE  OtherCode(m, [m EXCEPT !.code[b] = c], b, c)
<1> DEFINE n == [m EXCEPT !.code[b] = c]
           d == m.code
           d2 == [d EXCEPT ![b] = c]
<1>1. DOMAIN m = {"code", "pre", "succ", "list"} /\ Sequence(d) /\ b \in 1 .. Len(d)
  BY DEF Shape, BBs
<1>2. n = [m EXCEPT !.code = d2]
  OBVIOUS
<1>3. /\ DOMAIN n = DOMAIN m /\ n.pre = m.pre /\ n.succ = m.succ /\ n.list = m.list
      /\ n.code = d2
  <2> HIDE DEF n, d2
  <2>1. QED
    BY <1>1, <1>2
<1> HIDE DEF d, n
<1>4. Replaced(d2, d, b, c)
  BY <1>1, ExceptSequence
<1>5. OtherCode(m, n, b, c)
  BY <1>3, <1>4 DEF Replaced, OtherCode, BBs, d
<1>6. QED
  BY <1>5 DEF n

(* A block with other code leaves the lists as they are.                   *)
LEMMA OtherCodeShape ==
  ASSUME NEW m, Shape(m), NEW b \in BBs(m), NEW c, Sequence(c), NEW n, OtherCode(m, n, b, c)
  PROVE  Shape(n) /\ BBs(n) = BBs(m) /\ InList(n) = InList(m)
<1>1. BBs(n) = BBs(m) /\ InList(n) = InList(m)
  BY DEF OtherCode, BBs, InList
<1>2. QED
  BY <1>1 DEF OtherCode, Shape

(* Concatenation with one element and with none.                           *)
LEMMA ConcatOne ==
  ASSUME NEW s, Sequence(s), NEW a
  PROVE  s \o <<a>> = Append(s, a) /\ s \o <<>> = s
<1>1. s \in Seq(ToSet(s) \cup {a})
  BY SeqMonotonic DEF Sequence
<1>2. s \o <<>> = s
  BY ConcatSequence, ShortSequences
<1>3. s \o <<a>> = Append(s, a)
  BY <1>1, AppendIsConcat
<1>4. QED
  BY <1>2, <1>3

(* The alloca is last in the entry block, but for its terminator; in the   *)
(* block being filled nothing is left of it.                               *)
LEMMA AllocatedCode ==
  ASSUME NEW m, NEW ins, NEW H, UnderWay(m, ins, H), ~ IsTerminated(m, ins), NEW i,
         NEW n, n = Allocated(m, ins, ins, i)
  PROVE  LET c == m.code[entryBB] IN
         /\ ins = entryBB => OtherCode(m, n, entryBB, Append(c, i))
         /\ ins # entryBB => /\ c # <<>> /\ Last(c).op \in Terminators /\ Sequence(c)
                             /\ OtherCode(m, n, entryBB, Append(Append(Front(c), i), Last(c)))
<1> DEFINE c == m.code[entryBB]
           term == IF IsTerminated(m, entryBB) THEN <<Last(c)>> ELSE <<>>
           m1 == IF term = <<>> THEN m ELSE PopBack(m, entryBB)
           c1 == IF IsTerminated(m, entryBB) THEN Front(c) ELSE c
           e == Emit(m1, ins, i)
           m2 == PopBack(e, ins)
           c3 == m2.code[entryBB] \o <<i>> \o term
<1>1. Shape(m) /\ ins \in BBs(m) /\ entryBB \in BBs(m)
  BY InsertListed DEF UnderWay
<1>2. Sequence(c)
  BY <1>1, EdgeLists
<1>3. IsTerminated(m, entryBB) => c # <<>> /\ Last(c).op \in Terminators /\ Sequence(Front(c))
  <2>1. IsTerminated(m, entryBB) => c # <<>> /\ Last(c).op \in Terminators
    BY DEF IsTerminated
  <2> HIDE DEF c
  <2>2. c # <<>> => Sequence(Front(c))
    BY <1>2, FrontSequence
  <2>3. QED
    BY <2>1, <2>2
<1>4. term = <<>> <=> ~ IsTerminated(m, entryBB)
  OBVIOUS
<1>5. OtherCode(m, m1, entryBB, c1)
  <2>1. CASE IsTerminated(m, entryBB)
    <3>1. m1 = PopBack(m, entryBB) /\ c1 = Front(c)
      BY <1>4, <2>1
    <3>2. PopBack(m, entryBB) = [m EXCEPT !.code[entryBB] = Front(c)]
      BY <1>3, <2>1 DEF PopBack
    <3> HIDE DEF c, m1, c1
    <3>3. QED
      BY <1>1, <3>1, <3>2, WithCode
  <2>2. CASE ~ IsTerminated(m, entryBB)
    <3>1. m1 = m /\ c1 = c
      BY <1>4, <2>2
    <3>2. OtherCode(m, m, entryBB, c)
      BY <1>1 DEF OtherCode, Shape
    <3> HIDE DEF c, m1, c1
    <3>3. QED
      BY <3>1, <3>2
  <2>3. QED
    BY <2>1, <2>2
<1>6. Sequence(c1)
  BY <1>2, <1>3
<1>7. n = [m2 EXCEPT !.code[entryBB] = c3]
  BY DEF Allocated
<1> HIDE DEF c1, m1
<1>8. Shape(m1) /\ BBs(m1) = BBs(m)
  BY <1>1, <1>5, <1>6, OtherCodeShape
<1>9. Emitted(m1, e, ins, i)
  BY <1>1, <1>8, EmitFacts
<1> HIDE DEF e
<1>10. OtherCode(e, m2, ins, m1.code[ins])
  <2>1. Sequence(m1.code[ins])
    BY <1>1, <1>8, EdgeLists
  <2>2. e.code[ins] = Append(m1.code[ins], i) /\ Shape(e) /\ BBs(e) = BBs(m)
    BY <1>8, <1>9 DEF Emitted
  <2>3. e.code[ins] # <<>> /\ Front(e.code[ins]) = m1.code[ins]
    <3> DEFINE d == m1.code[ins]
    <3> HIDE DEF d
    <3>1. Append(d, i) # <<>> /\ Front(Append(d, i)) = d
      BY <2>1, AppendSequence DEF d
    <3>2. QED
      BY <2>2, <3>1 DEF d
  <2>4. m2 = [e EXCEPT !.code[ins] = m1.code[ins]]
    BY <2>3 DEF PopBack
  <2> HIDE DEF m2
  <2>5. QED
    BY <1>1, <2>2, <2>4, WithCode
<1> HIDE DEF m2
<1>11. /\ Shape(m2) /\ BBs(m2) = BBs(m)
       /\ \A x \in BBs(m) : m2.code[x] = m1.code[x]
       /\ DOMAIN m2 = DOMAIN m /\ m2.pre = m.pre /\ m2.succ = m.succ /\ m2.list = m.list
       /\ Len(m2.code) = Len(m.code)
  <2>1. Sequence(m1.code[ins]) /\ Shape(e) /\ BBs(e) = BBs(m)
    BY <1>1, <1>8, <1>9, EdgeLists DEF Emitted
  <2>2. Shape(m2) /\ BBs(m2) = BBs(m)
    BY <1>1, <1>10, <2>1, OtherCodeShape
  <2>3. \A x \in BBs(m) : m2.code[x] = m1.code[x]
    BY <1>8, <1>9, <1>10, <2>1 DEF OtherCode, Emitted
  <2>4. m2.pre = m.pre /\ m2.succ = m.succ /\ m2.list = m.list /\ DOMAIN m2 = DOMAIN m
    BY <1>1, <1>5, <1>9, <1>10, <2>1 DEF OtherCode, Emitted, Shape
  <2>5. Len(e.code) = Len(m1.code)
    <3>1. Len(e.code) \in Nat /\ Len(m1.code) \in Nat /\ 1 .. Len(e.code) = 1 .. Len(m1.code)
      BY <1>8, <2>1, ListedBlocks DEF BBs
    <3>2. QED
      BY <3>1
  <2>6. Len(m2.code) = Len(m.code)
    BY <1>5, <1>10, <2>5 DEF OtherCode
  <2>7. QED
    BY <2>2, <2>3, <2>4, <2>6
<1>12. OtherCode(m2, n, entryBB, c3)
  <2> HIDE DEF c3
  <2>1. QED
    BY <1>1, <1>7, <1>11, WithCode
<1>13. m2.code[entryBB] = c1
  BY <1>1, <1>5, <1>11 DEF OtherCode
<1>14. OtherCode(m, n, entryBB, c3)
  <2> HIDE DEF c3
  <2>1. \A x \in BBs(m) \ {entryBB} : m2.code[x] = m.code[x]
    BY <1>5, <1>11 DEF OtherCode
  <2>2. QED
    BY <1>11, <1>12, <2>1 DEF OtherCode
<1>15. CASE ins = entryBB
  <2>1. ~ IsTerminated(m, entryBB)
    BY <1>15
  <2>2. c1 = c /\ term = <<>>
    BY <2>1 DEF c1
  <2>3. c3 = (c \o <<i>>) \o <<>>
    BY <1>13, <2>2
  <2> HIDE DEF c3, c, term
  <2>4. c \o <<i>> = Append(c, i) /\ Sequence(Append(c, i))
    BY <1>2, ConcatOne, AppendSequence
  <2>5. c3 = Append(c, i)
    <3> DEFINE d == Append(c, i)
    <3>1. c3 = d \o <<>> /\ Sequence(d)
      BY <2>3, <2>4
    <3> HIDE DEF d
    <3>2. c3 = d
      BY <3>1, ConcatOne
    <3>3. QED
      BY <3>2 DEF d
  <2>6. QED
    BY <1>14, <1>15, <2>5 DEF c
<1>16. CASE ins # entryBB
  <2>1. IsTerminated(m, entryBB)
    BY <1>16 DEF UnderWay, Placed
  <2>2. c1 = Front(c) /\ term = <<Last(c)>>
    BY <2>1 DEF c1
  <2>3. c3 = (c1 \o <<i>>) \o <<Last(c)>>
    BY <1>13, <2>2
  <2> HIDE DEF c3, term
  <2>4. c1 \o <<i>> = Append(c1, i) /\ Sequence(Append(c1, i))
    BY <1>6, ConcatOne, AppendSequence
  <2>5. c3 = Append(Append(c1, i), Last(c))
    <3> DEFINE d == Append(c1, i)
               z == Last(c)
    <3>1. c3 = d \o <<z>> /\ Sequence(d)
      BY <2>3, <2>4
    <3> HIDE DEF d, z
    <3>2. c3 = Append(d, z)
      BY <3>1, ConcatOne
    <3>3. QED
      BY <3>2 DEF d, z
  <2>6. c # <<>> /\ Last(c).op \in Terminators /\ Sequence(c)
    BY <1>2, <1>3, <2>1
  <2>7. QED
    BY <1>14, <1>16, <2>2, <2>5, <2>6
<1>17. QED
  BY <1>15, <1>16
(* A declaration leaves the graph as it is. *)
LEMMA AllocatedUnderWay ==
  ASSUME NEW m, NEW ins, NEW H, UnderWay(m, ins, H), ~ IsTerminated(m, ins),
         NEW i, i.op = "alloca", NEW n, n = Allocated(m, ins, ins, i)
  PROVE  UnderWay(n, ins, H) /\ ~ IsTerminated(n, ins) /\ SameGraph(m, n)
<1> DEFINE c == m.code[entryBB]
           c2 == IF ins = entryBB THEN Append(c, i) ELSE Append(Append(Front(c), i), Last(c))
<1>1. /\ Shape(m) /\ Placed(m, ins, H) /\ Instructions(m) /\ NoReturn(m)
      /\ Edges(m) /\ Reach(m, H) /\ Leads(m, Goals(m, ins, H))
      /\ ins \in BBs(m) /\ entryBB \in BBs(m) /\ Sequence(c)
  BY InsertListed, EdgeLists DEF UnderWay
<1>2. /\ ins = entryBB => OtherCode(m, n, entryBB, Append(c, i))
      /\ ins # entryBB => /\ c # <<>> /\ Last(c).op \in Terminators /\ Sequence(c)
                          /\ OtherCode(m, n, entryBB, Append(Append(Front(c), i), Last(c)))
  BY AllocatedCode
<1>3. i.op \notin Terminators /\ i.op # "ret"
  BY DEF Terminators
<1>4. CASE ins = entryBB
  <2>1. OtherCode(m, n, ins, Append(c, i)) /\ c = m.code[ins]
    BY <1>2, <1>4
  <2> HIDE DEF c
  <2>2. /\ Sequence(Append(c, i)) /\ Last(Append(c, i)) = i /\ Append(c, i) # <<>>
        /\ \A k \in 1 .. Len(c) : Append(c, i)[k] = c[k]
        /\ Len(Append(c, i)) = Len(c) + 1 /\ Append(c, i)[Len(c) + 1] = i
    BY <1>1, AppendSequence
  <2>3. Shape(n) /\ BBs(n) = BBs(m)
    BY <1>1, <2>1, <2>2, OtherCodeShape
  <2> DEFINE d == Append(c, i)
  <2> HIDE DEF d
  <2>4. IsTerminated(n, ins) <=> i.op \in Terminators
    BY <2>1, <2>2 DEF OtherCode, IsTerminated, d
  <2>5. Emitted(m, n, ins, i)
    BY <2>1, <2>2, <2>3, <2>4 DEF OtherCode, Emitted, d
  <2>6. QED
    BY <1>3, <1>4, <2>5, EmitPlain
<1>5. CASE ins # entryBB
  <2> DEFINE f == Front(c)
             l == Last(c)
             g == Append(f, i)
             d == Append(g, l)
  <2>1. OtherCode(m, n, entryBB, d) /\ c # <<>> /\ l.op \in Terminators
    BY <1>2, <1>5
  <2> HIDE DEF c
  <2>2. /\ Sequence(f) /\ Len(f) = Len(c) - 1 /\ Len(c) - 1 \in Nat
        /\ \A k \in 1 .. Len(c) - 1 : f[k] = c[k]
        /\ l = c[Len(c)]
    BY <1>1, <2>1, FrontSequence
  <2> HIDE DEF f, l
  <2>3. /\ Sequence(g) /\ Len(g) = Len(f) + 1 /\ g[Len(f) + 1] = i
        /\ \A k \in 1 .. Len(f) : g[k] = f[k]
    BY <2>2, AppendSequence
  <2> HIDE DEF g
  <2>4. /\ Sequence(d) /\ Len(d) = Len(g) + 1 /\ d[Len(g) + 1] = l
        /\ \A k \in 1 .. Len(g) : d[k] = g[k]
        /\ Last(d) = l /\ d # <<>>
    BY <2>3, AppendSequence
  <2> HIDE DEF d
  <2>5. Len(c) \in Nat
    BY <1>1, SequenceFacts1
  <2>6. /\ Len(d) = Len(c) + 1 /\ d[Len(c)] = i /\ d[Len(c) + 1] = l
        /\ \A k \in 1 .. Len(c) - 1 : d[k] = c[k]
    <3>1. Len(g) = Len(c) /\ Len(f) + 1 = Len(c)
      BY <2>2, <2>3, <2>5
    <3>2. \A k \in 1 .. Len(c) - 1 : k \in 1 .. Len(f) /\ k \in 1 .. Len(g)
      BY <2>2, <2>5, <3>1
    <3>3. Len(c) \in 1 .. Len(g)
      BY <2>2, <2>5, <3>1
    <3>4. QED
      BY <2>2, <2>3, <2>4, <3>1, <3>2, <3>3
  <2>7. Shape(n) /\ BBs(n) = BBs(m) /\ InList(n) = InList(m)
    BY <1>1, <2>1, <2>4, OtherCodeShape
  <2>8. /\ n.pre = m.pre /\ n.succ = m.succ /\ n.list = m.list /\ n.code[entryBB] = d
        /\ \A x \in BBs(m) \ {entryBB} : n.code[x] = m.code[x]
    BY <2>1 DEF OtherCode
  <2>9. IsTerminated(m, entryBB) /\ IsTerminated(n, entryBB) /\ TargetsOf(n, entryBB) = TargetsOf(m, entryBB)
    BY <2>1, <2>4, <2>8 DEF IsTerminated, TargetsOf, l, c
  <2>10. \A x \in BBs(m) : /\ IsTerminated(n, x) <=> IsTerminated(m, x)
                           /\ TargetsOf(n, x) = TargetsOf(m, x)
    <3>1. \A x \in BBs(m) \ {entryBB} : /\ IsTerminated(n, x) <=> IsTerminated(m, x)
                                        /\ TargetsOf(n, x) = TargetsOf(m, x)
      BY <2>8 DEF IsTerminated, TargetsOf
    <3>2. QED
      BY <2>9, <3>1
  <2>11. SameGraph(m, n)
    BY <2>7, <2>8, <2>10 DEF SameGraph
  <2>12. Placed(n, ins, H)
    <3>1. entryBB \notin H \cup (BBs(m) \ InList(m))
      BY <1>1 DEF Placed
    <3>2. \A x \in H \cup (BBs(n) \ InList(n)) : n.code[x] = <<>>
      <4>1. \A x \in H \cup (BBs(m) \ InList(m)) : x \in BBs(m) \ {entryBB} /\ m.code[x] = <<>>
        BY <1>1, <3>1, ListedBlocks DEF Placed
      <4>2. QED
        BY <2>7, <2>8, <4>1
    <3>3. \A x \in InList(n) \ H : x = ins \/ IsTerminated(n, x)
      BY <1>1, <2>7, <2>10, ListedBlocks DEF Placed
    <3>4. QED
      BY <1>1, <2>7, <3>2, <3>3 DEF Placed
  <2>13. Instructions(n)
    <3>1. \A k \in 1 .. Len(d) - 1 : d[k].op \notin Terminators
      <4>1. \A k \in 1 .. Len(c) - 1 : c[k].op \notin Terminators
        BY <1>1 DEF Instructions, c
      <4>2. \A k \in 1 .. Len(d) - 1 : k \in 1 .. Len(c) - 1 \/ k = Len(c)
        BY <2>5, <2>6
      <4>3. QED
        BY <1>3, <2>6, <4>1, <4>2
    <3>2. \A b \in BBs(n) : \A k \in 1 .. Len(n.code[b]) - 1 : n.code[b][k].op \notin Terminators
      BY <1>1, <2>7, <2>8, <3>1 DEF Instructions
    <3>3. QED
      BY <1>1, <2>7, <2>8, <3>2 DEF Instructions
  <2>14. NoReturn(n)
    <3>1. Last(n.code[entryBB]) = Last(m.code[entryBB])
      BY <2>4, <2>8 DEF l, c
    <3>2. QED
      BY <1>1, <2>7, <2>8, <2>10, <3>1 DEF NoReturn
  <2>15. Edges(n) /\ Reach(n, H) /\ Leads(n, Goals(n, ins, H))
    BY <1>1, <2>11, SameGraphKeeps
  <2>16. UnderWay(n, ins, H)
    BY <2>7, <2>12, <2>13, <2>14, <2>15 DEF UnderWay
  <2>17. ~ IsTerminated(n, ins)
    BY <1>1, <2>10
  <2>18. QED
    BY <2>11, <2>16, <2>17
<1>6. QED
  BY <1>4, <1>5
(* The function is finished: every block has its terminator, the one in    *)
(* ret_BB returns, and the others lead there.                              *)
Complete(m) ==
  /\ Shape(m) /\ Placed(m, ret_BB, {}) /\ Instructions(m)
  /\ Edges(m) /\ Reach(m, {}) /\ Leads(m, {ret_BB})
  /\ IsTerminated(m, ret_BB) /\ Last(m.code[ret_BB]).op = "ret"
  /\ \A b \in BBs(m) \ {ret_BB} : IsTerminated(m, b) => Last(m.code[b]).op # "ret"

(* The return at the end of ret_BB completes the function.                 *)
LEMMA EmitReturn ==
  ASSUME NEW m, NEW ins, UnderWay(m, ins, {ret_BB}), IsTerminated(m, ins), m.pre[ret_BB] # <<>>,
         NEW i, i.op = "ret", NEW n, n = Emit(m, ret_BB, i)
  PROVE  Complete(n)
<1>1. UnderWay(m, ret_BB, {}) /\ ~ IsTerminated(m, ret_BB)
  <2>1. UnderWay(m, ret_BB, {ret_BB} \ {ret_BB}) /\ ~ IsTerminated(m, ret_BB)
    BY EnterHeld
  <2>2. {ret_BB} \ {ret_BB} = {}
    OBVIOUS
  <2>3. QED
    BY <2>1, <2>2
<1>2. /\ Shape(m) /\ Placed(m, ret_BB, {}) /\ NoReturn(m) /\ Edges(m) /\ Reach(m, {})
      /\ Leads(m, {ret_BB}) /\ ret_BB \in BBs(m)
  <2>1. Goals(m, ret_BB, {}) = {ret_BB}
    BY <1>1 DEF Goals
  <2>2. QED
    BY <1>1, <2>1, InsertListed DEF UnderWay
<1>3. Emitted(m, n, ret_BB, i)
  BY <1>2, EmitFacts
<1>4. /\ Placed(n, ret_BB, {}) /\ Instructions(n)
      /\ \A b \in BBs(m) \ {ret_BB} : /\ IsTerminated(n, b) <=> IsTerminated(m, b)
                                      /\ TargetsOf(n, b) = TargetsOf(m, b)
  <2>1. i.op = "alloca" => ret_BB = entryBB
    OBVIOUS
  <2>2. QED
    BY <1>1, <1>3, <2>1, EmitKeeps
<1>5. /\ Shape(n) /\ BBs(n) = BBs(m) /\ n.pre = m.pre /\ n.succ = m.succ /\ n.list = m.list
      /\ Last(n.code[ret_BB]) = i /\ IsTerminated(n, ret_BB)
      /\ \A b \in BBs(m) \ {ret_BB} : n.code[b] = m.code[b]
  BY <1>3 DEF Emitted, Terminators
<1>6. \A b \in BBs(m) : TargetsOf(n, b) = TargetsOf(m, b)
  BY <1>1, <1>4, <1>5 DEF TargetsOf
<1>7. InList(n) = InList(m)
  BY <1>5 DEF InList
<1>8. Edges(n)
  BY <1>2, <1>5, <1>6, <1>7 DEF Edges
<1>9. \A S \in SUBSET BBs(m) : (ClosedIn(n, S) <=> ClosedIn(m, S)) /\ (Back(n, S) <=> Back(m, S))
  BY <1>5, <1>6 DEF ClosedIn, Back
<1>10. Reach(n, {}) /\ Leads(n, {ret_BB})
  BY <1>2, <1>5, <1>7, <1>9 DEF Reach, Leads
<1>11. \A b \in BBs(n) \ {ret_BB} : IsTerminated(n, b) => Last(n.code[b]).op # "ret"
  BY <1>2, <1>4, <1>5 DEF NoReturn
<1>12. QED
  BY <1>4, <1>5, <1>8, <1>10, <1>11 DEF Complete

(* A function with an entry block and a return block, both empty. *)
LEMMA FirstBlocks ==
  ASSUME NEW m, m = [code |-> <<>>, pre |-> <<>>, succ |-> <<>>, list |-> <<>>],
         NEW w, w = NewBlocks(m, 2)
  PROVE  /\ UnderWay(w, entryBB, {ret_BB}) /\ ~ IsTerminated(w, entryBB)
         /\ InList(w) = {entryBB, ret_BB} /\ BBs(w) = {entryBB, ret_BB}
<1>1. Sequence(<<>>) /\ Len(<<>>) = 0 /\ ToSet(<<>>) = {} /\ Distinct(<<>>)
  BY ShortSequences, SequenceFacts1 DEF Distinct
<1>2. /\ DOMAIN m = {"code", "pre", "succ", "list"} /\ m.code = <<>> /\ m.pre = <<>>
      /\ m.succ = <<>> /\ m.list = <<>>
  OBVIOUS
<1>3. BBs(m) = {} /\ InList(m) = {}
  BY <1>1, <1>2 DEF BBs, InList
<1>4. Shape(m)
  <2>1. <<>> \in Seq(BBs(m))
    OBVIOUS
  <2>2. QED
    BY <1>1, <1>2, <1>3, <2>1 DEF Shape
<1>5. Added(m, w, {1, 2})
  <2>1. Added(m, NewBlocks(m, 2), Len(m.code) + 1 .. Len(m.code) + 2)
    BY <1>4, NewBlocksFacts
  <2>2. Len(m.code) + 1 .. Len(m.code) + 2 = {1, 2}
    BY <1>1, <1>2
  <2>3. QED
    BY <2>1, <2>2
<1>6. /\ Shape(w) /\ BBs(w) = {1, 2} /\ InList(w) = {1, 2}
      /\ \A b \in {1, 2} : w.code[b] = <<>> /\ w.pre[b] = <<>> /\ w.succ[b] = <<>>
  BY <1>3, <1>5 DEF Added
<1>7. \A b \in {1, 2} : ~ IsTerminated(w, b) /\ TargetsOf(w, b) = {}
  BY <1>6 DEF IsTerminated, TargetsOf
<1>8. entryBB = 1 /\ ret_BB = 2
  BY DEF entryBB, ret_BB
<1>9. Placed(w, entryBB, {ret_BB})
  BY <1>6, <1>7, <1>8 DEF Placed
<1>10. Instructions(w) /\ NoReturn(w)
  BY <1>1, <1>6, <1>7 DEF Instructions, NoReturn
<1>11. Edges(w)
  BY <1>1, <1>6, <1>7 DEF Edges
<1>12. Reach(w, {ret_BB})
  BY <1>6, <1>8 DEF Reach
<1>13. Leads(w, Goals(w, entryBB, {ret_BB}))
  BY <1>6, <1>7, <1>8 DEF Leads, Goals
<1>14. QED
  BY <1>6, <1>7, <1>8, <1>9, <1>10, <1>11, <1>12, <1>13 DEF UnderWay

-----------------------------------------------------------------------------
(***************************************************************************)
(* The visits in progress                                                  *)
(***************************************************************************)
(* What the tasks of the agenda up to one of them leave for those above:   *)
(* the mode says what may stand above, loops and conds are While_Stack and *)
(* Or_Cond_Stack, list the length of cur_basic_block_list; own are the     *)
(* blocks the tasks created, held those they have not entered, spare those *)
(* no block jumps to, fed those one does; of a pair in lead the first      *)
(* leads to the second, and the blocks in from lead to the insert block.   *)
Outside ==
  [mode |-> "start", loops |-> <<>>, conds |-> <<>>, list |-> 1, own |-> {}, held |-> {},
   spare |-> {}, fed |-> {}, lead |-> {}, from |-> {}]

CondTasks == {"ifCond", "whileCond", "and", "or"}
IfTasks == {"ifCond", "ifThen", "ifElse"}
LoopTasks == {"whileCond", "whileBody"}
StmtModes == {"stmt", "stmtvisit", "begin"}
CondModes == {"cond", "condvisit"}
OpenModes == {"stmtvisit", "begin", "cond", "condvisit"}

(* A statement of a loop is visited only while the body of one is.         *)
Statement(f, s) == s \in Stmts \/ (s \in LoopStmts /\ f.loops # <<>>)
NewThree(f, t) ==
  /\ t.bbs[1] # t.bbs[2] /\ t.bbs[1] # t.bbs[3] /\ t.bbs[2] # t.bbs[3]
  /\ t.bbs[1] \notin f.own /\ t.bbs[2] \notin f.own /\ t.bbs[3] \notin f.own

(* The tasks that may stand above f. *)
Fits(f, t) ==
  \/ f.mode = "start" /\ t.task = "endFunc" /\ f = Outside
  \/ f.mode = "stmt" /\ t.task = "visit" /\ Statement(f, t.node)
  \/ f.mode = "cond" /\ t.task = "visit" /\ t.node \in Conds
  \/ /\ f.mode = "stmt" /\ t.task = "body" /\ Statement(f, t.node) /\ t.node.k = "block"
     /\ t.pos \in 1 .. Len(t.node.body) + 1
  \/ /\ f.mode = "stmt" /\ t.task \in IfTasks /\ Statement(f, t.node) /\ t.node.k = "if"
     /\ NewThree(f, t)
  \/ /\ f.mode = "stmt" /\ t.task \in LoopTasks /\ Statement(f, t.node) /\ t.node.k = "while"
     /\ NewThree(f, t)
  \/ /\ f.mode = "cond" /\ t.task \in {"and", "or"} /\ t.node \in Conds /\ t.node.k = t.task
     /\ t.bbs[1] \notin f.own

ModeOf(f, t) ==
  IF t.task = "visit" THEN IF f.mode = "cond" THEN "condvisit" ELSE "stmtvisit"
  ELSE IF t.task = "body" THEN IF t.pos = 1 THEN "begin" ELSE "stmt"
  ELSE IF t.task \in CondTasks THEN "cond" ELSE "stmt"
Alone(t) == t.node.else.k = "none"
CondPair(t) ==
  IF t.task = "whileCond" THEN <<t.bbs[2], t.bbs[3]>>
  ELSE <<t.bbs[1], IF Alone(t) THEN t.bbs[3] ELSE t.bbs[2]>>
CondsOf(f, t) ==
  IF t.task \in {"ifCond", "whileCond"} THEN Append(f.conds, CondPair(t))
  ELSE IF t.task = "or" THEN Append(f.conds, <<Last(f.conds)[1], t.bbs[1]>>) ELSE f.conds
LoopsOf(f, t) == IF t.task \in LoopTasks THEN Append(f.loops, <<t.bbs[1], t.bbs[3]>>) ELSE f.loops
Own(t) ==
  IF t.task = "endFunc" THEN {ret_BB}
  ELSE IF t.task \in {"and", "or"} THEN {t.bbs[1]}
  ELSE IF t.task \in IfTasks \cup LoopTasks THEN {t.bbs[1], t.bbs[2], t.bbs[3]} ELSE {}
Entered(t) ==
  IF t.task \in {"ifThen", "whileCond"} THEN {t.bbs[1]}
  ELSE IF t.task \in {"ifElse", "whileBody"} THEN {t.bbs[1], t.bbs[2]} ELSE {}
Spare(t) == IF t.task \in {"ifCond", "ifThen"} /\ Alone(t) THEN {t.bbs[2]} ELSE {}
Fed(t) ==
  IF t.task = "ifThen" THEN {IF Alone(t) THEN t.bbs[3] ELSE t.bbs[2]}
  ELSE IF t.task = "whileBody" THEN {t.bbs[3]} ELSE {}

Over(f, t) ==
  [mode |-> ModeOf(f, t), loops |-> LoopsOf(f, t), conds |-> CondsOf(f, t),
   list |-> IF t.task = "whileCond" THEN 0 ELSE f.list,
   own |-> f.own \cup Own(t), held |-> f.held \cup (Own(t) \ Entered(t)),
   spare |-> f.spare \cup Spare(t), fed |-> f.fed \cup Fed(t),
   lead |-> IF t.task = "whileBody" THEN f.lead \cup {<<t.bbs[1], t.bbs[3]>>} ELSE f.lead,
   from |-> IF t.task = "whileCond" THEN {t.bbs[1]} ELSE IF f.mode = "cond" THEN f.from ELSE {}]

Good(f) ==
  /\ f.spare \subseteq f.held /\ f.held \subseteq f.own /\ f.fed \subseteq f.own
  /\ \A e \in f.lead : e[2] \in f.own
  /\ f.mode # "start" => ret_BB \in f.held \ f.spare
  /\ f.mode # "cond" => f.mode = "condvisit" \/ f.from = {}
  /\ f.mode \in CondModes => f.conds # <<>>
  /\ f.mode \in StmtModes => f.list = 1
  /\ f.list \in {0, 1}
  /\ Sequence(f.loops)
  /\ \A j \in 1 .. Len(f.loops) :
       LET w == f.loops[j] IN
       /\ w = <<w[1], w[2]>> /\ w[1] \in f.own \ f.held /\ w[2] \in f.held \ f.spare
       /\ f.mode \in StmtModes => w \in f.lead
  /\ Sequence(f.conds)
  /\ \A j \in 1 .. Len(f.conds) :
       LET c == f.conds[j] IN
       c = <<c[1], c[2]>> /\ c[1] \in f.held \ f.spare /\ c[2] \in f.held \ f.spare

(* What stands below a task is left by the tasks below it, up to none.     *)
Stack(s, fr) ==
  /\ Sequence(s) /\ fr[0] = Outside
  /\ \A k \in 1 .. Len(s) : Fits(fr[k - 1], s[k]) /\ fr[k] = Over(fr[k - 1], s[k]) /\ Good(fr[k])
Leaves(s, f) == \E fr : Stack(s, fr) /\ f = fr[Len(s)]

(* What the tasks are promised of the function. *)
Kept(m, f) ==
  /\ f.own \subseteq InList(m) \ {entryBB}
  /\ \A b \in f.spare : m.pre[b] = <<>>
  /\ \A b \in f.fed : m.pre[b] # <<>>
  /\ \A e \in f.lead : LeadsFrom(m, e[1], e[2])
Promises(m, ins, f) == Kept(m, f) /\ \A a \in f.from : LeadsFrom(m, a, ins)

(* Where the builder is: cur_basic_block_list has one block, except while  *)
(* the condition of a loop is visited; a statement is begun in that block, *)
(* which has no terminator.                                                *)
Place(m, ins, cbl, f) ==
  /\ Sequence(cbl) /\ Len(cbl) = f.list /\ \A k \in 1 .. Len(cbl) : cbl[k] \in BBs(m)
  /\ f.mode \in OpenModes => ~ IsTerminated(m, ins)
  /\ f.mode \in StmtModes => IsTerminated(m, ins) \/ cbl = <<ins>>
  /\ IsTerminated(m, ins) /\ f.loops = <<>> => m.pre[ret_BB] # <<>>

(* The state of the builder is what the tasks left. *)
At(m, ins, cbl, ws, os, f) ==
  /\ ws = f.loops /\ os = f.conds
  /\ UnderWay(m, ins, f.held) /\ Promises(m, ins, f) /\ Place(m, ins, cbl, f)

(* The fields of Over(f, t). *)
Fields(f, t, o) ==
  /\ o.mode = ModeOf(f, t) /\ o.loops = LoopsOf(f, t) /\ o.conds = CondsOf(f, t)
  /\ o.list = IF t.task = "whileCond" THEN 0 ELSE f.list
  /\ o.own = f.own \cup Own(t) /\ o.held = f.held \cup (Own(t) \ Entered(t))
  /\ o.spare = f.spare \cup Spare(t) /\ o.fed = f.fed \cup Fed(t)
  /\ o.lead = IF t.task = "whileBody" THEN f.lead \cup {<<t.bbs[1], t.bbs[3]>>} ELSE f.lead
  /\ o.from = IF t.task = "whileCond" THEN {t.bbs[1]} ELSE IF f.mode = "cond" THEN f.from ELSE {}

(* The record Over gives has these fields.                                 *)
LEMMA OverFields ==
  ASSUME NEW f, NEW t
  PROVE  Fields(f, t, Over(f, t))
BY DEF Fields, Over

(* A function that is not begun left nothing.                              *)
LEMMA GoodOutside == Good(Outside)
<1>1. Sequence(<<>>) /\ Len(<<>>) = 0
  BY ShortSequences
<1>2. /\ Outside.mode = "start" /\ Outside.loops = <<>> /\ Outside.conds = <<>> /\ Outside.list = 1
      /\ Outside.own = {} /\ Outside.held = {} /\ Outside.spare = {} /\ Outside.fed = {}
      /\ Outside.lead = {} /\ Outside.from = {}
  BY DEF Outside
<1>3. QED
  BY <1>1, <1>2 DEF Good, StmtModes, CondModes

(* The kinds of tasks there are, and what they stand on.                   *)
Kinds(f, t) ==
  /\ f.mode \in {"start", "stmt", "cond"}
  /\ t.task \in {"endFunc", "visit", "body"} \cup IfTasks \cup LoopTasks \cup {"and", "or"}
  /\ f.mode = "start" <=> t.task = "endFunc"
  /\ f.mode = "cond" => t.task \in {"visit", "and", "or"}
  /\ f.mode = "stmt" => t.task \notin {"and", "or"}
  /\ t.task \in IfTasks \cup LoopTasks => NewThree(f, t)
  /\ t.task \in {"and", "or"} => t.bbs[1] \notin f.own

(* Every task that fits is of one of the kinds.                            *)
LEMMA FitsKinds ==
  ASSUME NEW f, NEW t, Fits(f, t)
  PROVE  Kinds(f, t)
BY DEF Fits, Kinds, IfTasks, LoopTasks

(* The blocks of a task are new to the tasks below it.                     *)
LEMMA OwnNew ==
  ASSUME NEW f, NEW t, Fits(f, t), Good(f)
  PROVE  /\ Own(t) \cap f.own = {}
         /\ Spare(t) \subseteq Own(t) \ Entered(t) /\ Fed(t) \subseteq Own(t)
<1>1. Kinds(f, t)
  BY FitsKinds
<1>2. CASE t.task = "endFunc"
  <2>1. f = Outside
    BY <1>2 DEF Fits, IfTasks, LoopTasks
  <2>2. QED
    BY <1>2, <2>1 DEF Outside, Own, Spare, Fed, Entered
<1>3. CASE t.task \in {"visit", "body"}
  BY <1>3 DEF Own, Spare, Fed, Entered, IfTasks, LoopTasks
<1>4. CASE t.task \in IfTasks
  BY <1>1, <1>4 DEF Kinds, NewThree, Own, Spare, Fed, Entered, IfTasks, LoopTasks
<1>5. CASE t.task \in LoopTasks
  BY <1>1, <1>5 DEF Kinds, NewThree, Own, Spare, Fed, Entered, IfTasks, LoopTasks
<1>6. CASE t.task \in {"and", "or"}
  BY <1>1, <1>6 DEF Kinds, Own, Spare, Fed, Entered, IfTasks, LoopTasks
<1>7. QED
  BY <1>1, <1>2, <1>3, <1>4, <1>5, <1>6 DEF Kinds

(* What one more task leaves is as the tasks above need it.                *)
LEMMA GoodOver ==
  ASSUME NEW f, NEW t, Fits(f, t), Good(f)
  PROVE  Good(Over(f, t))
<1> DEFINE o == Over(f, t)
<1>1. Fields(f, t, o)
  BY OverFields
<1> HIDE DEF o
<1>2. Kinds(f, t)
  BY FitsKinds
<1>3. /\ Own(t) \cap f.own = {}
      /\ Spare(t) \subseteq Own(t) \ Entered(t) /\ Fed(t) \subseteq Own(t)
  BY OwnNew
<1>4. o.spare \subseteq o.held /\ o.held \subseteq o.own /\ o.fed \subseteq o.own
  BY <1>1, <1>3 DEF Fields, Good
<1>5. f.own \ f.held \subseteq o.own \ o.held /\ f.held \ f.spare \subseteq o.held \ o.spare
  BY <1>1, <1>3 DEF Fields, Good
<1>6. \A e \in o.lead : e[2] \in o.own
  <2>1. t.task = "whileBody" => t.bbs[3] \in Own(t)
    BY DEF Own, IfTasks, LoopTasks
  <2>2. QED
    BY <1>1, <2>1 DEF Fields, Good
<1>7. o.mode # "start" => ret_BB \in o.held \ o.spare
  <2>1. CASE f.mode = "start"
    <3>1. t.task = "endFunc"
      BY <1>2, <2>1 DEF Kinds
    <3>2. Own(t) = {ret_BB} /\ Entered(t) = {} /\ Spare(t) = {}
      BY <3>1 DEF Own, Entered, Spare, IfTasks, LoopTasks
    <3>3. f.spare = {}
      BY <3>1 DEF Fits, Outside, IfTasks, LoopTasks
    <3>4. QED
      BY <1>1, <3>2, <3>3 DEF Fields
  <2>2. CASE f.mode # "start"
    BY <1>5, <2>2 DEF Good
  <2>3. QED
    BY <2>1, <2>2
<1>8. o.mode # "cond" => o.mode = "condvisit" \/ o.from = {}
  BY <1>1, <1>2 DEF Fields, ModeOf, CondTasks, Kinds
<1>9. o.list \in {0, 1} /\ (o.mode \in StmtModes => o.list = 1)
  <2>1. o.mode = ModeOf(f, t) /\ o.list = (IF t.task = "whileCond" THEN 0 ELSE f.list)
    BY <1>1 DEF Fields
  <2>2. f.list \in {0, 1} /\ (f.mode \in StmtModes => f.list = 1)
    BY DEF Good
  <2>3. f.mode = "start" => f.list = 1
    BY DEF Fits, Outside
  <2>4. o.mode \in StmtModes => f.mode # "cond" /\ t.task # "whileCond"
    BY <1>2, <2>1 DEF ModeOf, Kinds, StmtModes, CondTasks
  <2>5. QED
    BY <1>2, <2>1, <2>2, <2>3, <2>4 DEF Kinds, StmtModes
<1>10. /\ Sequence(o.loops)
       /\ \A j \in 1 .. Len(o.loops) :
            LET w == o.loops[j] IN
            /\ w = <<w[1], w[2]>> /\ w[1] \in o.own \ o.held /\ w[2] \in o.held \ o.spare
            /\ o.mode \in StmtModes => w \in o.lead
  <2>1. f.lead \subseteq o.lead
    BY <1>1 DEF Fields
  <2>2. CASE t.task \in LoopTasks
    <3> DEFINE e == <<t.bbs[1], t.bbs[3]>>
               s == f.loops
    <3>1. /\ e = <<e[1], e[2]>> /\ e[1] \in o.own \ o.held /\ e[2] \in o.held \ o.spare
          /\ o.mode \in StmtModes => e \in o.lead
      <4>1. e[1] = t.bbs[1] /\ e[2] = t.bbs[3]
        OBVIOUS
      <4>0. e = <<e[1], e[2]>>
        OBVIOUS
      <4>2. e[1] \in Own(t) \cap Entered(t) /\ e[2] \in (Own(t) \ Entered(t)) \ Spare(t)
        BY <1>2, <2>2, <4>1 DEF Kinds, NewThree, Own, Entered, Spare, LoopTasks, IfTasks
      <4>3. o.mode \in StmtModes => t.task = "whileBody"
        <5>1. o.mode = ModeOf(f, t)
          BY <1>1 DEF Fields
        <5>2. QED
          BY <2>2, <5>1 DEF ModeOf, LoopTasks, CondTasks, StmtModes
      <4>4. o.mode \in StmtModes => e \in o.lead
        BY <1>1, <4>3 DEF Fields
      <4> HIDE DEF e
      <4>5. QED
        BY <1>1, <1>3, <4>0, <4>2, <4>4 DEF Fields, Good
    <3>2. o.loops = Append(s, e)
      BY <1>1, <2>2 DEF Fields, LoopsOf
    <3>3. \A j \in 1 .. Len(s) :
            LET w == s[j] IN
            /\ w = <<w[1], w[2]>> /\ w[1] \in o.own \ o.held /\ w[2] \in o.held \ o.spare
            /\ o.mode \in StmtModes => w \in o.lead
      <4>1. f.mode = "stmt"
        BY <1>2, <2>2 DEF Kinds, LoopTasks
      <4>2. QED
        BY <1>5, <2>1, <4>1 DEF Good, StmtModes
    <3>4. Sequence(s)
      BY DEF Good
    <3> HIDE DEF e, s
    <3>5. /\ Sequence(o.loops) /\ Len(o.loops) = Len(s) + 1 /\ Len(s) \in Nat
          /\ o.loops[Len(s) + 1] = e /\ \A j \in 1 .. Len(s) : o.loops[j] = s[j]
      BY <3>2, <3>4, AppendSequence, SequenceFacts1
    <3>6. \A j \in 1 .. Len(o.loops) : j \in 1 .. Len(s) \/ j = Len(s) + 1
      BY <3>5
    <3>7. QED
      BY <3>1, <3>3, <3>5, <3>6
  <2>3. CASE t.task \notin LoopTasks
    <3>1. o.loops = f.loops
      BY <1>1, <2>3 DEF Fields, LoopsOf
    <3>2. CASE f.mode = "start"
      <4>1. f.loops = <<>> /\ Len(<<>>) = 0 /\ Sequence(<<>>)
        BY <3>2, ShortSequences DEF Fits, Outside
      <4>2. QED
        BY <3>1, <4>1
    <3>3. CASE f.mode # "start"
      <4>1. o.mode \in StmtModes => f.mode \in StmtModes
        BY <1>1, <1>2, <3>3 DEF Fields, ModeOf, Kinds, StmtModes, CondTasks
      <4>2. QED
        BY <1>5, <2>1, <3>1, <4>1 DEF Good
    <3>4. QED
      BY <3>2, <3>3
  <2>4. QED
    BY <2>2, <2>3
<1>11. o.mode \in CondModes => o.conds # <<>>
  <2>1. o.mode = ModeOf(f, t) /\ o.conds = CondsOf(f, t) /\ Sequence(f.conds)
    BY <1>1 DEF Fields, Good
  <2>2. CASE t.task \in {"ifCond", "whileCond", "or"}
    <3>1. o.conds = Append(f.conds, CondPair(t)) \/ o.conds = Append(f.conds, <<Last(f.conds)[1], t.bbs[1]>>)
      BY <2>1, <2>2 DEF CondsOf
    <3>2. QED
      BY <2>1, <3>1, AppendSequence
  <2>3. CASE t.task \notin {"ifCond", "whileCond", "or"}
    <3>1. o.conds = f.conds
      BY <2>1, <2>3 DEF CondsOf
    <3>2. o.mode \in CondModes => f.mode = "cond"
      BY <1>2, <2>1, <2>3 DEF ModeOf, CondModes, CondTasks, Kinds
    <3>3. QED
      BY <3>1, <3>2 DEF Good, CondModes
  <2>4. QED
    BY <2>2, <2>3
<1>12. /\ Sequence(o.conds)
       /\ \A j \in 1 .. Len(o.conds) :
            LET c == o.conds[j] IN
            c = <<c[1], c[2]>> /\ c[1] \in o.held \ o.spare /\ c[2] \in o.held \ o.spare
  <2>1. /\ Sequence(f.conds)
        /\ \A j \in 1 .. Len(f.conds) :
             LET c == f.conds[j] IN
             c = <<c[1], c[2]>> /\ c[1] \in o.held \ o.spare /\ c[2] \in o.held \ o.spare
    BY <1>5 DEF Good
  <2>2. CASE t.task \in {"ifCond", "whileCond", "or"}
    <3> DEFINE e == IF t.task = "or" THEN <<Last(f.conds)[1], t.bbs[1]>> ELSE CondPair(t)
               s == f.conds
    <3>1. o.conds = Append(s, e)
      BY <1>1, <2>2 DEF Fields, CondsOf
    <3>2. e = <<e[1], e[2]>> /\ e[1] \in o.held \ o.spare /\ e[2] \in o.held \ o.spare
      <4>1. (Own(t) \ Entered(t)) \ Spare(t) \subseteq o.held \ o.spare
        BY <1>1, <1>3 DEF Fields, Good
      <4>2. CASE t.task = "or"
        <5>1. f.mode = "cond"
          BY <1>2, <4>2 DEF Kinds
        <5>2. f.conds # <<>>
          BY <5>1 DEF Good, CondModes
        <5>3. Last(f.conds) = f.conds[Len(f.conds)] /\ Len(f.conds) \in 1 .. Len(f.conds)
          BY <2>1, <5>2, FrontSequence, SequenceFacts1
        <5>4. Last(f.conds)[1] \in o.held \ o.spare
          BY <2>1, <5>3
        <5>5. t.bbs[1] \in (Own(t) \ Entered(t)) \ Spare(t)
          BY <4>2 DEF Own, Entered, Spare
        <5>6. e[1] = Last(f.conds)[1] /\ e[2] = t.bbs[1] /\ e = <<e[1], e[2]>>
          BY <4>2
        <5> HIDE DEF e
        <5>7. QED
          BY <4>1, <5>4, <5>5, <5>6
      <4>3. CASE t.task \in {"ifCond", "whileCond"}
        <5>1. e = CondPair(t)
          BY <4>3
        <5>2. NewThree(f, t)
          BY <1>2, <4>3 DEF Kinds, IfTasks, LoopTasks
        <5>3. e = <<e[1], e[2]>>
          BY <5>1 DEF CondPair
        <5> HIDE DEF e
        <5>4. e[1] \in (Own(t) \ Entered(t)) \ Spare(t) /\ e[2] \in (Own(t) \ Entered(t)) \ Spare(t)
          BY <4>3, <5>1, <5>2 DEF CondPair, NewThree, Own, Entered, Spare, IfTasks, LoopTasks
        <5>5. QED
          BY <4>1, <5>3, <5>4
      <4>4. QED
        BY <2>2, <4>2, <4>3
    <3> HIDE DEF e
    <3>3. /\ Sequence(o.conds) /\ Len(o.conds) = Len(s) + 1 /\ Len(s) \in Nat
          /\ o.conds[Len(s) + 1] = e /\ \A j \in 1 .. Len(s) : o.conds[j] = s[j]
      BY <2>1, <3>1, AppendSequence, SequenceFacts1
    <3>4. \A j \in 1 .. Len(o.conds) : j \in 1 .. Len(s) \/ j = Len(s) + 1
      BY <3>3
    <3>5. QED
      BY <2>1, <3>2, <3>3, <3>4
  <2>3. CASE t.task \notin {"ifCond", "whileCond", "or"}
    <3>1. o.conds = f.conds
      BY <1>1, <2>3 DEF Fields, CondsOf
    <3>2. QED
      BY <2>1, <3>1
  <2>4. QED
    BY <2>2, <2>3
<1>13. Good(o)
  BY <1>4, <1>6, <1>7, <1>8, <1>9, <1>10, <1>11, <1>12 DEF Good
<1>14. QED
  BY <1>13 DEF o

(* What tasks leave is as the tasks above need it.                         *)
LEMMA LeavesGood ==
  ASSUME NEW s, NEW f, Leaves(s, f)
  PROVE  Sequence(s) /\ Good(f) /\ (s = <<>> => f = Outside)
<1>1. PICK fr : Stack(s, fr) /\ f = fr[Len(s)]
  BY DEF Leaves
<1>2. Sequence(s) /\ fr[0] = Outside /\ \A k \in 1 .. Len(s) : Good(fr[k])
  BY <1>1 DEF Stack
<1>3. Len(s) \in Nat /\ (s = <<>> <=> Len(s) = 0) /\ (s # <<>> => Len(s) \in 1 .. Len(s))
  BY <1>2, SequenceFacts1
<1>4. CASE s = <<>>
  BY <1>1, <1>2, <1>3, <1>4, GoodOutside
<1>5. CASE s # <<>>
  BY <1>1, <1>2, <1>3, <1>5
<1>6. QED
  BY <1>4, <1>5

(* No tasks leave nothing.                                                 *)
LEMMA LeavesNothing == Leaves(<<>>, Outside)
<1> DEFINE fr == [k \in {0} |-> Outside]
<1>1. Sequence(<<>>) /\ Len(<<>>) = 0
  BY ShortSequences
<1>2. fr[0] = Outside
  OBVIOUS
<1> HIDE DEF fr
<1>3. Stack(<<>>, fr)
  BY <1>1, <1>2 DEF Stack
<1>4. QED
  BY <1>1, <1>2, <1>3 DEF Leaves

(* One more task on the stack.                                             *)
LEMMA LeavesMore ==
  ASSUME NEW s, NEW f, Leaves(s, f), NEW t, Fits(f, t)
  PROVE  Leaves(Append(s, t), Over(f, t))
<1> DEFINE n == Len(s)
           r == Append(s, t)
<1>1. PICK fr : Stack(s, fr) /\ f = fr[n]
  BY DEF Leaves
<1>2. Sequence(s) /\ n \in Nat
  BY <1>1, SequenceFacts1 DEF Stack
<1>3. Sequence(r) /\ Len(r) = n + 1 /\ r[n + 1] = t /\ \A k \in 1 .. n : r[k] = s[k]
  BY <1>2, AppendSequence
<1>4. Good(Over(f, t))
  BY GoodOver, LeavesGood
<1> DEFINE o == Over(f, t)
           gr == [k \in 0 .. n + 1 |-> IF k = n + 1 THEN o ELSE fr[k]]
<1> HIDE DEF n, r, o
<1>5. gr[n + 1] = o /\ \A k \in 0 .. n : gr[k] = fr[k]
  BY <1>2
<1> HIDE DEF gr
<1>6. ASSUME NEW k \in 1 .. n + 1
      PROVE  Fits(gr[k - 1], r[k]) /\ gr[k] = Over(gr[k - 1], r[k]) /\ Good(gr[k])
  <2>1. CASE k = n + 1
    <3>1. k - 1 = n /\ n \in 0 .. n
      BY <1>2, <2>1
    <3>2. gr[k - 1] = f /\ r[k] = t /\ gr[k] = o
      BY <1>1, <1>3, <1>5, <2>1, <3>1
    <3>3. QED
      BY <1>4, <3>2 DEF o
  <2>2. CASE k # n + 1
    <3>1. k \in 1 .. n /\ k - 1 \in 0 .. n /\ k \in 0 .. n
      BY <1>2, <2>2
    <3>2. gr[k - 1] = fr[k - 1] /\ gr[k] = fr[k] /\ r[k] = s[k]
      BY <1>3, <1>5, <3>1
    <3>3. Fits(fr[k - 1], s[k]) /\ fr[k] = Over(fr[k - 1], s[k]) /\ Good(fr[k])
      BY <1>1, <3>1 DEF Stack, n
    <3>4. QED
      BY <3>2, <3>3
  <2>3. QED
    BY <2>1, <2>2
<1>7. gr[0] = Outside
  BY <1>1, <1>2, <1>5 DEF Stack
<1>8. Stack(r, gr)
  BY <1>3, <1>6, <1>7 DEF Stack
<1>9. QED
  BY <1>3, <1>5, <1>8 DEF Leaves, r, o

(* One task less.                                                          *)
LEMMA LeavesFewer ==
  ASSUME NEW s, NEW f, Leaves(s, f), s # <<>>
  PROVE  \E g : /\ Leaves(Front(s), g) /\ Fits(g, Last(s)) /\ f = Over(g, Last(s))
                /\ Good(g) /\ Good(f)
<1> DEFINE n == Len(s)
           r == Front(s)
           g == n - 1
<1>1. PICK fr : Stack(s, fr) /\ f = fr[n]
  BY DEF Leaves
<1>2. Sequence(s) /\ n \in Nat /\ n \in 1 .. n
  BY <1>1, SequenceFacts1 DEF Stack
<1>3. Sequence(r) /\ Len(r) = n - 1 /\ Last(s) = s[n] /\ n - 1 \in Nat /\ \A k \in 1 .. n - 1 : r[k] = s[k]
  BY <1>2, FrontSequence
<1>4. \A k \in 1 .. n : Fits(fr[k - 1], s[k]) /\ fr[k] = Over(fr[k - 1], s[k]) /\ Good(fr[k])
  BY <1>1 DEF Stack
<1>5. Stack(r, fr)
  <2>1. fr[0] = Outside
    BY <1>1 DEF Stack
  <2>2. \A k \in 1 .. n - 1 : k \in 1 .. n
    BY <1>2
  <2> HIDE DEF n, r
  <2>3. \A k \in 1 .. Len(r) : Fits(fr[k - 1], r[k]) /\ fr[k] = Over(fr[k - 1], r[k]) /\ Good(fr[k])
    BY <1>3, <1>4, <2>2
  <2>4. QED
    BY <1>3, <2>1, <2>3 DEF Stack
<1>6. Leaves(r, fr[n - 1])
  BY <1>3, <1>5 DEF Leaves
<1>7. Fits(fr[n - 1], s[n]) /\ f = Over(fr[n - 1], s[n]) /\ Good(f)
  BY <1>1, <1>2, <1>4
<1>8. Good(fr[n - 1])
  BY <1>6, LeavesGood
<1> HIDE DEF r, n
<1>9. QED
  BY <1>3, <1>6, <1>7, <1>8 DEF r

(* There is nothing below the task that finishes the function.             *)
LEMMA NoneBelow ==
  ASSUME NEW s, Leaves(s, Outside)
  PROVE  s = <<>>
<1>1. CASE s # <<>>
  <2>1. PICK g : Fits(g, Last(s)) /\ Outside = Over(g, Last(s))
    BY <1>1, LeavesFewer
  <2>2. Outside.mode = ModeOf(g, Last(s))
    BY <2>1, OverFields DEF Fields
  <2>3. Outside.mode = "start"
    BY DEF Outside
  <2>4. QED
    BY <2>2, <2>3 DEF ModeOf
<1>2. QED
  BY <1>1

-----------------------------------------------------------------------------
(***************************************************************************)
(* What a step keeps of the promises                                       *)
(***************************************************************************)
LEMMA KeptCarries ==
  ASSUME NEW m, NEW n, NEW f, NEW T, NEW R, Shape(m), Good(f), Kept(m, f), Carries(m, n, T, R),
         T \cap f.spare = {}, R \cap f.own = {}
  PROVE  Kept(n, f)
<1>1. InList(m) \subseteq BBs(m)
  BY ListedBlocks
<1>2. /\ f.spare \subseteq f.own /\ f.fed \subseteq f.own /\ f.own \subseteq InList(m) \ {entryBB}
      /\ \A e \in f.lead : e[2] \in f.own
  BY DEF Good, Kept
<1>3. f.own \subseteq InList(n) \ {entryBB}
  BY <1>2 DEF Carries
<1>4. \A b \in f.spare : n.pre[b] = <<>>
  <2>1. \A b \in f.spare : b \in BBs(m) /\ b \notin T /\ m.pre[b] = <<>>
    BY <1>1, <1>2 DEF Kept
  <2>2. QED
    BY <2>1 DEF Carries
<1>5. \A b \in f.fed : n.pre[b] # <<>>
  BY <1>1, <1>2 DEF Kept, Carries
<1>6. \A e \in f.lead : LeadsFrom(n, e[1], e[2])
  <2>1. \A e \in f.lead : e[2] \in BBs(m) /\ LeadsFrom(m, e[1], e[2])
    BY <1>1, <1>2 DEF Kept
  <2>2. \A a, b : b \in BBs(m) /\ LeadsFrom(m, a, b) => LeadsFrom(n, a, b)
    BY DEF Carries
  <2>3. QED
    BY <2>1, <2>2
<1>7. QED
  BY <1>3, <1>4, <1>5, <1>6 DEF Kept

(* What a task leaves is at least what those below it left.                *)
LEMMA KeptBelow ==
  ASSUME NEW m, NEW f, NEW t, Kept(m, Over(f, t))
  PROVE  Kept(m, f)
<1>1. Fields(f, t, Over(f, t))
  BY OverFields
<1> DEFINE o == Over(f, t)
<1> HIDE DEF o
<1>2. f.own \subseteq o.own /\ f.spare \subseteq o.spare /\ f.fed \subseteq o.fed /\ f.lead \subseteq o.lead
  BY <1>1 DEF Fields, o
<1>3. Kept(m, o)
  BY DEF o
<1>4. QED
  BY <1>2, <1>3 DEF Kept

(* The blocks of the tasks and the insert block are in the list.           *)
LEMMA AtFacts ==
  ASSUME NEW m, NEW ins, NEW cbl, NEW ws, NEW os, NEW f, Good(f), At(m, ins, cbl, ws, os, f)
  PROVE  /\ Shape(m) /\ Edges(m) /\ UnderWay(m, ins, f.held) /\ Kept(m, f)
         /\ ins \in InList(m) \ f.held /\ ins \in BBs(m) /\ entryBB \in BBs(m)
         /\ f.own \subseteq InList(m) \ {entryBB} /\ f.own \subseteq BBs(m) /\ InList(m) \subseteq BBs(m)
         /\ f.held \subseteq f.own
         /\ ws = f.loops /\ os = f.conds
<1>1. /\ UnderWay(m, ins, f.held) /\ Shape(m) /\ Placed(m, ins, f.held) /\ Edges(m)
      /\ Kept(m, f) /\ ws = f.loops /\ os = f.conds
  BY DEF At, UnderWay, Promises
<1>2. ins \in InList(m) \ f.held /\ ins \in BBs(m) /\ entryBB \in BBs(m) /\ InList(m) \subseteq BBs(m)
  BY <1>1, InsertListed, ListedBlocks
<1>3. f.own \subseteq InList(m) \ {entryBB} /\ f.held \subseteq f.own
  BY <1>1 DEF Kept, Good
<1>4. QED
  BY <1>1, <1>2, <1>3

(* All but the mode is the same. *)
Like(o, f) ==
  /\ o.loops = f.loops /\ o.conds = f.conds /\ o.list = f.list /\ o.own = f.own /\ o.held = f.held
  /\ o.spare = f.spare /\ o.fed = f.fed /\ o.lead = f.lead /\ o.from = f.from
  /\ o.mode \in StmtModes <=> f.mode \in StmtModes

(* The mode is no promise.                                                 *)
LEMMA KeptLike ==
  ASSUME NEW m, NEW o, NEW f, Like(o, f)
  PROVE  Kept(m, o) <=> Kept(m, f)
BY DEF Like, Kept

(* The visit of a node and what is left of a body create no blocks.        *)
LEMMA VisitLike ==
  ASSUME NEW f, NEW t, Good(f), Fits(f, t), t.task \in {"visit", "body"}
  PROVE  /\ Like(Over(f, t), f) /\ f.mode \in {"stmt", "cond"}
         /\ t.task = "visit" => Over(f, t).mode = IF f.mode = "cond" THEN "condvisit" ELSE "stmtvisit"
         /\ t.task = "body" => Over(f, t).mode = (IF t.pos = 1 THEN "begin" ELSE "stmt") /\ f.mode = "stmt"
<1> DEFINE o == Over(f, t)
<1>1. Fields(f, t, o)
  BY OverFields
<1> HIDE DEF o
<1>2. Own(t) = {} /\ Spare(t) = {} /\ Fed(t) = {} /\ Entered(t) = {}
  BY DEF Own, Spare, Fed, Entered, IfTasks, LoopTasks
<1>3. Kinds(f, t)
  BY FitsKinds
<1>4. f.mode \in {"stmt", "cond"} /\ (t.task = "body" => f.mode = "stmt")
  BY <1>3 DEF Kinds
<1>5. /\ t.task = "visit" => o.mode = IF f.mode = "cond" THEN "condvisit" ELSE "stmtvisit"
      /\ t.task = "body" => o.mode = IF t.pos = 1 THEN "begin" ELSE "stmt"
  BY <1>1 DEF Fields, ModeOf
<1>6. o.mode \in StmtModes <=> f.mode \in StmtModes
  BY <1>4, <1>5 DEF StmtModes
<1>7. o.from = f.from
  BY <1>1, <1>4 DEF Fields, Good
<1>8. /\ o.loops = f.loops /\ o.conds = f.conds /\ o.list = f.list /\ o.own = f.own /\ o.held = f.held
      /\ o.spare = f.spare /\ o.fed = f.fed /\ o.lead = f.lead
  BY <1>1, <1>2 DEF Fields, LoopsOf, CondsOf, LoopTasks
<1>9. Like(o, f)
  BY <1>6, <1>7, <1>8 DEF Like
<1>10. QED
  BY <1>4, <1>5, <1>9 DEF o

(* The graph is the same, and so are the promises. *)
LEMMA AtLike ==
  ASSUME NEW m, NEW ins, NEW cbl, NEW ws, NEW os, NEW o, NEW f, Good(o), Good(f), Like(o, f),
         At(m, ins, cbl, ws, os, o), NEW n, UnderWay(n, ins, f.held), SameGraph(m, n),
         f.mode \in OpenModes => ~ IsTerminated(n, ins)
  PROVE  At(n, ins, cbl, ws, os, f)
<1>1. Shape(m) /\ Kept(m, o) /\ ins \in BBs(m) /\ ws = o.loops /\ os = o.conds
  BY AtFacts
<1>2. /\ \A a \in o.from : LeadsFrom(m, a, ins)
      /\ Place(m, ins, cbl, o)
  BY DEF At, Promises
<1>3. Carries(m, n, {}, {})
  BY <1>1, SameGraphCarries
<1>4. Kept(n, f)
  <2>1. Kept(m, f)
    BY <1>1, KeptLike
  <2>2. {} \cap f.spare = {} /\ {} \cap f.own = {}
    OBVIOUS
  <2>3. QED
    BY <1>1, <1>3, <2>1, <2>2, KeptCarries
<1>5. \A a \in f.from : LeadsFrom(n, a, ins)
  BY <1>1, <1>2, <1>3 DEF Like, Carries
<1>6. (IsTerminated(n, ins) <=> IsTerminated(m, ins)) /\ n.pre = m.pre /\ BBs(n) = BBs(m)
  BY <1>1 DEF SameGraph
<1>7. Place(n, ins, cbl, f)
  BY <1>2, <1>6 DEF Place, Like
<1>8. ws = f.loops /\ os = f.conds
  BY <1>1 DEF Like
<1>9. QED
  BY <1>4, <1>5, <1>7, <1>8 DEF At, Promises

(* Nothing happened to the function. *)
LEMMA SameGraphItself == \A m : SameGraph(m, m)
BY DEF SameGraph

(* The state is what the tasks left, whatever their mode.                  *)
LEMMA AtLikeItself ==
  ASSUME NEW m, NEW ins, NEW cbl, NEW ws, NEW os, NEW o, NEW f, Good(o), Good(f), Like(o, f),
         At(m, ins, cbl, ws, os, o), f.mode \in OpenModes => ~ IsTerminated(m, ins)
  PROVE  At(m, ins, cbl, ws, os, f)
<1>1. UnderWay(m, ins, f.held)
  BY DEF At, Like
<1>2. SameGraph(m, m)
  BY SameGraphItself
<1>3. QED
  BY <1>1, <1>2, AtLike

(* The block being filled was ended by a jump. *)
LEMMA AtJump ==
  ASSUME NEW m, NEW ins, NEW cbl, NEW ws, NEW os, NEW o, NEW f, Good(o), Good(f), Like(o, f),
         At(m, ins, cbl, ws, os, o), f.mode = "stmt",
         NEW b, b \in f.own \ f.spare, f.loops = <<>> => b = ret_BB,
         NEW n, Branched(m, n, ins, f.held, {b})
  PROVE  At(n, ins, cbl, ws, os, f)
<1>1. Shape(m) /\ Kept(m, o) /\ ins \in BBs(m) /\ ws = o.loops /\ os = o.conds
  BY AtFacts
<1>2. Place(m, ins, cbl, o)
  BY DEF At
<1>3. /\ UnderWay(n, ins, f.held) /\ IsTerminated(n, ins) /\ Carries(m, n, {b}, {})
      /\ n.pre[b] # <<>>
  BY DEF Branched
<1>4. Kept(n, f)
  <2>1. Kept(m, f)
    BY <1>1, KeptLike
  <2>2. {b} \cap f.spare = {} /\ {} \cap f.own = {}
    OBVIOUS
  <2>3. QED
    BY <1>1, <1>3, <2>1, <2>2, KeptCarries
<1>5. f.from = {}
  BY DEF Good
<1>6. BBs(m) \subseteq BBs(n)
  BY <1>3 DEF Carries
<1>7. Place(n, ins, cbl, f)
  BY <1>2, <1>3, <1>6 DEF Place, Like, OpenModes
<1>8. ws = f.loops /\ os = f.conds
  BY <1>1 DEF Like
<1>9. QED
  BY <1>3, <1>4, <1>5, <1>7, <1>8 DEF At, Promises

(* The builder is at a block with no terminator yet. *)
LEMMA AtOpen ==
  ASSUME NEW n, NEW h, NEW f, Good(f), Kept(n, f), \A a \in f.from : LeadsFrom(n, a, h),
         UnderWay(n, h, f.held), ~ IsTerminated(n, h), NEW cbl,
         \/ f.list = 1 /\ cbl = <<h>>
         \/ /\ f.mode \in CondModes /\ Sequence(cbl) /\ Len(cbl) = f.list
            /\ \A k \in 1 .. Len(cbl) : cbl[k] \in BBs(n)
  PROVE  At(n, h, cbl, f.loops, f.conds, f)
<1>1. h \in BBs(n)
  BY InsertListed DEF UnderWay
<1>2. Place(n, h, cbl, f)
  <2>1. CASE f.list = 1 /\ cbl = <<h>>
    <3>1. Sequence(cbl) /\ Len(cbl) = 1 /\ cbl[1] = h
      BY <2>1, ShortSequences
    <3>2. \A k \in 1 .. Len(cbl) : k = 1
      BY <3>1
    <3>3. \A k \in 1 .. Len(cbl) : cbl[k] \in BBs(n)
      BY <1>1, <3>1, <3>2
    <3>4. QED
      BY <2>1, <3>1, <3>3 DEF Place
  <2>2. CASE /\ f.mode \in CondModes /\ Sequence(cbl) /\ Len(cbl) = f.list
             /\ \A k \in 1 .. Len(cbl) : cbl[k] \in BBs(n)
    BY <2>2 DEF Place, CondModes, StmtModes
  <2>3. QED
    BY <2>1, <2>2
<1>3. QED
  BY <1>2 DEF At, Promises

(* cur_basic_block_list has one block, which is replaced. *)
LEMMA ReplaceOne ==
  ASSUME NEW cbl, Sequence(cbl), Len(cbl) = 1, NEW b
  PROVE  ReplaceLast(cbl, b) = <<b>> /\ Front(cbl) = <<>>
<1>1. cbl # <<>>
  BY SequenceFacts1
<1>2. Sequence(Front(cbl)) /\ Len(Front(cbl)) = 0
  BY <1>1, FrontSequence
<1>3. Front(cbl) = <<>>
  BY <1>2, SequenceFacts1
<1>4. QED
  BY <1>3 DEF ReplaceLast

(* Blocks are created for a task. *)
LEMMA AtNewBlocks ==
  ASSUME NEW m, NEW ins, NEW cbl, NEW ws, NEW os, NEW o, NEW f, Good(o), Good(f), Like(o, f),
         At(m, ins, cbl, ws, os, o), NEW New, NEW n, Added(m, n, New)
  PROVE  /\ UnderWay(n, ins, f.held \cup New) /\ Kept(n, f)
         /\ \A a \in f.from : LeadsFrom(n, a, ins)
         /\ (IsTerminated(n, ins) <=> IsTerminated(m, ins))
         /\ New \cap f.own = {} /\ New \subseteq InList(n) \ {entryBB}
         /\ \A b \in New : n.pre[b] = <<>>
         /\ BBs(m) \subseteq BBs(n) /\ ins \in BBs(m)
<1>1. Shape(m) /\ Kept(m, o) /\ ins \in BBs(m) /\ entryBB \in BBs(m) /\ o.own \subseteq BBs(m) /\ UnderWay(m, ins, o.held)
  BY AtFacts
<1>2. /\ UnderWay(n, ins, o.held \cup New) /\ Carries(m, n, {}, {})
      /\ IsTerminated(n, ins) <=> IsTerminated(m, ins)
  BY <1>1, AddedUnderWay
<1>3. Kept(n, f)
  <2>1. Kept(m, f)
    BY <1>1, KeptLike
  <2>2. {} \cap f.spare = {} /\ {} \cap f.own = {}
    OBVIOUS
  <2>3. QED
    BY <1>1, <1>2, <2>1, <2>2, KeptCarries
<1>4. \A a \in f.from : LeadsFrom(n, a, ins)
  BY <1>1, <1>2 DEF Carries, At, Promises, Like
<1>5. o.own = f.own /\ o.held = f.held
  BY DEF Like
<1>6. New \cap BBs(m) = {} /\ New \subseteq InList(n) /\ (\A b \in New : n.pre[b] = <<>>) /\ BBs(m) \subseteq BBs(n)
  BY DEF Added
<1>7. QED
  BY <1>1, <1>2, <1>3, <1>4, <1>5, <1>6

(* && and || go on with their left side. *)
LEMMA BeginLogical ==
  ASSUME NEW m, NEW ins, NEW cbl, NEW ws, NEW os, NEW f, NEW v, Good(f), Fits(f, v),
         v.task = "visit", f.mode = "cond", At(m, ins, cbl, ws, os, Over(f, v)),
         NEW t, t.task \in {"and", "or"}, t.node \in Conds, t.node.k = t.task,
         NEW b, b = t.bbs[1], NEW n, Added(m, n, {b}),
         NEW u, u.task = "visit", u.node \in Conds
  PROVE  /\ Fits(f, t) /\ Fits(Over(f, t), u)
         /\ At(n, ins, cbl, ws, CondsOf(f, t), Over(Over(f, t), u))
<1> DEFINE o == Over(f, v)
           p == Over(f, t)
           q == Over(p, u)
<1>1. Good(o) /\ Like(o, f) /\ o.mode = "condvisit"
  BY GoodOver, VisitLike
<1>2. At(m, ins, cbl, ws, os, o)
  OBVIOUS
<1> HIDE DEF o
<1>3. /\ UnderWay(n, ins, f.held \cup {b}) /\ Kept(n, f)
      /\ \A a \in f.from : LeadsFrom(n, a, ins)
      /\ (IsTerminated(n, ins) <=> IsTerminated(m, ins))
      /\ {b} \cap f.own = {} /\ {b} \subseteq InList(n) \ {entryBB}
      /\ \A x \in {b} : n.pre[x] = <<>>
      /\ BBs(m) \subseteq BBs(n) /\ ins \in BBs(m)
  BY <1>1, <1>2, AtNewBlocks
<1>4. Place(m, ins, cbl, o) /\ ws = f.loops /\ os = f.conds
  BY <1>1, <1>2 DEF At, Like
<1>5. ~ IsTerminated(n, ins)
  BY <1>1, <1>3, <1>4 DEF Place, OpenModes
<1>6. Fits(f, t)
  BY <1>3 DEF Fits
<1>7. Fields(f, t, p)
  BY OverFields
<1>8. Good(p)
  BY <1>6, GoodOver
<1>9. t \in {t} /\ Own(t) = {b} /\ Entered(t) = {} /\ Spare(t) = {} /\ Fed(t) = {}
  BY DEF Own, Entered, Spare, Fed, IfTasks, LoopTasks
<1>10. p.mode = "cond"
  BY <1>7 DEF Fields, ModeOf, CondTasks
<1> HIDE DEF p
<1>11. Fits(p, u)
  BY <1>10 DEF Fits
<1>12. Good(q) /\ Like(q, p) /\ q.mode = "condvisit"
  BY <1>8, <1>10, <1>11, GoodOver, VisitLike
<1> HIDE DEF q
<1>13. /\ p.loops = f.loops /\ p.list = f.list /\ p.own = f.own \cup {b} /\ p.held = f.held \cup {b}
       /\ p.spare = f.spare /\ p.fed = f.fed /\ p.lead = f.lead /\ p.from = f.from
       /\ p.conds = CondsOf(f, t)
  BY <1>7, <1>9 DEF Fields, LoopsOf, LoopTasks
<1>14. Kept(n, q)
  <2>1. Kept(n, p)
    BY <1>3, <1>13 DEF Kept
  <2>2. QED
    BY <1>12, <2>1, KeptLike
<1>15. Sequence(cbl) /\ Len(cbl) = q.list /\ \A k \in 1 .. Len(cbl) : cbl[k] \in BBs(n)
  BY <1>1, <1>3, <1>4, <1>12, <1>13 DEF Place, Like
<1>16. /\ q.held = f.held \cup {b} /\ q.from = f.from /\ q.loops = f.loops /\ q.conds = CondsOf(f, t)
       /\ q.mode \in CondModes
  BY <1>12, <1>13 DEF Like, CondModes
<1>17. At(n, ins, cbl, q.loops, q.conds, q)
  BY <1>3, <1>5, <1>12, <1>14, <1>15, <1>16, AtOpen
<1>18. QED
  BY <1>4, <1>6, <1>11, <1>16, <1>17 DEF p, q

(* They branch on its value, and go on with the right side. *)
LEMMA EndLogical ==
  ASSUME NEW m, NEW ins, NEW cbl, NEW ws, NEW os, NEW f, NEW t, Good(f), Fits(f, t),
         t.task \in {"and", "or"}, At(m, ins, cbl, ws, os, Over(f, t)), ~ IsTerminated(m, ins),
         NEW b, b = t.bbs[1], NEW y \in f.held \ f.spare,
         NEW n, Branched(m, n, ins, Over(f, t).held, {b, y}),
         NEW u, u.task = "visit", u.node \in Conds
  PROVE  Fits(f, u) /\ At(n, b, cbl, ws, f.conds, Over(f, u))
<1> DEFINE p == Over(f, t)
           q == Over(f, u)
<1>1. Fields(f, t, p) /\ Kinds(f, t) /\ Good(p)
  BY OverFields, FitsKinds, GoodOver
<1>2. f.mode = "cond" /\ b \notin f.own
  BY <1>1 DEF Kinds
<1>3. Own(t) = {b} /\ Entered(t) = {} /\ Spare(t) = {} /\ Fed(t) = {}
  BY DEF Own, Entered, Spare, Fed, IfTasks, LoopTasks
<1>4. /\ p.loops = f.loops /\ p.list = f.list /\ p.own = f.own \cup {b} /\ p.held = f.held \cup {b}
      /\ p.from = f.from
  BY <1>1, <1>2, <1>3 DEF Fields, LoopsOf, LoopTasks
<1>5. At(m, ins, cbl, ws, os, p) /\ Branched(m, n, ins, p.held, {b, y})
  OBVIOUS
<1>6. Kept(m, f)
  BY KeptBelow DEF At, Promises
<1> HIDE DEF p
<1>7. Shape(m) /\ ws = p.loops
  BY <1>1, <1>5, AtFacts
<1>8. /\ UnderWay(n, ins, p.held) /\ IsTerminated(n, ins) /\ Carries(m, n, {b, y}, {})
      /\ n.pre[b] # <<>> /\ \A a : LeadsFrom(m, a, ins) => LeadsFrom(n, a, b)
  BY <1>5 DEF Branched
<1>9. Kept(n, f)
  <2>1. {b, y} \cap f.spare = {} /\ {} \cap f.own = {}
    BY <1>2 DEF Good
  <2>2. QED
    BY <1>6, <1>7, <1>8, <2>1, KeptCarries
<1>10. UnderWay(n, b, f.held) /\ ~ IsTerminated(n, b)
  <2>1. b \in p.held /\ p.held \ {b} = f.held
    BY <1>2, <1>4 DEF Good
  <2>2. UnderWay(n, b, p.held \ {b}) /\ ~ IsTerminated(n, b)
    BY <1>8, <2>1, EnterHeld
  <2>3. QED
    BY <2>1, <2>2
<1>11. Fits(f, u)
  BY <1>2 DEF Fits
<1>12. Good(q) /\ Like(q, f) /\ q.mode = "condvisit"
  BY <1>2, <1>11, GoodOver, VisitLike
<1> HIDE DEF q
<1>13. Kept(n, q)
  BY <1>9, <1>12, KeptLike
<1>14. \A a \in q.from : LeadsFrom(n, a, b)
  BY <1>4, <1>5, <1>8, <1>12 DEF Like, At, Promises
<1>15. Sequence(cbl) /\ Len(cbl) = q.list /\ \A k \in 1 .. Len(cbl) : cbl[k] \in BBs(n)
  BY <1>4, <1>5, <1>8, <1>12 DEF Place, Like, Carries, At
<1>16. q.held = f.held /\ q.loops = f.loops /\ q.conds = f.conds /\ q.mode \in CondModes
  BY <1>12 DEF Like, CondModes
<1>17. At(n, b, cbl, q.loops, q.conds, q)
  BY <1>10, <1>12, <1>13, <1>14, <1>15, <1>16, AtOpen
<1>18. QED
  BY <1>4, <1>7, <1>11, <1>16, <1>17 DEF q

(* If: the condition is visited where the builder is. *)
LEMMA BeginIf ==
  ASSUME NEW m, NEW ins, NEW cbl, NEW ws, NEW os, NEW f, NEW v, Good(f), Fits(f, v),
         v.task = "visit", f.mode = "stmt", At(m, ins, cbl, ws, os, Over(f, v)),
         NEW t, t.task = "ifCond", Statement(f, t.node), t.node.k = "if",
         t.bbs[1] # t.bbs[2], t.bbs[1] # t.bbs[3], t.bbs[2] # t.bbs[3],
         NEW n, Added(m, n, {t.bbs[1], t.bbs[2], t.bbs[3]}),
         NEW u, u.task = "visit", u.node \in Conds
  PROVE  /\ Fits(f, t) /\ Fits(Over(f, t), u)
         /\ At(n, ins, cbl, ws, Append(os, CondPair(t)), Over(Over(f, t), u))
<1> DEFINE o == Over(f, v)
           p == Over(f, t)
           q == Over(p, u)
           New == {t.bbs[1], t.bbs[2], t.bbs[3]}
<1>1. Good(o) /\ Like(o, f) /\ o.mode = "stmtvisit"
  BY GoodOver, VisitLike
<1>2. At(m, ins, cbl, ws, os, o) /\ Added(m, n, New)
  OBVIOUS
<1> HIDE DEF o, New
<1>3. /\ UnderWay(n, ins, f.held \cup New) /\ Kept(n, f)
      /\ \A a \in f.from : LeadsFrom(n, a, ins)
      /\ (IsTerminated(n, ins) <=> IsTerminated(m, ins))
      /\ New \cap f.own = {} /\ New \subseteq InList(n) \ {entryBB}
      /\ \A x \in New : n.pre[x] = <<>>
      /\ BBs(m) \subseteq BBs(n) /\ ins \in BBs(m)
  BY <1>1, <1>2, AtNewBlocks
<1>4. Place(m, ins, cbl, o) /\ ws = f.loops /\ os = f.conds
  BY <1>1, <1>2 DEF At, Like
<1>5. ~ IsTerminated(n, ins)
  BY <1>1, <1>3, <1>4 DEF Place, OpenModes
<1>6. Fits(f, t)
  BY <1>3 DEF Fits, NewThree, IfTasks, New
<1>7. Fields(f, t, p) /\ Good(p)
  BY <1>6, OverFields, GoodOver
<1>8. Own(t) = New /\ Entered(t) = {} /\ Spare(t) \subseteq New /\ Fed(t) = {}
  BY DEF Own, Entered, Spare, Fed, IfTasks, LoopTasks, New
<1>9. p.mode = "cond"
  BY <1>7 DEF Fields, ModeOf, CondTasks
<1> HIDE DEF p
<1>10. Fits(p, u)
  BY <1>9 DEF Fits
<1>11. Good(q) /\ Like(q, p) /\ q.mode = "condvisit"
  BY <1>7, <1>9, <1>10, GoodOver, VisitLike
<1> HIDE DEF q
<1>12. /\ p.loops = f.loops /\ p.list = f.list /\ p.own = f.own \cup New /\ p.held = f.held \cup New
       /\ p.spare = f.spare \cup Spare(t) /\ p.fed = f.fed /\ p.lead = f.lead /\ p.from = {}
       /\ p.conds = Append(f.conds, CondPair(t))
  BY <1>7, <1>8 DEF Fields, LoopsOf, LoopTasks, CondsOf
<1>13. Kept(n, q)
  <2>1. Kept(n, p)
    BY <1>3, <1>8, <1>12 DEF Kept
  <2>2. QED
    BY <1>11, <2>1, KeptLike
<1>14. Sequence(cbl) /\ Len(cbl) = q.list /\ \A k \in 1 .. Len(cbl) : cbl[k] \in BBs(n)
  BY <1>1, <1>3, <1>4, <1>11, <1>12 DEF Place, Like
<1>15. /\ q.held = f.held \cup New /\ q.from = {} /\ q.loops = f.loops
       /\ q.conds = Append(f.conds, CondPair(t)) /\ q.mode \in CondModes
  BY <1>11, <1>12 DEF Like, CondModes
<1>16. At(n, ins, cbl, q.loops, q.conds, q)
  BY <1>3, <1>5, <1>11, <1>13, <1>14, <1>15, AtOpen
<1>17. QED
  BY <1>4, <1>6, <1>10, <1>15, <1>16 DEF p, q

(* What the tasks of an if leave. *)
LEMMA IfFields ==
  ASSUME NEW f, NEW t, t.task \in IfTasks, Good(f), Fits(f, t), NEW p, p = Over(f, t)
  PROVE  /\ NewThree(f, t) /\ Good(p) /\ f.mode = "stmt" /\ p.mode = ModeOf(f, t)
         /\ p.loops = f.loops /\ p.list = 1 /\ p.lead = f.lead /\ p.from = {}
         /\ f.from = {} /\ f.list = 1
         /\ p.conds = IF t.task = "ifCond" THEN Append(f.conds, CondPair(t)) ELSE f.conds
         /\ p.own = f.own \cup {t.bbs[1], t.bbs[2], t.bbs[3]}
         /\ p.held = f.held \cup ({t.bbs[1], t.bbs[2], t.bbs[3]} \ Entered(t))
         /\ p.spare = f.spare \cup Spare(t) /\ p.fed = f.fed \cup Fed(t)
<1>1. Fields(f, t, p) /\ Good(p) /\ Kinds(f, t)
  BY OverFields, GoodOver, FitsKinds
<1>2. NewThree(f, t) /\ f.mode = "stmt"
  BY <1>1 DEF Kinds, IfTasks
<1>3. f.from = {} /\ f.list = 1
  BY <1>2 DEF Good, StmtModes
<1>4. Own(t) = {t.bbs[1], t.bbs[2], t.bbs[3]}
  BY DEF Own, IfTasks
<1>5. LoopsOf(f, t) = f.loops /\ CondsOf(f, t) = IF t.task = "ifCond" THEN Append(f.conds, CondPair(t)) ELSE f.conds
  BY DEF LoopsOf, CondsOf, IfTasks, LoopTasks
<1>6. QED
  BY <1>1, <1>2, <1>3, <1>4, <1>5 DEF Fields, IfTasks

(* The first branch. *)
LEMMA EnterThen ==
  ASSUME NEW m, NEW ins, NEW cbl, NEW ws, NEW os, NEW f, NEW t, Good(f), Fits(f, t),
         t.task = "ifCond", At(m, ins, cbl, ws, os, Over(f, t)),
         NEW n, Branched(m, n, ins, Over(f, t).held, {CondPair(t)[1], CondPair(t)[2]}),
         NEW t2, t2.task = "ifThen", t2.node = t.node, t2.bbs = t.bbs,
         NEW u, u.task = "visit", Statement(f, u.node)
  PROVE  /\ Fits(f, t2) /\ Fits(Over(f, t2), u)
         /\ At(n, t.bbs[1], <<t.bbs[1]>>, ws, f.conds, Over(Over(f, t2), u))
<1> DEFINE p == Over(f, t)
           p2 == Over(f, t2)
           q == Over(p2, u)
           b == t.bbs[1]
           y == IF Alone(t) THEN t.bbs[3] ELSE t.bbs[2]
<1>1. /\ NewThree(f, t) /\ Good(p) /\ f.mode = "stmt"
      /\ p.loops = f.loops /\ p.list = 1 /\ p.lead = f.lead /\ p.from = {}
      /\ f.from = {} /\ f.list = 1
      /\ p.own = f.own \cup {t.bbs[1], t.bbs[2], t.bbs[3]}
      /\ p.held = f.held \cup ({t.bbs[1], t.bbs[2], t.bbs[3]} \ Entered(t))
      /\ p.spare = f.spare \cup Spare(t) /\ p.fed = f.fed \cup Fed(t)
  BY IfFields DEF IfTasks
<1>2. Fits(f, t2)
  BY <1>1 DEF Fits, NewThree, IfTasks, CondTasks, LoopTasks
<1>3. /\ Good(p2) /\ p2.mode = ModeOf(f, t2)
      /\ p2.loops = f.loops /\ p2.list = 1 /\ p2.lead = f.lead /\ p2.from = {}
      /\ p2.conds = f.conds
      /\ p2.own = f.own \cup {t2.bbs[1], t2.bbs[2], t2.bbs[3]}
      /\ p2.held = f.held \cup ({t2.bbs[1], t2.bbs[2], t2.bbs[3]} \ Entered(t2))
      /\ p2.spare = f.spare \cup Spare(t2) /\ p2.fed = f.fed \cup Fed(t2)
  BY <1>2, IfFields DEF IfTasks
<1>4. /\ Entered(t) = {} /\ Entered(t2) = {b} /\ Fed(t) = {} /\ Fed(t2) = {y}
      /\ Spare(t) = Spare(t2) /\ (Alone(t) => Spare(t) = {t.bbs[2]}) /\ (~ Alone(t) => Spare(t) = {})
      /\ CondPair(t)[1] = b /\ CondPair(t)[2] = y
  BY DEF Entered, Fed, Spare, Alone, CondPair
<1>5. At(m, ins, cbl, ws, os, p)
  OBVIOUS
<1>6. Branched(m, n, ins, p.held, {b, y})
  BY <1>4
<1> HIDE DEF p, p2
<1>7. /\ b \notin f.own /\ y \notin f.own /\ y \notin Spare(t) /\ b \notin Spare(t) /\ y # b
      /\ y \in {t.bbs[2], t.bbs[3]}
  BY <1>1, <1>4 DEF NewThree
<1> HIDE DEF y
<1>8. Shape(m) /\ Kept(m, p) /\ ws = f.loops
  BY <1>1, <1>5, AtFacts
<1>9. /\ UnderWay(n, ins, p.held) /\ IsTerminated(n, ins) /\ Carries(m, n, {b, y}, {})
      /\ n.pre[b] # <<>> /\ n.pre[y] # <<>>
  BY <1>6 DEF Branched
<1>10. Kept(n, p)
  <2>1. {b, y} \cap p.spare = {} /\ {} \cap p.own = {}
    BY <1>1, <1>7 DEF Good
  <2>2. QED
    BY <1>1, <1>8, <1>9, <2>1, KeptCarries
<1>11. UnderWay(n, b, p2.held) /\ ~ IsTerminated(n, b)
  <2>1. b \in p.held /\ p.held \ {b} = p2.held
    BY <1>1, <1>3, <1>4, <1>7 DEF Good
  <2>2. UnderWay(n, b, p.held \ {b}) /\ ~ IsTerminated(n, b)
    BY <1>9, <2>1, EnterHeld
  <2>3. QED
    BY <2>1, <2>2
<1>12. p2.mode = "stmt"
  BY <1>3 DEF ModeOf, CondTasks
<1>13. Fits(p2, u)
  BY <1>3, <1>12 DEF Fits, Statement
<1>14. Good(q) /\ Like(q, p2)
  BY <1>3, <1>13, GoodOver, VisitLike
<1> HIDE DEF q
<1>15. Kept(n, q)
  <2>1. p2.own = p.own /\ p2.spare = p.spare /\ p2.fed = p.fed \cup {y} /\ p2.lead = p.lead
    BY <1>1, <1>3, <1>4
  <2>2. Kept(n, p2)
    BY <1>9, <1>10, <2>1 DEF Kept
  <2>3. QED
    BY <1>14, <2>2, KeptLike
<1>16. q.held = p2.held /\ q.from = {} /\ q.loops = f.loops /\ q.conds = f.conds /\ q.list = 1
  BY <1>3, <1>14 DEF Like
<1>17. At(n, b, <<b>>, q.loops, q.conds, q)
  BY <1>11, <1>14, <1>15, <1>16, AtOpen
<1>18. QED
  BY <1>2, <1>8, <1>13, <1>16, <1>17 DEF p2, q

(* The block being filled has a terminator, a jump to b if it had none. *)
Closed(m, n, ins, H, b) ==
  /\ UnderWay(n, ins, H) /\ IsTerminated(n, ins) /\ Carries(m, n, {b}, {})
  /\ IsTerminated(m, ins) => n.pre = m.pre
  /\ ~ IsTerminated(m, ins) => n.pre[b] # <<>>

(* EndBranch closes the block being filled.                                *)
LEMMA EndBranchCloses ==
  ASSUME NEW m, NEW ins, NEW H, UnderWay(m, ins, H), NEW b \in InList(m) \ {entryBB},
         NEW h \in H, LeadsFrom(m, b, h),
         NEW n, n = IF IsTerminated(m, ins) THEN m ELSE create_br(m, ins, b)
  PROVE  Closed(m, n, ins, H, b)
<1>1. CASE IsTerminated(m, ins)
  <2>1. Carries(m, m, {}, {})
    BY SameGraphItself, SameGraphCarries DEF UnderWay
  <2>2. Carries(m, m, {b}, {})
    BY <2>1 DEF Carries
  <2>3. QED
    BY <1>1, <2>2 DEF Closed
<1>2. CASE ~ IsTerminated(m, ins)
  <2>1. Branched(m, create_br(m, ins, b), ins, H, {b})
    BY <1>2, Jump
  <2>2. QED
    BY <1>2, <2>1 DEF Branched, Closed
<1>3. QED
  BY <1>1, <1>2

(* A held block that nothing leads to is given up. *)
Dropped(m, n, ins, H, b) ==
  /\ UnderWay(n, ins, H \ {b}) /\ Carries(m, n, {}, {b}) /\ n.pre = m.pre
  /\ IsTerminated(n, ins) <=> IsTerminated(m, ins)
  /\ InList(n) = InList(m) \ {b} /\ BBs(n) = BBs(m)

(* erase_from_parent gives up a held block.                                *)
LEMMA EraseDrops ==
  ASSUME NEW m, NEW ins, NEW H, UnderWay(m, ins, H), NEW b \in H, m.pre[b] = <<>>,
         NEW n, n = erase_from_parent(m, b)
  PROVE  Dropped(m, n, ins, H, b)
<1>1. Shape(m) /\ Edges(m) /\ Placed(m, ins, H)
  BY DEF UnderWay
<1>2. b \in BBs(m) /\ m.code[b] = <<>>
  BY <1>1, InsertListed DEF Placed
<1>3. n.code = m.code /\ InList(n) = InList(m) \ {b}
  BY <1>1, <1>2, EraseFacts
<1>4. /\ UnderWay(n, ins, H \ {b}) /\ Carries(m, n, {}, {b}) /\ n.pre = m.pre
      /\ \A x : IsTerminated(n, x) <=> IsTerminated(m, x)
  BY EraseHeld
<1>5. QED
  BY <1>3, <1>4 DEF Dropped, BBs

(* An if without else goes on in nextBB. *)
LEMMA LeaveThen ==
  ASSUME NEW m, NEW ins, NEW cbl, NEW ws, NEW os, NEW f, NEW t, Good(f), Fits(f, t),
         t.task = "ifThen", Alone(t), At(m, ins, cbl, ws, os, Over(f, t)),
         NEW n, Closed(m, n, ins, Over(f, t).held, t.bbs[3]),
         NEW w, w = erase_from_parent(n, t.bbs[2])
  PROVE  w.pre[t.bbs[3]] # <<>> /\ At(w, t.bbs[3], <<t.bbs[3]>>, ws, os, f)
<1> DEFINE p == Over(f, t)
           c == t.bbs[2]
           b == t.bbs[3]
<1>1. /\ NewThree(f, t) /\ Good(p) /\ f.mode = "stmt"
      /\ p.loops = f.loops /\ f.from = {} /\ f.list = 1
      /\ p.conds = f.conds
      /\ p.own = f.own \cup {t.bbs[1], t.bbs[2], t.bbs[3]}
      /\ p.held = f.held \cup ({t.bbs[1], t.bbs[2], t.bbs[3]} \ Entered(t))
      /\ p.spare = f.spare \cup Spare(t) /\ p.fed = f.fed \cup Fed(t)
  BY IfFields DEF IfTasks
<1>2. Entered(t) = {t.bbs[1]} /\ Fed(t) = {b} /\ Spare(t) = {c}
  BY DEF Entered, Fed, Spare, Alone
<1>3. At(m, ins, cbl, ws, os, p) /\ Closed(m, n, ins, p.held, b)
  OBVIOUS
<1>4. Kept(n, p) => Kept(n, f)
  BY KeptBelow
<1> HIDE DEF p
<1>5. /\ b \notin f.own /\ c \notin f.own /\ c # b
      /\ c \in p.held /\ b \in p.held /\ (p.held \ {c}) \ {b} = f.held /\ c \in p.spare /\ b \in p.fed
  BY <1>1, <1>2 DEF NewThree, Good
<1>6. Shape(m) /\ Kept(m, p) /\ ws = f.loops /\ os = f.conds
  BY <1>1, <1>3, AtFacts
<1>7. UnderWay(n, ins, p.held) /\ IsTerminated(n, ins) /\ Carries(m, n, {b}, {})
  BY <1>3 DEF Closed
<1>8. Kept(n, p)
  <2>1. {b} \cap p.spare = {} /\ {} \cap p.own = {}
    BY <1>1, <1>2, <1>5 DEF Good
  <2>2. QED
    BY <1>1, <1>6, <1>7, <2>1, KeptCarries
<1>9. n.pre[c] = <<>> /\ n.pre[b] # <<>>
  BY <1>5, <1>8 DEF Kept
<1>10. /\ UnderWay(w, ins, p.held \ {c}) /\ Carries(n, w, {}, {c}) /\ w.pre = n.pre
       /\ IsTerminated(w, ins)
  <2>1. Dropped(n, w, ins, p.held, c)
    BY <1>5, <1>7, <1>9, EraseDrops
  <2>2. QED
    BY <1>7, <2>1 DEF Dropped
<1>11. UnderWay(w, b, f.held) /\ ~ IsTerminated(w, b)
  <2>1. b \in p.held \ {c} /\ w.pre[b] # <<>>
    BY <1>5, <1>9, <1>10
  <2>2. UnderWay(w, b, (p.held \ {c}) \ {b}) /\ ~ IsTerminated(w, b)
    BY <1>10, <2>1, EnterHeld
  <2>3. QED
    BY <1>5, <2>2
<1>12. Kept(w, f)
  <2>1. {} \cap f.spare = {} /\ {c} \cap f.own = {} /\ Shape(n) /\ Kept(n, f)
    BY <1>4, <1>5, <1>7, <1>8 DEF UnderWay
  <2>2. QED
    BY <1>10, <2>1, KeptCarries
<1>13. At(w, b, <<b>>, f.loops, f.conds, f)
  BY <1>1, <1>11, <1>12, AtOpen
<1>14. QED
  BY <1>6, <1>9, <1>10, <1>13

(* The second branch. *)
LEMMA EnterElse ==
  ASSUME NEW m, NEW ins, NEW cbl, NEW ws, NEW os, NEW f, NEW t, Good(f), Fits(f, t),
         t.task = "ifThen", ~ Alone(t), At(m, ins, cbl, ws, os, Over(f, t)),
         NEW n, Closed(m, n, ins, Over(f, t).held, t.bbs[3]),
         NEW t2, t2.task = "ifElse", t2.node = t.node, t2.bbs = t.bbs,
         NEW u, u.task = "visit", Statement(f, u.node)
  PROVE  /\ Fits(f, t2) /\ Fits(Over(f, t2), u)
         /\ At(n, t.bbs[2], <<t.bbs[2]>>, ws, os, Over(Over(f, t2), u))
<1> DEFINE p == Over(f, t)
           p2 == Over(f, t2)
           q == Over(p2, u)
           c == t.bbs[2]
           b == t.bbs[3]
<1>1. /\ NewThree(f, t) /\ Good(p) /\ f.mode = "stmt"
      /\ p.loops = f.loops /\ p.lead = f.lead /\ p.conds = f.conds
      /\ p.own = f.own \cup {t.bbs[1], t.bbs[2], t.bbs[3]}
      /\ p.held = f.held \cup ({t.bbs[1], t.bbs[2], t.bbs[3]} \ Entered(t))
      /\ p.spare = f.spare \cup Spare(t) /\ p.fed = f.fed \cup Fed(t)
  BY IfFields DEF IfTasks
<1>2. Fits(f, t2)
  BY <1>1 DEF Fits, NewThree, IfTasks, CondTasks, LoopTasks
<1>3. /\ Good(p2) /\ p2.mode = ModeOf(f, t2)
      /\ p2.loops = f.loops /\ p2.list = 1 /\ p2.lead = f.lead /\ p2.from = {}
      /\ p2.conds = f.conds
      /\ p2.own = f.own \cup {t2.bbs[1], t2.bbs[2], t2.bbs[3]}
      /\ p2.held = f.held \cup ({t2.bbs[1], t2.bbs[2], t2.bbs[3]} \ Entered(t2))
      /\ p2.spare = f.spare \cup Spare(t2) /\ p2.fed = f.fed \cup Fed(t2)
  BY <1>2, IfFields DEF IfTasks
<1>4. /\ Entered(t) = {t.bbs[1]} /\ Entered(t2) = {t.bbs[1], c} /\ Fed(t) = {c} /\ Fed(t2) = {}
      /\ Spare(t) = {} /\ Spare(t2) = {}
  BY DEF Entered, Fed, Spare, Alone
<1>5. At(m, ins, cbl, ws, os, p) /\ Closed(m, n, ins, p.held, b)
  OBVIOUS
<1> HIDE DEF p, p2
<1>6. Shape(m) /\ Kept(m, p) /\ ws = f.loops /\ os = f.conds
  BY <1>1, <1>5, AtFacts
<1>7. UnderWay(n, ins, p.held) /\ IsTerminated(n, ins) /\ Carries(m, n, {b}, {})
  BY <1>5 DEF Closed
<1>8. Kept(n, p)
  <2>1. {b} \cap p.spare = {} /\ {} \cap p.own = {}
    BY <1>1, <1>4 DEF Good, NewThree
  <2>2. QED
    BY <1>1, <1>6, <1>7, <2>1, KeptCarries
<1>9. UnderWay(n, c, p2.held) /\ ~ IsTerminated(n, c)
  <2>0. c \notin f.held
    BY <1>1 DEF Good, NewThree
  <2>1. c \in p.held /\ p.held \ {c} = p2.held /\ c \in p.fed
    BY <1>1, <1>3, <1>4, <2>0 DEF NewThree
  <2>2. n.pre[c] # <<>>
    BY <1>8, <2>1 DEF Kept
  <2>3. UnderWay(n, c, p.held \ {c}) /\ ~ IsTerminated(n, c)
    BY <1>7, <2>1, <2>2, EnterHeld
  <2>4. QED
    BY <2>1, <2>3
<1>10. p2.mode = "stmt"
  BY <1>3 DEF ModeOf, CondTasks
<1>11. Fits(p2, u)
  BY <1>3, <1>10 DEF Fits, Statement
<1>12. Good(q) /\ Like(q, p2)
  BY <1>3, <1>11, GoodOver, VisitLike
<1> HIDE DEF q
<1>13. Kept(n, q)
  <2>1. p2.own = p.own /\ p2.spare = p.spare /\ p2.fed \subseteq p.fed /\ p2.lead = p.lead
    BY <1>1, <1>3, <1>4
  <2>2. Kept(n, p2)
    BY <1>8, <2>1 DEF Kept
  <2>3. QED
    BY <1>12, <2>2, KeptLike
<1>14. q.held = p2.held /\ q.from = {} /\ q.loops = f.loops /\ q.conds = f.conds /\ q.list = 1
  BY <1>3, <1>12 DEF Like
<1>15. At(n, c, <<c>>, q.loops, q.conds, q)
  BY <1>9, <1>12, <1>13, <1>14, AtOpen
<1>16. QED
  BY <1>2, <1>6, <1>11, <1>14, <1>15 DEF p2, q

(* Both branches done, the builder goes on in nextBB, or if nothing leads  *)
(* there in trueBB.                                                        *)
LEMMA LeaveElse ==
  ASSUME NEW m, NEW ins, NEW cbl, NEW ws, NEW os, NEW f, NEW t, Good(f), Fits(f, t),
         t.task = "ifElse", At(m, ins, cbl, ws, os, Over(f, t)),
         NEW n, Closed(m, n, ins, Over(f, t).held, t.bbs[3])
  PROVE  /\ n.pre[t.bbs[3]] # <<>> => At(n, t.bbs[3], <<t.bbs[3]>>, ws, os, f)
         /\ n.pre[t.bbs[3]] = <<>> =>
              At(erase_from_parent(n, t.bbs[3]), t.bbs[1], <<t.bbs[3]>>, ws, os, f)
<1> DEFINE p == Over(f, t)
           a == t.bbs[1]
           b == t.bbs[3]
           w == erase_from_parent(n, b)
<1>1. /\ NewThree(f, t) /\ Good(p) /\ f.mode = "stmt" /\ p.mode = ModeOf(f, t)
      /\ p.loops = f.loops /\ f.from = {} /\ f.list = 1
      /\ p.conds = f.conds
      /\ p.own = f.own \cup {t.bbs[1], t.bbs[2], t.bbs[3]}
      /\ p.held = f.held \cup ({t.bbs[1], t.bbs[2], t.bbs[3]} \ Entered(t))
      /\ p.spare = f.spare \cup Spare(t)
  BY IfFields DEF IfTasks
<1>2. Entered(t) = {t.bbs[1], t.bbs[2]} /\ Spare(t) = {}
  BY DEF Entered, Spare
<1>3. At(m, ins, cbl, ws, os, p) /\ Closed(m, n, ins, p.held, b)
  OBVIOUS
<1>4. Kept(n, p) => Kept(n, f)
  BY KeptBelow
<1> HIDE DEF p
<1>5. a \notin f.own /\ b \notin f.own /\ a # b /\ b \in p.held /\ p.held \ {b} = f.held /\ a \in p.own
      /\ a \notin p.held
  BY <1>1, <1>2 DEF NewThree, Good
<1>6. Shape(m) /\ Kept(m, p) /\ ws = f.loops /\ os = f.conds
  BY <1>1, <1>3, AtFacts
<1>7. UnderWay(n, ins, p.held) /\ IsTerminated(n, ins) /\ Carries(m, n, {b}, {})
  BY <1>3 DEF Closed
<1>8. Kept(n, p)
  <2>1. {b} \cap p.spare = {} /\ {} \cap p.own = {}
    BY <1>1, <1>2, <1>5 DEF Good
  <2>2. QED
    BY <1>1, <1>6, <1>7, <2>1, KeptCarries
<1>9. ASSUME n.pre[b] # <<>> PROVE At(n, b, <<b>>, f.loops, f.conds, f)
  <2>1. UnderWay(n, b, p.held \ {b}) /\ ~ IsTerminated(n, b)
    BY <1>5, <1>7, <1>9, EnterHeld
  <2>2. UnderWay(n, b, f.held)
    BY <1>5, <2>1
  <2>3. QED
    BY <1>1, <1>4, <1>8, <2>1, <2>2, AtOpen
<1>10. ASSUME n.pre[b] = <<>> PROVE At(w, a, <<b>>, f.loops, f.conds, f)
  <2>1. Dropped(n, w, ins, p.held, b)
    BY <1>5, <1>7, <1>10, EraseDrops
  <2> HIDE DEF w
  <2>2. UnderWay(w, ins, f.held) /\ IsTerminated(w, ins)
    BY <1>5, <1>7, <2>1 DEF Dropped
  <2>3. InList(w) = InList(n) \ {b} /\ BBs(w) = BBs(n) /\ Carries(n, w, {}, {b}) /\ w.pre = n.pre
    BY <2>1 DEF Dropped
  <2>4. UnderWay(w, a, f.held) /\ IsTerminated(w, a)
    <3>1. a \in InList(w) \ f.held
      <4>1. a \in InList(n)
        BY <1>5, <1>8 DEF Kept
      <4>2. QED
        BY <1>5, <2>3, <4>1
    <3>2. QED
      BY <2>2, <3>1, MoveTo
  <2>5. Kept(w, f)
    <3>1. {} \cap f.spare = {} /\ {b} \cap f.own = {} /\ Shape(n)
      BY <1>5, <1>7 DEF UnderWay
    <3>2. QED
      BY <1>4, <1>8, <2>3, <3>1, KeptCarries
  <2>6. f.loops = <<>> => w.pre[ret_BB] # <<>>
    <3>1. IsTerminated(m, ins)
      BY <1>3, <1>10 DEF Closed
    <3>2. n.pre = m.pre
      BY <1>3, <3>1 DEF Closed
    <3>3. Place(m, ins, cbl, p)
      BY <1>3 DEF At
    <3>4. QED
      BY <1>1, <2>3, <3>1, <3>2, <3>3 DEF Place
  <2>7. Place(w, a, <<b>>, f)
    <3>1. Sequence(<<b>>) /\ Len(<<b>>) = 1 /\ <<b>>[1] = b
      BY ShortSequences
    <3>2. b \in BBs(w)
      BY <1>5, <1>7, <2>3, InsertListed DEF UnderWay
    <3>3. QED
      BY <1>1, <2>4, <2>6, <3>1, <3>2 DEF Place, OpenModes
  <2>8. QED
    BY <1>1, <2>4, <2>5, <2>7 DEF At, Promises
<1>11. QED
  BY <1>6, <1>9, <1>10

(* What the tasks of a loop leave. *)
LoopFrame(f, t, p) ==
  /\ NewThree(f, t) /\ Good(p) /\ f.mode = "stmt" /\ p.mode = ModeOf(f, t)
  /\ p.loops = Append(f.loops, <<t.bbs[1], t.bbs[3]>>) /\ f.from = {} /\ f.list = 1
  /\ p.list = IF t.task = "whileCond" THEN 0 ELSE 1
  /\ p.from = IF t.task = "whileCond" THEN {t.bbs[1]} ELSE {}
  /\ p.lead = IF t.task = "whileBody" THEN f.lead \cup {<<t.bbs[1], t.bbs[3]>>} ELSE f.lead
  /\ p.conds = IF t.task = "whileCond" THEN Append(f.conds, <<t.bbs[2], t.bbs[3]>>) ELSE f.conds
  /\ p.own = f.own \cup {t.bbs[1], t.bbs[2], t.bbs[3]}
  /\ p.held = f.held \cup ({t.bbs[1], t.bbs[2], t.bbs[3]} \ Entered(t))
  /\ p.spare = f.spare /\ p.fed = f.fed \cup Fed(t)

(* Over gives the tasks of a loop these fields.                            *)
LEMMA LoopFields ==
  ASSUME NEW f, NEW t, t.task \in LoopTasks, Good(f), Fits(f, t), NEW p, p = Over(f, t)
  PROVE  LoopFrame(f, t, p)
<1>1. Fields(f, t, p) /\ Good(p) /\ Kinds(f, t)
  BY OverFields, GoodOver, FitsKinds
<1>2. NewThree(f, t) /\ f.mode = "stmt"
  BY <1>1 DEF Kinds, LoopTasks
<1>3. f.from = {} /\ f.list = 1
  BY <1>2 DEF Good, StmtModes
<1>4. Own(t) = {t.bbs[1], t.bbs[2], t.bbs[3]} /\ Spare(t) = {}
  BY DEF Own, LoopTasks, IfTasks, Spare
<1>5. /\ LoopsOf(f, t) = Append(f.loops, <<t.bbs[1], t.bbs[3]>>)
      /\ CondsOf(f, t) = IF t.task = "whileCond" THEN Append(f.conds, <<t.bbs[2], t.bbs[3]>>) ELSE f.conds
  BY DEF LoopsOf, CondsOf, LoopTasks, CondPair
<1>6. QED
  BY <1>1, <1>2, <1>3, <1>4, <1>5 DEF Fields, LoopTasks, LoopFrame

(* A loop: the builder jumps to whileBB and visits the condition there.    *)
LEMMA BeginLoop ==
  ASSUME NEW m, NEW ins, NEW cbl, NEW ws, NEW os, NEW f, NEW v, Good(f), Fits(f, v),
         v.task = "visit", f.mode = "stmt", At(m, ins, cbl, ws, os, Over(f, v)),
         NEW t, t.task = "whileCond", Statement(f, t.node), t.node.k = "while",
         t.bbs[1] # t.bbs[2], t.bbs[1] # t.bbs[3], t.bbs[2] # t.bbs[3],
         NEW w, Added(m, w, {t.bbs[1], t.bbs[2], t.bbs[3]}),
         NEW u, u.task = "visit", u.node \in Conds
  PROVE  /\ Fits(f, t) /\ Fits(Over(f, t), u) /\ ~ IsTerminated(w, ins)
         /\ At(create_br(w, ins, t.bbs[1]), t.bbs[1], <<>>, Append(ws, <<t.bbs[1], t.bbs[3]>>),
               Append(os, <<t.bbs[2], t.bbs[3]>>), Over(Over(f, t), u))
<1> DEFINE o == Over(f, v)
           p == Over(f, t)
           q == Over(p, u)
           b == t.bbs[1]
           New == {t.bbs[1], t.bbs[2], t.bbs[3]}
           n == create_br(w, ins, b)
<1>1. Good(o) /\ Like(o, f) /\ o.mode = "stmtvisit"
  BY GoodOver, VisitLike
<1>2. At(m, ins, cbl, ws, os, o) /\ Added(m, w, New) /\ b \in New
  OBVIOUS
<1> HIDE DEF o, New
<1>3. /\ UnderWay(w, ins, f.held \cup New) /\ Kept(w, f)
      /\ \A a \in f.from : LeadsFrom(w, a, ins)
      /\ (IsTerminated(w, ins) <=> IsTerminated(m, ins))
      /\ New \cap f.own = {} /\ New \subseteq InList(w) \ {entryBB}
      /\ \A x \in New : w.pre[x] = <<>>
      /\ BBs(m) \subseteq BBs(w) /\ ins \in BBs(m)
  BY <1>1, <1>2, AtNewBlocks
<1>4. Place(m, ins, cbl, o) /\ ws = f.loops /\ os = f.conds
  BY <1>1, <1>2 DEF At, Like
<1>5. ~ IsTerminated(w, ins)
  BY <1>1, <1>3, <1>4 DEF Place, OpenModes
<1>6. Fits(f, t)
  BY <1>3 DEF Fits, NewThree, LoopTasks, New
<1>7. /\ Good(p) /\ p.mode = ModeOf(f, t)
      /\ p.loops = Append(f.loops, <<t.bbs[1], t.bbs[3]>>)
      /\ p.list = 0 /\ p.from = {b} /\ p.lead = f.lead
      /\ p.conds = Append(f.conds, <<t.bbs[2], t.bbs[3]>>)
      /\ p.own = f.own \cup {t.bbs[1], t.bbs[2], t.bbs[3]}
      /\ p.held = f.held \cup ({t.bbs[1], t.bbs[2], t.bbs[3]} \ Entered(t))
      /\ p.spare = f.spare /\ p.fed = f.fed \cup Fed(t)
  <2>1. LoopFrame(f, t, p)
    BY <1>6, LoopFields DEF LoopTasks
  <2>2. QED
    BY <2>1 DEF LoopFrame
<1>8. Entered(t) = {b} /\ Fed(t) = {}
  BY DEF Entered, Fed
<1>9. p.mode = "cond"
  BY <1>7 DEF ModeOf, CondTasks
<1> HIDE DEF p
<1>10. Fits(p, u)
  BY <1>9 DEF Fits
<1>11. Good(q) /\ Like(q, p) /\ q.mode = "condvisit"
  BY <1>7, <1>9, <1>10, GoodOver, VisitLike
<1> HIDE DEF q
<1>12. Branched(w, n, ins, f.held \cup New, {b})
  <2>1. b \in InList(w) \ {entryBB} /\ b \in f.held \cup New
    BY <1>2, <1>3
  <2>2. LeadsFrom(w, b, b)
    BY DEF LeadsFrom
  <2>3. QED
    BY <1>3, <1>5, <2>1, <2>2, Jump
<1> HIDE DEF n
<1>13. /\ UnderWay(n, ins, f.held \cup New) /\ IsTerminated(n, ins) /\ Carries(w, n, {b}, {})
       /\ n.pre[b] # <<>>
  BY <1>12 DEF Branched
<1>14. UnderWay(n, b, p.held) /\ ~ IsTerminated(n, b)
  <2>1. b \notin f.held
    BY <1>2, <1>3 DEF Good
  <2>2. b \in f.held \cup New /\ (f.held \cup New) \ {b} = p.held
    BY <1>2, <1>7, <1>8, <2>1 DEF New
  <2>3. UnderWay(n, b, (f.held \cup New) \ {b}) /\ ~ IsTerminated(n, b)
    BY <1>13, <2>2, EnterHeld
  <2>4. QED
    BY <2>2, <2>3
<1>15. Kept(n, q)
  <2>1. {b} \cap f.spare = {} /\ {} \cap f.own = {} /\ Shape(w)
    BY <1>2, <1>3 DEF Good, UnderWay
  <2>2. Kept(n, f)
    BY <1>3, <1>13, <2>1, KeptCarries
  <2>3. New \subseteq InList(n) \ {entryBB}
    BY <1>3, <1>13 DEF Carries
  <2>4. p.own = f.own \cup New /\ p.fed = f.fed
    BY <1>7, <1>8 DEF New
  <2>5. Kept(n, p)
    BY <1>7, <2>2, <2>3, <2>4 DEF Kept
  <2>6. QED
    BY <1>11, <2>5, KeptLike
<1>16. \A a \in q.from : LeadsFrom(n, a, b)
  BY <1>7, <1>11 DEF Like, LeadsFrom
<1>17. /\ q.held = p.held /\ q.loops = p.loops /\ q.conds = p.conds /\ q.list = 0
       /\ q.mode \in CondModes
  BY <1>7, <1>11 DEF Like, CondModes
<1>18. Sequence(<<>>) /\ Len(<<>>) = 0
  BY ShortSequences
<1>19. At(n, b, <<>>, q.loops, q.conds, q)
  BY <1>11, <1>14, <1>15, <1>16, <1>17, <1>18, AtOpen
<1>20. QED
  BY <1>4, <1>5, <1>6, <1>7, <1>10, <1>17, <1>19 DEF p, q, n

(* Its body. *)
LEMMA EnterLoop ==
  ASSUME NEW m, NEW ins, NEW cbl, NEW ws, NEW os, NEW f, NEW t, Good(f), Fits(f, t),
         t.task = "whileCond", At(m, ins, cbl, ws, os, Over(f, t)),
         NEW n, Branched(m, n, ins, Over(f, t).held, {t.bbs[2], t.bbs[3]}),
         NEW t2, t2.task = "whileBody", t2.node = t.node, t2.bbs = t.bbs,
         NEW u, u.task = "visit", u.node \in LoopStmts
  PROVE  /\ Fits(f, t2) /\ Fits(Over(f, t2), u)
         /\ At(n, t.bbs[2], <<t.bbs[2]>>, ws, f.conds, Over(Over(f, t2), u))
<1> DEFINE p == Over(f, t)
           p2 == Over(f, t2)
           q == Over(p2, u)
           a == t.bbs[1]
           b == t.bbs[2]
           c == t.bbs[3]
<1>1. /\ NewThree(f, t) /\ Good(p) /\ f.mode = "stmt"
      /\ p.loops = Append(f.loops, <<a, c>>)
      /\ p.from = {a} /\ p.lead = f.lead
      /\ p.own = f.own \cup {a, b, c}
      /\ p.held = f.held \cup ({a, b, c} \ Entered(t))
      /\ p.spare = f.spare /\ p.fed = f.fed \cup Fed(t)
  <2>1. LoopFrame(f, t, p)
    BY LoopFields DEF LoopTasks
  <2>2. QED
    BY <2>1 DEF LoopFrame
<1>2. Fits(f, t2)
  BY <1>1 DEF Fits, NewThree, IfTasks, CondTasks, LoopTasks
<1>3. t2.bbs[1] = a /\ t2.bbs[2] = b /\ t2.bbs[3] = c
  OBVIOUS
<1>4. /\ Good(p2) /\ p2.mode = ModeOf(f, t2)
      /\ p2.loops = Append(f.loops, <<a, c>>)
      /\ p2.list = 1 /\ p2.from = {} /\ p2.lead = f.lead \cup {<<a, c>>}
      /\ p2.conds = f.conds
      /\ p2.own = f.own \cup {a, b, c}
      /\ p2.held = f.held \cup ({a, b, c} \ Entered(t2))
      /\ p2.spare = f.spare /\ p2.fed = f.fed \cup Fed(t2)
  <2>1. LoopFrame(f, t2, p2)
    BY <1>2, LoopFields DEF LoopTasks
  <2>2. QED
    BY <1>3, <2>1 DEF LoopFrame
<1>5. Entered(t) = {a} /\ Entered(t2) = {a, b} /\ Fed(t) = {} /\ Fed(t2) = {c}
  BY DEF Entered, Fed
<1>6. At(m, ins, cbl, ws, os, p) /\ Branched(m, n, ins, p.held, {b, c})
  OBVIOUS
<1> HIDE DEF p, p2
<1>7. Shape(m) /\ Kept(m, p) /\ ws = p.loops /\ LeadsFrom(m, a, ins)
  <2>1. Shape(m) /\ Kept(m, p) /\ ws = p.loops
    BY <1>1, <1>6, AtFacts
  <2>2. QED
    BY <1>1, <1>6, <2>1 DEF At, Promises
<1>8. /\ UnderWay(n, ins, p.held) /\ IsTerminated(n, ins) /\ Carries(m, n, {b, c}, {})
      /\ n.pre[b] # <<>> /\ n.pre[c] # <<>> /\ LeadsFrom(n, a, c)
  BY <1>6, <1>7 DEF Branched
<1>9. b \notin f.own /\ c \notin f.own /\ b # c /\ b # a /\ c # a
  BY <1>1 DEF NewThree
<1>10. Kept(n, p)
  <2>1. {b, c} \cap p.spare = {} /\ {} \cap p.own = {}
    BY <1>1, <1>9 DEF Good
  <2>2. QED
    BY <1>1, <1>7, <1>8, <2>1, KeptCarries
<1>11. UnderWay(n, b, p2.held) /\ ~ IsTerminated(n, b)
  <2>0. b \notin f.held
    BY <1>9 DEF Good
  <2>1. b \in p.held /\ p.held \ {b} = p2.held
    BY <1>1, <1>4, <1>5, <1>9, <2>0
  <2>2. UnderWay(n, b, p.held \ {b}) /\ ~ IsTerminated(n, b)
    BY <1>8, <2>1, EnterHeld
  <2>3. QED
    BY <2>1, <2>2
<1>12. p2.mode = "stmt"
  BY <1>4 DEF ModeOf, CondTasks
<1>13. Fits(p2, u)
  <2>1. p2.loops # <<>>
    BY <1>4, AppendSequence DEF Good
  <2>2. QED
    BY <1>12, <2>1 DEF Fits, Statement
<1>14. Good(q) /\ Like(q, p2)
  BY <1>4, <1>13, GoodOver, VisitLike
<1> HIDE DEF q
<1>15. Kept(n, q)
  <2>1. p2.own = p.own /\ p2.spare = p.spare /\ p2.fed = p.fed \cup {c} /\ p2.lead = p.lead \cup {<<a, c>>}
    BY <1>1, <1>4, <1>5
  <2>2. <<a, c>>[1] = a /\ <<a, c>>[2] = c
    OBVIOUS
  <2>3. Kept(n, p2)
    BY <1>8, <1>10, <2>1, <2>2 DEF Kept
  <2>4. QED
    BY <1>14, <2>3, KeptLike
<1>16. q.held = p2.held /\ q.from = {} /\ q.loops = p.loops /\ q.conds = f.conds /\ q.list = 1
  BY <1>1, <1>4, <1>14 DEF Like
<1>17. At(n, b, <<b>>, q.loops, q.conds, q)
  BY <1>11, <1>14, <1>15, <1>16, AtOpen
<1>18. QED
  BY <1>2, <1>7, <1>13, <1>16, <1>17 DEF p2, q

(* After the body the builder goes on in nextBB. *)
LEMMA LeaveLoop ==
  ASSUME NEW m, NEW ins, NEW cbl, NEW ws, NEW os, NEW f, NEW t, Good(f), Fits(f, t),
         t.task = "whileBody", At(m, ins, cbl, ws, os, Over(f, t)),
         NEW n, Closed(m, n, ins, Over(f, t).held, t.bbs[1])
  PROVE  At(n, t.bbs[3], <<t.bbs[3]>>, f.loops, os, f)
<1> DEFINE p == Over(f, t)
           a == t.bbs[1]
           b == t.bbs[3]
<1>1. /\ NewThree(f, t) /\ Good(p) /\ f.mode = "stmt" /\ f.from = {} /\ f.list = 1
      /\ p.conds = f.conds
      /\ p.own = f.own \cup {t.bbs[1], t.bbs[2], t.bbs[3]}
      /\ p.held = f.held \cup ({t.bbs[1], t.bbs[2], t.bbs[3]} \ Entered(t))
      /\ p.spare = f.spare /\ p.fed = f.fed \cup Fed(t)
  <2>1. LoopFrame(f, t, p)
    BY LoopFields DEF LoopTasks
  <2>2. QED
    BY <2>1 DEF LoopFrame
<1>2. Entered(t) = {t.bbs[1], t.bbs[2]} /\ Fed(t) = {b}
  BY DEF Entered, Fed
<1>3. At(m, ins, cbl, ws, os, p) /\ Closed(m, n, ins, p.held, a)
  OBVIOUS
<1>4. Kept(n, p) => Kept(n, f)
  BY KeptBelow
<1> HIDE DEF p
<1>5. a \notin f.own /\ b \notin f.own /\ b \notin f.held
  BY <1>1 DEF NewThree, Good
<1>6. b \in p.held /\ p.held \ {b} = f.held /\ b \in p.fed
  BY <1>1, <1>2, <1>5 DEF NewThree
<1>7. Shape(m) /\ Kept(m, p) /\ os = f.conds
  BY <1>1, <1>3, AtFacts
<1>8. UnderWay(n, ins, p.held) /\ IsTerminated(n, ins) /\ Carries(m, n, {a}, {})
  BY <1>3 DEF Closed
<1>9. Kept(n, p)
  <2>1. {a} \cap p.spare = {} /\ {} \cap p.own = {}
    BY <1>1, <1>5 DEF Good
  <2>2. QED
    BY <1>1, <1>7, <1>8, <2>1, KeptCarries
<1>10. UnderWay(n, b, f.held) /\ ~ IsTerminated(n, b)
  <2>1. n.pre[b] # <<>>
    BY <1>6, <1>9 DEF Kept
  <2>2. UnderWay(n, b, p.held \ {b}) /\ ~ IsTerminated(n, b)
    BY <1>6, <1>8, <2>1, EnterHeld
  <2>3. QED
    BY <1>6, <2>2
<1>11. At(n, b, <<b>>, f.loops, f.conds, f)
  BY <1>1, <1>4, <1>9, <1>10, AtOpen
<1>12. QED
  BY <1>7, <1>11

-----------------------------------------------------------------------------
(***************************************************************************)
(* The nodes visited                                                       *)
(***************************************************************************)
LEMMA CondNode ==
  ASSUME NEW c \in Conds
  PROVE  c.k \in {"atom", "and", "or"} /\ (c.k # "atom" => c.lhs \in Conds /\ c.rhs \in Conds)
BY FunctionAssumption

StmtParts(f, s) ==
  /\ s.k \in {"act", "decl", "ret", "empty", "brk", "cont", "block", "if", "while"}
  /\ s.k \in {"brk", "cont"} => f.loops # <<>>
  /\ s.k = "block" => /\ Sequence(s.body)
                      /\ \A k \in 1 .. Len(s.body) : Statement(f, s.body[k])
  /\ s.k = "if" => /\ s.cond \in Conds /\ Statement(f, s.then)
                   /\ s.else.k = "none" \/ Statement(f, s.else)
  /\ s.k = "while" => s.cond \in Conds /\ s.body \in LoopStmts

(* A statement has the parts FunctionAssumption says.                      *)
LEMMA StmtNode ==
  ASSUME NEW f, NEW s, Statement(f, s)
  PROVE  StmtParts(f, s)
<1>1. ASSUME NEW S, MadeOf(S, f.loops # <<>>), s \in S, \A x \in S : Statement(f, x)
      PROVE  StmtParts(f, s)
  <2>1. \/ s.k \in {"act", "decl", "ret", "empty"}
        \/ s.k \in {"brk", "cont"} /\ f.loops # <<>>
        \/ s.k = "block" /\ s.body \in Seq(S)
        \/ s.k = "if" /\ s.cond \in Conds /\ s.then \in S /\ (s.else.k = "none" \/ s.else \in S)
        \/ s.k = "while" /\ s.cond \in Conds /\ s.body \in LoopStmts
    BY <1>1 DEF MadeOf
  <2>2. ASSUME s.body \in Seq(S)
        PROVE  Sequence(s.body) /\ \A k \in 1 .. Len(s.body) : Statement(f, s.body[k])
    BY <1>1, <2>2, TypedSequence
  <2>3. QED
    BY <1>1, <2>1, <2>2 DEF StmtParts
<1>2. CASE s \in Stmts
  <2>1. MadeOf(Stmts, FALSE)
    BY FunctionAssumption
  <2>2. MadeOf(Stmts, f.loops # <<>>)
    BY <2>1 DEF MadeOf
  <2>3. \A x \in Stmts : Statement(f, x)
    BY DEF Statement
  <2>4. QED
    BY <1>1, <1>2, <2>2, <2>3
<1>3. CASE s \in LoopStmts /\ f.loops # <<>>
  <2>1. MadeOf(LoopStmts, TRUE)
    BY FunctionAssumption
  <2>2. MadeOf(LoopStmts, f.loops # <<>>)
    BY <1>3, <2>1 DEF MadeOf
  <2>3. \A x \in LoopStmts : Statement(f, x)
    BY <1>3 DEF Statement
  <2>4. QED
    BY <1>1, <1>3, <2>2, <2>3
<1>4. QED
  BY <1>2, <1>3 DEF Statement

(* A visit of a condition stands on cond, one of a statement on stmt.      *)
LEMMA VisitNode ==
  ASSUME NEW f, NEW t, Fits(f, t), t.task = "visit"
  PROVE  /\ t.node.k \in {"atom", "and", "or"} => f.mode = "cond" /\ t.node \in Conds
         /\ t.node.k \notin {"atom", "and", "or"} => f.mode = "stmt" /\ Statement(f, t.node)
<1>1. \/ f.mode = "stmt" /\ Statement(f, t.node)
      \/ f.mode = "cond" /\ t.node \in Conds
  BY DEF Fits, IfTasks, LoopTasks
<1>2. Statement(f, t.node) => t.node.k \notin {"atom", "and", "or"}
  BY StmtNode DEF StmtParts
<1>3. t.node \in Conds => t.node.k \in {"atom", "and", "or"}
  BY CondNode
<1>4. QED
  BY <1>1, <1>2, <1>3

-----------------------------------------------------------------------------
(***************************************************************************)
(* The inductive invariant                                                 *)
(***************************************************************************)
Going(ag, m, ins, cbl, ws, os) ==
  ag # <<>> /\ \E f : Leaves(ag, f) /\ At(m, ins, cbl, ws, os, f)

Begun ==
  /\ agenda = <<After("func", prog, <<>>)>>
  /\ ir = [code |-> <<>>, pre |-> <<>>, succ |-> <<>>, list |-> <<>>]
  /\ insert = 0 /\ cur_basic_block_list = <<>> /\ While_Stack = <<>> /\ Or_Cond_Stack = <<>>

Ended ==
  /\ agenda = <<>> /\ Complete(ir) /\ insert = ret_BB
  /\ cur_basic_block_list = <<>> /\ While_Stack = <<>> /\ Or_Cond_Stack = <<>>

IInv ==
  /\ prog \in Programs /\ fault = FALSE /\ pre_enter_scope \in BOOLEAN
  /\ \/ Begun \/ Ended
     \/ Going(agenda, ir, insert, cur_basic_block_list, While_Stack, Or_Cond_Stack)

(* g is what the tasks below the top of ag left. *)
Before(ag, m, ins, cbl, ws, os, g) ==
  /\ ag # <<>> /\ Sequence(ag) /\ Sequence(Front(ag)) /\ Leaves(Front(ag), g) /\ Fits(g, Last(ag)) /\ Good(g)
  /\ Good(Over(g, Last(ag))) /\ At(m, ins, cbl, ws, os, Over(g, Last(ag)))

(* The top of the agenda stands on what the tasks below it left.           *)
LEMMA GoingBefore ==
  ASSUME NEW ag, NEW m, NEW ins, NEW cbl, NEW ws, NEW os, Going(ag, m, ins, cbl, ws, os)
  PROVE  \E g : Before(ag, m, ins, cbl, ws, os, g)
<1>1. PICK f : ag # <<>> /\ Leaves(ag, f) /\ At(m, ins, cbl, ws, os, f)
  BY DEF Going
<1>2. PICK g : /\ Leaves(Front(ag), g) /\ Fits(g, Last(ag)) /\ f = Over(g, Last(ag))
               /\ Good(g) /\ Good(f)
  BY <1>1, LeavesFewer
<1>3. Sequence(ag) /\ Sequence(Front(ag))
  BY <1>1, <1>2, LeavesGood
<1>4. QED
  BY <1>1, <1>2, <1>3 DEF Before

(* So does a visit or a rest of one that a step takes off.                 *)
LEMMA StepFrom ==
  ASSUME IInv, agenda # <<>>, Top.task # "func"
  PROVE  /\ prog \in Programs /\ fault = FALSE /\ pre_enter_scope \in BOOLEAN
         /\ \E g : Before(agenda, ir, insert, cur_basic_block_list, While_Stack, Or_Cond_Stack, g)
<1>1. ~ Begun
  <2>1. SUFFICES ASSUME Begun PROVE FALSE
    OBVIOUS
  <2>2. Last(<<After("func", prog, <<>>)>>) = After("func", prog, <<>>)
    BY ShortSequences, FrontSequence
  <2>3. QED
    BY <2>1, <2>2 DEF Begun, Top, After
<1>2. Going(agenda, ir, insert, cur_basic_block_list, While_Stack, Or_Cond_Stack)
  BY <1>1 DEF IInv, Ended
<1>3. QED
  BY <1>2, GoingBefore DEF IInv

(* One, two or no tasks are put in the place of the top of the agenda.     *)
LEMMA GoingOne ==
  ASSUME NEW s, NEW g, Leaves(s, g), NEW t, Fits(g, t),
         NEW m, NEW ins, NEW cbl, NEW ws, NEW os, At(m, ins, cbl, ws, os, Over(g, t))
  PROVE  Going(s \o <<t>>, m, ins, cbl, ws, os)
<1>1. Sequence(s)
  BY LeavesGood
<1>2. s \o <<t>> = Append(s, t) /\ Append(s, t) # <<>>
  BY <1>1, ConcatOne, AppendSequence
<1>3. Leaves(s \o <<t>>, Over(g, t))
  BY <1>2, LeavesMore
<1>4. QED
  BY <1>2, <1>3 DEF Going

(* Two tasks are put on the agenda one after the other.                    *)
LEMMA ConcatTwo ==
  ASSUME NEW s, Sequence(s), NEW a, NEW b
  PROVE  s \o <<a, b>> = Append(Append(s, a), b)
<1> DEFINE t == <<a, b>>
           u == Append(s, a)
           r == Append(u, b)
           l == s \o t
<1>1. Sequence(t) /\ Len(t) = 2 /\ t[1] = a /\ t[2] = b
  BY ShortSequences
<1>2. Sequence(u) /\ Len(u) = Len(s) + 1 /\ (\A k \in 1 .. Len(s) : u[k] = s[k]) /\ u[Len(s) + 1] = a
  BY AppendSequence
<1> HIDE DEF t, u
<1>3. Sequence(r) /\ Len(r) = Len(u) + 1 /\ (\A k \in 1 .. Len(u) : r[k] = u[k]) /\ r[Len(u) + 1] = b
  <2>1. Sequence(u)
    BY <1>2
  <2>2. QED
    BY <2>1, AppendSequence
<1>4. /\ Sequence(l) /\ Len(l) = Len(s) + 2 /\ (\A k \in 1 .. Len(s) : l[k] = s[k])
      /\ \A k \in 1 .. 2 : l[Len(s) + k] = t[k]
  <2>1. /\ Sequence(l) /\ Len(l) = Len(s) + Len(t) /\ (\A k \in 1 .. Len(s) : l[k] = s[k])
        /\ \A k \in 1 .. Len(t) : l[Len(s) + k] = t[k]
    <3>1. Sequence(s) /\ Sequence(t)
      BY <1>1
    <3>2. QED
      BY <3>1, ConcatSequence
  <2>2. QED
    BY <1>1, <2>1
<1>5. Len(s) \in Nat
  BY SequenceFacts1
<1> HIDE DEF r, l
<1>6. Len(l) = Len(r) /\ l[Len(s) + 1] = a /\ l[Len(s) + 2] = b /\ r[Len(s) + 1] = a /\ r[Len(s) + 2] = b
  <2>1. 1 \in 1 .. 2 /\ 2 \in 1 .. 2 /\ Len(s) + 1 \in 1 .. Len(u) /\ Len(u) + 1 = Len(s) + 2
    BY <1>2, <1>5
  <2>2. QED
    BY <1>1, <1>2, <1>3, <1>4, <1>5, <2>1
<1>7. ASSUME NEW k \in 1 .. Len(l) PROVE l[k] = r[k]
  <2>1. k \in 1 .. Len(s) \/ k = Len(s) + 1 \/ k = Len(s) + 2
    BY <1>4, <1>5
  <2>2. CASE k \in 1 .. Len(s)
    <3>1. k \in 1 .. Len(u)
      BY <1>2, <1>5, <2>2
    <3>2. QED
      BY <1>2, <1>3, <1>4, <2>2, <3>1
  <2>3. QED
    BY <1>6, <2>1, <2>2
<1>8. l = r
  BY <1>3, <1>4, <1>6, <1>7, SequenceEqual
<1>9. QED
  BY <1>8 DEF l, r, u, t

(* Two tasks are put in the place of the top.                              *)
LEMMA GoingTwo ==
  ASSUME NEW s, NEW g, Leaves(s, g), NEW t, Fits(g, t), NEW u, Fits(Over(g, t), u),
         NEW m, NEW ins, NEW cbl, NEW ws, NEW os, At(m, ins, cbl, ws, os, Over(Over(g, t), u))
  PROVE  Going(s \o <<t, u>>, m, ins, cbl, ws, os)
<1>1. Sequence(s)
  BY LeavesGood
<1>2. Sequence(Append(s, t)) /\ Append(Append(s, t), u) # <<>>
  BY <1>1, AppendSequence
<1>3. s \o <<t, u>> = Append(Append(s, t), u)
  BY <1>1, ConcatTwo
<1>4. Leaves(Append(s, t), Over(g, t))
  BY LeavesMore
<1>5. Leaves(s \o <<t, u>>, Over(Over(g, t), u))
  BY <1>3, <1>4, LeavesMore
<1>6. QED
  BY <1>2, <1>3, <1>5 DEF Going

(* No task is: the tasks below go on.                                      *)
LEMMA GoingBack ==
  ASSUME NEW s, NEW g, Leaves(s, g), g.mode # "start",
         NEW m, NEW ins, NEW cbl, NEW ws, NEW os, At(m, ins, cbl, ws, os, g)
  PROVE  Going(s, m, ins, cbl, ws, os)
<1>1. s # <<>>
  <2>1. s = <<>> => g = Outside
    BY LeavesGood
  <2>2. Outside.mode = "start"
    BY DEF Outside
  <2>3. QED
    BY <2>1, <2>2
<1>2. QED
  BY <1>1 DEF Going

-----------------------------------------------------------------------------
(***************************************************************************)
(* Each step keeps the invariant                                           *)
(***************************************************************************)
(* g is what the visits below the one on top left. *)
On(g) ==
  /\ prog \in Programs /\ fault = FALSE /\ pre_enter_scope \in BOOLEAN
  /\ Leaves(Front(agenda), g) /\ Fits(g, Top) /\ Good(g) /\ Good(Over(g, Top))
  /\ At(ir, insert, cur_basic_block_list, While_Stack, Or_Cond_Stack, Over(g, Top))

(* Before a step of a function that is begun there is such a g.            *)
LEMMA Opening ==
  ASSUME IInv, agenda # <<>>, Top.task # "func"
  PROVE  \E g : On(g)
<1>1. PICK g : Before(agenda, ir, insert, cur_basic_block_list, While_Stack, Or_Cond_Stack, g)
  BY StepFrom
<1>2. QED
  BY <1>1, StepFrom DEF Before, On, Top

(* A visit of a node of kind k. *)
LEMMA VisitOpening ==
  ASSUME IInv, NEW k, Visiting(k)
  PROVE  \E g : /\ On(g) /\ Like(Over(g, Top), g) /\ Top.task = "visit" /\ Top.node.k = k
                /\ k \in {"atom", "and", "or"} => g.mode = "cond" /\ Top.node \in Conds
                     /\ Over(g, Top).mode = "condvisit" /\ ~ IsTerminated(ir, insert)
                /\ k \notin {"atom", "and", "or"} => g.mode = "stmt" /\ Statement(g, Top.node)
                     /\ Over(g, Top).mode = "stmtvisit" /\ ~ IsTerminated(ir, insert)
                     /\ cur_basic_block_list = <<insert>> /\ StmtParts(g, Top.node)
<1>1. agenda # <<>> /\ Top.task = "visit" /\ Top.node.k = k
  BY DEF Visiting, Doing
<1>2. PICK g : On(g)
  BY <1>1, Opening
<1> DEFINE t == Top
           o == Over(g, t)
<1>3. /\ Fits(g, t) /\ Good(g) /\ t.task = "visit"
      /\ At(ir, insert, cur_basic_block_list, While_Stack, Or_Cond_Stack, o)
  BY <1>1, <1>2 DEF On
<1>4. Like(o, g) /\ o.mode = IF g.mode = "cond" THEN "condvisit" ELSE "stmtvisit"
  BY <1>3, VisitLike
<1>5. /\ k \in {"atom", "and", "or"} => g.mode = "cond" /\ t.node \in Conds
      /\ k \notin {"atom", "and", "or"} => g.mode = "stmt" /\ Statement(g, t.node)
  BY <1>1, <1>3, VisitNode
<1>6. ~ IsTerminated(ir, insert) /\ (o.mode = "stmtvisit" => cur_basic_block_list = <<insert>>)
  <2> HIDE DEF o
  <2>1. Place(ir, insert, cur_basic_block_list, o)
    BY <1>3 DEF At
  <2>2. o.mode \in {"condvisit", "stmtvisit"}
    BY <1>4
  <2>3. QED
    BY <2>1, <2>2 DEF Place, OpenModes, StmtModes
<1>7. k \notin {"atom", "and", "or"} => StmtParts(g, t.node)
  BY <1>5, StmtNode
<1> HIDE DEF o, t
<1>8. QED
  BY <1>1, <1>2, <1>4, <1>5, <1>6, <1>7 DEF o, t

(* Actions of one statement or condition: only the function changes.       *)
LEMMA ReturnKeeps ==
  ASSUME NEW g, On(g), Return, prog' = prog, fault' = FALSE, pre_enter_scope' \in BOOLEAN,
         g.mode # "start", At(ir', insert', cur_basic_block_list', While_Stack', Or_Cond_Stack', g)
  PROVE  IInv'
<1>1. Leaves(Front(agenda), g) /\ agenda' = Front(agenda) /\ prog \in Programs
  BY DEF On, Return
<1>2. Going(Front(agenda), ir', insert', cur_basic_block_list', While_Stack', Or_Cond_Stack')
  BY <1>1, GoingBack
<1>3. QED
  BY <1>1, <1>2 DEF IInv

(* A step that puts one task in the place of the top.                      *)
LEMMA ContinueOneKeeps ==
  ASSUME NEW g, On(g), NEW t, Continue(<<t>>), prog' = prog, fault' = FALSE, pre_enter_scope' \in BOOLEAN,
         Fits(g, t), At(ir', insert', cur_basic_block_list', While_Stack', Or_Cond_Stack', Over(g, t))
  PROVE  IInv'
<1>1. Leaves(Front(agenda), g) /\ agenda' = Front(agenda) \o <<t>> /\ prog \in Programs
  BY DEF On, Continue
<1>2. Going(Front(agenda) \o <<t>>, ir', insert', cur_basic_block_list', While_Stack', Or_Cond_Stack')
  BY <1>1, GoingOne
<1>3. QED
  BY <1>1, <1>2 DEF IInv

(* A step that puts two.                                                   *)
LEMMA ContinueTwoKeeps ==
  ASSUME NEW g, On(g), NEW t, NEW u, Continue(<<t, u>>), prog' = prog, fault' = FALSE,
         pre_enter_scope' \in BOOLEAN, Fits(g, t), Fits(Over(g, t), u),
         At(ir', insert', cur_basic_block_list', While_Stack', Or_Cond_Stack', Over(Over(g, t), u))
  PROVE  IInv'
<1>1. Leaves(Front(agenda), g) /\ agenda' = Front(agenda) \o <<t, u>> /\ prog \in Programs
  BY DEF On, Continue
<1>2. Going(Front(agenda) \o <<t, u>>, ir', insert', cur_basic_block_list', While_Stack', Or_Cond_Stack')
  BY <1>1, GoingTwo
<1>3. QED
  BY <1>1, <1>2 DEF IInv

(* A statement or an atom leaves the block it fills open. *)
LEMMA PlainKeeps ==
  ASSUME NEW g, On(g), Like(Over(g, Top), g), g.mode # "start", Return, prog' = prog, fault' = FALSE,
         pre_enter_scope' \in BOOLEAN,
         UNCHANGED <<insert, cur_basic_block_list, While_Stack, Or_Cond_Stack>>,
         UnderWay(ir', insert, g.held), ~ IsTerminated(ir', insert), SameGraph(ir, ir')
  PROVE  IInv'
<1> DEFINE o == Over(g, Top)
<1>1. /\ Good(g) /\ Good(o) /\ Like(o, g)
      /\ At(ir, insert, cur_basic_block_list, While_Stack, Or_Cond_Stack, o)
  BY DEF On
<1> HIDE DEF o
<1>2. At(ir', insert, cur_basic_block_list, While_Stack, Or_Cond_Stack, g)
  BY <1>1, AtLike
<1>3. QED
  BY <1>2, ReturnKeeps

(* The empty statement changes tmp_val only.                               *)
LEMMA EmptyStmtKeeps ==
  ASSUME IInv, EmptyStmt
  PROVE  IInv'
<1>1. Visiting("empty") /\ Return /\ ir' = ir /\ prog' = prog /\ fault' = fault /\ pre_enter_scope' = pre_enter_scope
      /\ UNCHANGED <<insert, cur_basic_block_list, While_Stack, Or_Cond_Stack>>
  BY DEF EmptyStmt
<1>2. PICK g : On(g) /\ Like(Over(g, Top), g) /\ g.mode = "stmt" /\ ~ IsTerminated(ir, insert)
  BY <1>1, VisitOpening
<1>3. UnderWay(ir, insert, g.held) /\ fault = FALSE /\ pre_enter_scope \in BOOLEAN
  BY <1>2 DEF On, At, Like
<1>4. SameGraph(ir, ir)
  BY SameGraphItself
<1>5. QED
  BY <1>1, <1>2, <1>3, <1>4, PlainKeeps

(* An instruction that is no terminator leaves the block open. *)
LEMMA EmitOpen ==
  ASSUME NEW m, NEW ins, NEW H, UnderWay(m, ins, H), ~ IsTerminated(m, ins), NEW i,
         i.op \in {"act", "eval"}, NEW n, n = Emit(m, ins, i)
  PROVE  UnderWay(n, ins, H) /\ ~ IsTerminated(n, ins) /\ SameGraph(m, n)
<1>1. Shape(m) /\ ins \in BBs(m)
  BY InsertListed DEF UnderWay
<1>2. Emitted(m, n, ins, i)
  BY <1>1, EmitFacts
<1>3. i.op \notin Terminators /\ i.op # "alloca"
  BY DEF Terminators
<1>4. QED
  BY <1>2, <1>3, EmitPlain

(* A statement that computes adds to the block being filled.               *)
LEMMA VisitActKeeps ==
  ASSUME IInv, VisitAct
  PROVE  IInv'
<1> DEFINE i == [op |-> "act", id |-> node.id, decl |-> find(scope, node.name)]
<1>1. Visiting("act") /\ Return /\ ir' = Emit(ir, insert, i) /\ prog' = prog /\ fault' = fault
      /\ pre_enter_scope' = pre_enter_scope
      /\ UNCHANGED <<insert, cur_basic_block_list, While_Stack, Or_Cond_Stack>>
  BY DEF VisitAct
<1>2. PICK g : On(g) /\ Like(Over(g, Top), g) /\ g.mode = "stmt" /\ ~ IsTerminated(ir, insert)
  BY <1>1, VisitOpening
<1>3. UnderWay(ir, insert, g.held) /\ fault = FALSE /\ pre_enter_scope \in BOOLEAN
  BY <1>2 DEF On, At, Like
<1>4. i.op = "act"
  OBVIOUS
<1> HIDE DEF i
<1>5. UnderWay(ir', insert, g.held) /\ ~ IsTerminated(ir', insert) /\ SameGraph(ir, ir')
  BY <1>1, <1>2, <1>3, <1>4, EmitOpen
<1>6. QED
  BY <1>1, <1>2, <1>3, <1>5, PlainKeeps

(* So does a condition without && and ||.                                  *)
LEMMA VisitAtomKeeps ==
  ASSUME IInv, VisitAtom
  PROVE  IInv'
<1> DEFINE i == [op |-> "eval", id |-> node.id]
<1>1. Visiting("atom") /\ Return /\ ir' = Emit(ir, insert, i) /\ prog' = prog /\ fault' = fault
      /\ pre_enter_scope' = pre_enter_scope
      /\ UNCHANGED <<insert, cur_basic_block_list, While_Stack, Or_Cond_Stack>>
  BY DEF VisitAtom
<1>2. PICK g : On(g) /\ Like(Over(g, Top), g) /\ g.mode = "cond" /\ ~ IsTerminated(ir, insert)
  BY <1>1, VisitOpening
<1>3. UnderWay(ir, insert, g.held) /\ fault = FALSE /\ pre_enter_scope \in BOOLEAN
  BY <1>2 DEF On, At, Like
<1>4. i.op = "eval"
  OBVIOUS
<1> HIDE DEF i
<1>5. UnderWay(ir', insert, g.held) /\ ~ IsTerminated(ir', insert) /\ SameGraph(ir, ir')
  BY <1>1, <1>2, <1>3, <1>4, EmitOpen
<1>6. QED
  BY <1>1, <1>2, <1>3, <1>5, PlainKeeps

(* The alloca is on the end of the block VarDef takes it off. *)
LEMMA AllocaOnEnd ==
  ASSUME NEW m, NEW ins, NEW H, UnderWay(m, ins, H), NEW i, NEW n,
         n = IF (IF IsTerminated(m, entryBB) THEN <<Last(m.code[entryBB])>> ELSE <<>>) = <<>>
               THEN m ELSE PopBack(m, entryBB)
  PROVE  Emit(n, ins, i).code[ins] # <<>>
<1> DEFINE c == m.code[entryBB]
<1>1. Shape(m) /\ ins \in BBs(m) /\ entryBB \in BBs(m)
  BY InsertListed DEF UnderWay
<1>2. Sequence(c)
  BY <1>1, EdgeLists
<1>3. n = m \/ (c # <<>> /\ n = [m EXCEPT !.code[entryBB] = Front(c)])
  BY DEF IsTerminated, PopBack
<1>4. Shape(n) /\ BBs(n) = BBs(m)
  <2>1. CASE n = m
    BY <1>1, <2>1
  <2>2. CASE c # <<>> /\ n = [m EXCEPT !.code[entryBB] = Front(c)]
    <3> HIDE DEF c
    <3>1. Sequence(Front(c))
      BY <1>2, <2>2, FrontSequence
    <3>2. OtherCode(m, n, entryBB, Front(c))
      BY <1>1, <2>2, WithCode
    <3>3. QED
      BY <1>1, <3>1, <3>2, OtherCodeShape
  <2>3. QED
    BY <1>3, <2>1, <2>2
<1>5. Emitted(n, Emit(n, ins, i), ins, i)
  BY <1>1, <1>4, EmitFacts
<1>6. Emit(n, ins, i).code[ins] = Append(n.code[ins], i)
  BY <1>5 DEF Emitted
<1>7. Sequence(n.code[ins])
  BY <1>1, <1>4, EdgeLists
<1>8. QED
  BY <1>6, <1>7, AppendSequence

(* What VarDef does is to move its alloca: the list is never empty.        *)
LEMMA VarDefKeeps ==
  ASSUME IInv, VarDef
  PROVE  IInv'
<1> DEFINE here == Last(cur_basic_block_list)
           alloca == [op |-> "alloca", id |-> node.id]
           i == [op |-> "act", id |-> node.id, decl |-> node.id]
           terminator == IF IsTerminated(ir, entryBB) THEN <<Last(ir.code[entryBB])>> ELSE <<>>
           m1 == IF terminator = <<>> THEN ir ELSE PopBack(ir, entryBB)
           a == Allocated(ir, insert, here, alloca)
<1>1. /\ Visiting("decl") /\ Return /\ ir' = Emit(a, insert, i) /\ prog' = prog
      /\ fault' = (fault \/ Emit(m1, insert, alloca).code[here] = <<>>)
      /\ pre_enter_scope' = pre_enter_scope
      /\ UNCHANGED <<insert, cur_basic_block_list, While_Stack, Or_Cond_Stack>>
  BY DEF VarDef, Allocated
<1>2. PICK g : On(g) /\ Like(Over(g, Top), g) /\ g.mode = "stmt" /\ ~ IsTerminated(ir, insert)
               /\ cur_basic_block_list = <<insert>>
  BY <1>1, VisitOpening
<1>3. UnderWay(ir, insert, g.held) /\ fault = FALSE /\ pre_enter_scope \in BOOLEAN
  BY <1>2 DEF On, At, Like
<1>4. here = insert
  BY <1>2, ShortSequences, FrontSequence
<1>5. i.op = "act" /\ alloca.op = "alloca"
  OBVIOUS
<1>6. Emit(m1, insert, alloca).code[here] # <<>>
  BY <1>3, <1>4, AllocaOnEnd
<1> HIDE DEF i, alloca, here, m1
<1>7. UnderWay(a, insert, g.held) /\ ~ IsTerminated(a, insert) /\ SameGraph(ir, a)
  BY <1>2, <1>3, <1>4, <1>5, AllocatedUnderWay
<1> HIDE DEF a
<1>8. UnderWay(ir', insert, g.held) /\ ~ IsTerminated(ir', insert) /\ SameGraph(a, ir')
  BY <1>1, <1>5, <1>7, EmitOpen
<1>9. SameGraph(ir, ir')
  BY <1>7, <1>8 DEF SameGraph
<1>10. fault' = FALSE
  BY <1>1, <1>3, <1>6
<1>11. QED
  BY <1>1, <1>2, <1>3, <1>8, <1>9, <1>10, PlainKeeps

(* A jump to one of the blocks of the visits below. *)
LEMMA JumpKeeps ==
  ASSUME NEW g, On(g), Like(Over(g, Top), g), g.mode = "stmt", Return, prog' = prog, fault' = FALSE,
         pre_enter_scope' \in BOOLEAN,
         UNCHANGED <<insert, cur_basic_block_list, While_Stack, Or_Cond_Stack>>,
         NEW m, UnderWay(m, insert, g.held), ~ IsTerminated(m, insert), SameGraph(ir, m),
         NEW b \in g.own \ g.spare, g.loops = <<>> => b = ret_BB,
         NEW h \in g.held, LeadsFrom(m, b, h), ir' = create_br(m, insert, b)
  PROVE  IInv'
<1> DEFINE o == Over(g, Top)
<1>1. /\ Good(g) /\ Good(o) /\ Like(o, g)
      /\ At(ir, insert, cur_basic_block_list, While_Stack, Or_Cond_Stack, o)
  BY DEF On
<1> HIDE DEF o
<1>2. At(m, insert, cur_basic_block_list, While_Stack, Or_Cond_Stack, g)
  <2>1. g.mode \in OpenModes => ~ IsTerminated(m, insert)
    OBVIOUS
  <2>2. QED
    BY <1>1, <2>1, AtLike
<1>3. b \in InList(m) \ {entryBB}
  BY <1>1, <1>2, AtFacts
<1>4. Branched(m, ir', insert, g.held, {b})
  BY <1>3, Jump
<1>5. Like(g, g)
  BY DEF Like
<1>6. At(ir', insert, cur_basic_block_list, While_Stack, Or_Cond_Stack, g)
  BY <1>1, <1>2, <1>4, <1>5, AtJump
<1>7. QED
  BY <1>6, ReturnKeeps

(* return jumps to ret_BB.                                                 *)
LEMMA ReturnStmtKeeps ==
  ASSUME IInv, ReturnStmt
  PROVE  IInv'
<1> DEFINE i == [op |-> "act", id |-> node.id, decl |-> NULL]
           m == IF prog.void THEN ir ELSE Emit(ir, insert, i)
<1>1. /\ Visiting("ret") /\ Return /\ ir' = create_br(m, insert, ret_BB) /\ prog' = prog /\ fault' = fault
      /\ pre_enter_scope' = pre_enter_scope
      /\ UNCHANGED <<insert, cur_basic_block_list, While_Stack, Or_Cond_Stack>>
  BY DEF ReturnStmt
<1>2. PICK g : On(g) /\ Like(Over(g, Top), g) /\ g.mode = "stmt" /\ ~ IsTerminated(ir, insert)
  BY <1>1, VisitOpening
<1>3. UnderWay(ir, insert, g.held) /\ fault = FALSE /\ pre_enter_scope \in BOOLEAN
  BY <1>2 DEF On, At, Like
<1>4. i.op = "act"
  OBVIOUS
<1> HIDE DEF i
<1>5. UnderWay(m, insert, g.held) /\ ~ IsTerminated(m, insert) /\ SameGraph(ir, m)
  <2>1. CASE prog.void
    BY <1>2, <1>3, <2>1, SameGraphItself
  <2>2. CASE ~ prog.void
    BY <1>2, <1>3, <1>4, <2>2, EmitOpen
  <2>3. QED
    BY <2>1, <2>2
<1> HIDE DEF m
<1>6. ret_BB \in g.own \ g.spare /\ ret_BB \in g.held
  BY <1>2 DEF On, Good
<1>7. LeadsFrom(m, ret_BB, ret_BB)
  BY DEF LeadsFrom
<1>8. QED
  BY <1>1, <1>2, <1>3, <1>5, <1>6, <1>7, JumpKeeps

(* break and continue are in a loop. *)
LEMMA LeaveKeeps ==
  ASSUME IInv, NEW index \in {1, 2}, Leave(index), Visiting("brk") \/ Visiting("cont")
  PROVE  IInv'
<1>1. /\ Return /\ prog' = prog /\ fault' = (fault \/ While_Stack = <<>>)
      /\ ir' = (IF While_Stack = <<>> THEN ir ELSE create_br(ir, insert, Last(While_Stack)[index]))
      /\ pre_enter_scope' = pre_enter_scope
      /\ UNCHANGED <<insert, cur_basic_block_list, While_Stack, Or_Cond_Stack>>
  BY DEF Leave
<1>2. PICK g : On(g) /\ Like(Over(g, Top), g) /\ g.mode = "stmt" /\ ~ IsTerminated(ir, insert)
               /\ Top.node.k \in {"brk", "cont"} /\ StmtParts(g, Top.node)
  <2>1. PICK k \in {"brk", "cont"} : Visiting(k)
    OBVIOUS
  <2>2. QED
    BY <2>1, VisitOpening
<1>3. /\ UnderWay(ir, insert, g.held) /\ fault = FALSE /\ pre_enter_scope \in BOOLEAN
      /\ While_Stack = g.loops /\ Kept(ir, g) /\ Good(g)
  BY <1>2, KeptLike DEF On, At, Like, Promises
<1>4. g.loops # <<>>
  BY <1>2 DEF StmtParts
<1> DEFINE w == Last(g.loops)
<1>5. /\ w = <<w[1], w[2]>> /\ w[1] \in g.own \ g.held /\ w[2] \in g.held \ g.spare
      /\ w \in g.lead
  <2>1. Sequence(g.loops)
    BY <1>3 DEF Good
  <2>2. Last(g.loops) = g.loops[Len(g.loops)] /\ Len(g.loops) \in 1 .. Len(g.loops)
    BY <1>4, <2>1, FrontSequence, SequenceFacts1
  <2>3. QED
    BY <1>2, <1>3, <2>2 DEF Good, StmtModes
<1> HIDE DEF w
<1>6. LeadsFrom(ir, w[1], w[2]) /\ LeadsFrom(ir, w[2], w[2])
  BY <1>3, <1>5 DEF Kept, LeadsFrom
<1>7. w[index] \in g.own \ g.spare /\ LeadsFrom(ir, w[index], w[2])
  <2>1. index = 1 \/ index = 2
    OBVIOUS
  <2>2. g.held \subseteq g.own /\ g.spare \subseteq g.held
    BY <1>3 DEF Good
  <2>3. QED
    BY <1>5, <1>6, <2>1, <2>2
<1>8. ir' = create_br(ir, insert, w[index]) /\ fault' = FALSE
  BY <1>1, <1>3, <1>4 DEF w
<1>9. SameGraph(ir, ir)
  BY SameGraphItself
<1>10. QED
  BY <1>1, <1>2, <1>3, <1>4, <1>5, <1>7, <1>8, <1>9, JumpKeeps

(* break jumps to the block after the loop.                                *)
LEMMA BreakStmtKeeps ==
  ASSUME IInv, BreakStmt
  PROVE  IInv'
BY LeaveKeeps DEF BreakStmt

(* continue jumps to the condition of the loop.                            *)
LEMMA ContinueStmtKeeps ==
  ASSUME IInv, ContinueStmt
  PROVE  IInv'
BY LeaveKeeps DEF ContinueStmt

(* A block: the place of the visit is taken by what is left of its body.   *)
LEMMA BeginBlockStmtKeeps ==
  ASSUME IInv, BeginBlockStmt
  PROVE  IInv'
<1> DEFINE t == [task |-> "body", node |-> node, pos |-> 1, exit |-> ~ pre_enter_scope]
<1>1. /\ Visiting("block") /\ Continue(<<t>>) /\ prog' = prog /\ fault' = fault /\ pre_enter_scope' = FALSE
      /\ UNCHANGED <<ir, insert, cur_basic_block_list, While_Stack, Or_Cond_Stack>>
  BY DEF BeginBlockStmt
<1>2. PICK g : /\ On(g) /\ Like(Over(g, Top), g) /\ g.mode = "stmt" /\ ~ IsTerminated(ir, insert)
               /\ Statement(g, node) /\ node.k = "block" /\ StmtParts(g, node)
  BY <1>1, VisitOpening DEF node
<1> DEFINE o == Over(g, Top)
           p == Over(g, t)
<1>3. /\ Good(g) /\ Good(o) /\ Like(o, g) /\ fault = FALSE
      /\ At(ir, insert, cur_basic_block_list, While_Stack, Or_Cond_Stack, o)
  BY <1>2 DEF On
<1>4. t.task = "body" /\ t.node = node /\ t.pos = 1
  OBVIOUS
<1>5. 1 \in 1 .. Len(node.body) + 1
  BY <1>2, SequenceFacts1 DEF StmtParts
<1> HIDE DEF t, o
<1>6. Fits(g, t)
  BY <1>2, <1>4, <1>5 DEF Fits
<1>7. Good(p) /\ Like(p, g)
  BY <1>3, <1>4, <1>6, GoodOver, VisitLike
<1>8. Like(o, p)
  BY <1>3, <1>7 DEF Like
<1> HIDE DEF p
<1>9. At(ir, insert, cur_basic_block_list, While_Stack, Or_Cond_Stack, p)
  BY <1>2, <1>3, <1>7, <1>8, AtLikeItself
<1>10. At(ir', insert', cur_basic_block_list', While_Stack', Or_Cond_Stack', Over(g, t))
  BY <1>1, <1>9 DEF p
<1>11. QED
  BY <1>1, <1>2, <1>3, <1>6, <1>10, ContinueOneKeeps

(* What is left of a block is on top. *)
LEMMA BodyOpening ==
  ASSUME IInv, Doing("body")
  PROVE  \E g : /\ On(g) /\ Like(Over(g, Top), g) /\ g.mode = "stmt" /\ Top.task = "body"
                /\ Statement(g, node) /\ node.k = "block" /\ StmtParts(g, node)
                /\ Top.pos \in 1 .. Len(node.body) + 1
                /\ Over(g, Top).mode = IF Top.pos = 1 THEN "begin" ELSE "stmt"
<1>1. agenda # <<>> /\ Top.task = "body"
  BY DEF Doing
<1>2. PICK g : On(g)
  BY <1>1, Opening
<1>3. Fits(g, Top) /\ Good(g)
  BY <1>2 DEF On
<1>4. /\ Like(Over(g, Top), g) /\ g.mode = "stmt"
      /\ Over(g, Top).mode = IF Top.pos = 1 THEN "begin" ELSE "stmt"
  BY <1>1, <1>3, VisitLike
<1>5. Statement(g, node) /\ node.k = "block" /\ Top.pos \in 1 .. Len(node.body) + 1
  BY <1>1, <1>3 DEF Fits, IfTasks, LoopTasks, node
<1>6. StmtParts(g, node)
  BY <1>5, StmtNode
<1>7. QED
  BY <1>1, <1>2, <1>4, <1>5, <1>6

(* The next statement of a block is visited where the last one ended.      *)
LEMMA NextStmtKeeps ==
  ASSUME IInv, NextStmt
  PROVE  IInv'
<1> DEFINE t == [Top EXCEPT !.pos = @ + 1]
           u == Visit(node.body[Top.pos])
<1>1. /\ Doing("body") /\ ~ BodyDone /\ Continue(<<t, u>>) /\ prog' = prog /\ fault' = fault
      /\ pre_enter_scope' = pre_enter_scope
      /\ UNCHANGED <<ir, insert, cur_basic_block_list, While_Stack, Or_Cond_Stack>>
  BY DEF NextStmt
<1>2. PICK g : /\ On(g) /\ Like(Over(g, Top), g) /\ g.mode = "stmt" /\ Top.task = "body"
               /\ Statement(g, node) /\ node.k = "block" /\ StmtParts(g, node)
               /\ Top.pos \in 1 .. Len(node.body) + 1
               /\ Over(g, Top).mode = IF Top.pos = 1 THEN "begin" ELSE "stmt"
  BY <1>1, BodyOpening
<1> DEFINE o == Over(g, Top)
           p == Over(g, t)
           q == Over(p, u)
<1>3. /\ Good(g) /\ Good(o) /\ Like(o, g) /\ fault = FALSE /\ pre_enter_scope \in BOOLEAN
      /\ At(ir, insert, cur_basic_block_list, While_Stack, Or_Cond_Stack, o)
  BY <1>2 DEF On
<1>4. /\ Top.pos \in Nat /\ Top.pos + 1 \in 1 .. Len(node.body) + 1 /\ Top.pos + 1 # 1
      /\ Statement(g, node.body[Top.pos])
  <2>1. Len(node.body) \in Nat /\ \A k \in 1 .. Len(node.body) : Statement(g, node.body[k])
    BY <1>2, SequenceFacts1 DEF StmtParts
  <2>2. Top.pos <= Len(node.body)
    BY <1>1, <1>2, <2>1 DEF BodyDone
  <2>3. QED
    BY <1>2, <2>1, <2>2
<1>5. ~ IsTerminated(ir, insert)
  <2>1. Place(ir, insert, cur_basic_block_list, o)
    BY <1>3 DEF At
  <2>2. Top.pos > 1 => ~ IsTerminated(ir, insert)
    BY <1>1, <1>4 DEF BodyDone
  <2>3. Top.pos = 1 => ~ IsTerminated(ir, insert)
    BY <1>2, <2>1 DEF Place, OpenModes
  <2>4. QED
    BY <1>2, <2>2, <2>3
<1>6. t.task = "body" /\ t.node = node /\ t.pos = Top.pos + 1 /\ u.task = "visit" /\ u.node = node.body[Top.pos]
  BY <1>2 DEF Visit, node
<1> HIDE DEF t, u, o
<1>7. Fits(g, t)
  BY <1>2, <1>4, <1>6 DEF Fits
<1>8. Good(p) /\ Like(p, g) /\ p.mode = "stmt"
  BY <1>3, <1>4, <1>6, <1>7, GoodOver, VisitLike
<1> HIDE DEF p
<1>9. Fits(p, u)
  BY <1>4, <1>6, <1>8 DEF Fits, Statement, Like
<1>10. Good(q) /\ Like(q, p)
  BY <1>6, <1>8, <1>9, GoodOver, VisitLike
<1>11. Like(o, q)
  BY <1>3, <1>8, <1>10 DEF Like
<1> HIDE DEF q
<1>12. At(ir, insert, cur_basic_block_list, While_Stack, Or_Cond_Stack, q)
  BY <1>3, <1>5, <1>10, <1>11, AtLikeItself
<1>13. At(ir', insert', cur_basic_block_list', While_Stack', Or_Cond_Stack', Over(Over(g, t), u))
  BY <1>1, <1>12 DEF p, q
<1>14. Fits(Over(g, t), u)
  BY <1>9 DEF p
<1>15. QED
  BY <1>1, <1>2, <1>3, <1>7, <1>13, <1>14, ContinueTwoKeeps

(* A block ends where its last visited statement did.                      *)
LEMMA EndBlockStmtKeeps ==
  ASSUME IInv, EndBlockStmt
  PROVE  IInv'
<1>1. /\ Doing("body") /\ Return /\ prog' = prog /\ fault' = fault
      /\ pre_enter_scope' = pre_enter_scope
      /\ UNCHANGED <<ir, insert, cur_basic_block_list, While_Stack, Or_Cond_Stack>>
  BY DEF EndBlockStmt
<1>2. PICK g : On(g) /\ Like(Over(g, Top), g) /\ g.mode = "stmt"
  BY <1>1, BodyOpening
<1> DEFINE o == Over(g, Top)
<1>3. /\ Good(g) /\ Good(o) /\ Like(o, g) /\ fault = FALSE /\ pre_enter_scope \in BOOLEAN
      /\ At(ir, insert, cur_basic_block_list, While_Stack, Or_Cond_Stack, o)
  BY <1>2 DEF On
<1> HIDE DEF o
<1>4. At(ir, insert, cur_basic_block_list, While_Stack, Or_Cond_Stack, g)
  BY <1>2, <1>3, AtLikeItself DEF OpenModes
<1>5. QED
  BY <1>1, <1>2, <1>3, <1>4, ReturnKeeps

(* The block numbers after those there are. *)
LEMMA NextNumbers ==
  ASSUME NEW l \in Nat
  PROVE  l + 1 .. l + 1 = {l + 1} /\ l + 1 .. l + 3 = {l + 1, l + 2, l + 3}
OBVIOUS

(* The block && and || create.                                             *)
LEMMA OneNewBlock ==
  ASSUME NEW m, Shape(m), NEW n, n = NewBlocks(m, 1), NEW b, b = Len(n.code)
  PROVE  Added(m, n, {b})
<1>1. Added(m, n, Len(m.code) + 1 .. Len(m.code) + 1) /\ b = Len(m.code) + 1
  BY NewBlocksFacts
<1>2. Len(m.code) \in Nat
  BY ListedBlocks
<1>3. QED
  BY <1>1, <1>2, NextNumbers

(* The blocks an if or a loop creates.                                     *)
LEMMA ThreeNewBlocks ==
  ASSUME NEW m, Shape(m), NEW n, n = NewBlocks(m, 3), NEW l, l = Len(m.code)
  PROVE  Added(m, n, {l + 1, l + 2, l + 3}) /\ l + 1 # l + 2 /\ l + 1 # l + 3 /\ l + 2 # l + 3
<1>1. Added(m, n, l + 1 .. l + 3)
  BY NewBlocksFacts
<1>2. l \in Nat
  BY ListedBlocks
<1>3. l + 1 .. l + 3 = {l + 1, l + 2, l + 3}
  BY <1>2, NextNumbers
<1>4. l + 1 # l + 2 /\ l + 1 # l + 3 /\ l + 2 # l + 3
  BY <1>2
<1>5. QED
  BY <1>1, <1>3, <1>4

(* A visit of && or || puts two tasks in its place: t waits for the visit  *)
(* u of the left side. s are the tasks below.                              *)
LogicalBegins(s, f, v, m, ins, cbl, ws, os, t, b, n, u) ==
  /\ Leaves(s, f) /\ Good(f) /\ Fits(f, v) /\ v.task = "visit" /\ f.mode = "cond"
  /\ At(m, ins, cbl, ws, os, Over(f, v))
  /\ t.task \in {"and", "or"} /\ t.node \in Conds /\ t.node.k = t.task
  /\ b = t.bbs[1] /\ Added(m, n, {b}) /\ u.task = "visit" /\ u.node \in Conds

(* The two tasks fit, and the state is what they left.                     *)
LEMMA LogicalBegun ==
  ASSUME NEW s, NEW f, NEW v, NEW m, NEW ins, NEW cbl, NEW ws, NEW os, NEW t, NEW b, NEW n, NEW u,
         LogicalBegins(s, f, v, m, ins, cbl, ws, os, t, b, n, u)
  PROVE  Going(s \o <<t, u>>, n, ins, cbl, ws, CondsOf(f, t))
<1>1. /\ Fits(f, t) /\ Fits(Over(f, t), u)
      /\ At(n, ins, cbl, ws, CondsOf(f, t), Over(Over(f, t), u))
  BY BeginLogical DEF LogicalBegins
<1>2. Leaves(s, f)
  BY DEF LogicalBegins
<1>3. QED
  BY <1>1, <1>2, GoingTwo

(* && and || before their left side. *)
LEMMA BeginLogicalKeeps ==
  ASSUME IInv, NEW k \in {"and", "or"}, Visiting(k), ir' = NewBlocks(ir, 1),
         NEW t, t = After(k, node, <<Len(ir'.code)>>), Continue(<<t, Visit(node.lhs)>>),
         NEW s, s = IF k = "or" THEN Append(Or_Cond_Stack, <<Last(Or_Cond_Stack)[1], Len(ir'.code)>>)
                    ELSE Or_Cond_Stack,
         Or_Cond_Stack' = s,
         UNCHANGED <<prog, insert, cur_basic_block_list, While_Stack, pre_enter_scope, fault>>
  PROVE  IInv'
<1>1. PICK g : /\ On(g) /\ Top.task = "visit" /\ Top.node.k = k /\ g.mode = "cond"
               /\ Top.node \in Conds /\ Like(Over(g, Top), g)
  BY VisitOpening
<1> DEFINE o == Over(g, Top)
           u == Visit(node.lhs)
           b == Len(ir'.code)
<1>2. /\ Good(g) /\ Good(o) /\ fault = FALSE /\ pre_enter_scope \in BOOLEAN /\ Fits(g, Top)
      /\ At(ir, insert, cur_basic_block_list, While_Stack, Or_Cond_Stack, o) /\ Like(o, g)
  BY <1>1 DEF On
<1>3. t.task = k /\ t.node = Top.node /\ t.bbs = <<b>> /\ t.bbs[1] = b /\ u.task = "visit" /\ u.node = Top.node.lhs
  BY DEF After, Visit, node
<1>4. Top.node.lhs \in Conds
  BY <1>1, CondNode
<1>5. Shape(ir) /\ Or_Cond_Stack = g.conds
  BY <1>2, AtFacts DEF Like
<1>6. Added(ir, ir', {b})
  BY <1>5, OneNewBlock
<1>7. CondsOf(g, t) = s
  BY <1>3, <1>5 DEF CondsOf
<1> HIDE DEF u, b
<1> DEFINE v == Top
           f == Front(agenda)
<1>8. Leaves(f, g) /\ Fits(g, v) /\ v.task = "visit" /\ v.node \in Conds
      /\ At(ir, insert, cur_basic_block_list, While_Stack, Or_Cond_Stack, Over(g, v))
  BY <1>1, <1>2 DEF On
<1>9. t.task \in {"and", "or"} /\ t.node \in Conds /\ t.node.k = t.task /\ b = t.bbs[1]
  BY <1>1, <1>3
<1>10. u.task = "visit" /\ u.node \in Conds
  BY <1>3, <1>4
<1> HIDE DEF v, f
<1>11. Going(f \o <<t, u>>, ir', insert, cur_basic_block_list, While_Stack, CondsOf(g, t))
  <2>1. LogicalBegins(f, g, v, ir, insert, cur_basic_block_list, While_Stack, Or_Cond_Stack, t, b, ir', u)
    BY <1>1, <1>2, <1>6, <1>8, <1>9, <1>10 DEF LogicalBegins
  <2>2. QED
    BY <2>1, LogicalBegun
<1>12. agenda' = f \o <<t, u>> /\ prog \in Programs
  BY <1>1 DEF On, Continue, f, u
<1>13. QED
  BY <1>2, <1>7, <1>11, <1>12 DEF IInv

(* && creates the block of its right side.                                 *)
LEMMA BeginLAndKeeps ==
  ASSUME IInv, BeginLAnd
  PROVE  IInv'
<1> DEFINE t == After("and", node, <<Len(ir'.code)>>)
<1>1. /\ Visiting("and") /\ ir' = NewBlocks(ir, 1) /\ Continue(<<t, Visit(node.lhs)>>)
      /\ Or_Cond_Stack' = Or_Cond_Stack
      /\ UNCHANGED <<prog, insert, cur_basic_block_list, While_Stack, pre_enter_scope, fault>>
  BY DEF BeginLAnd
<1> HIDE DEF t
<1>2. QED
  BY <1>1, BeginLogicalKeeps DEF t

(* || creates it and makes it the target of a false left side.             *)
LEMMA BeginLOrKeeps ==
  ASSUME IInv, BeginLOr
  PROVE  IInv'
<1> DEFINE t == After("or", node, <<Len(ir'.code)>>)
<1>1. /\ Visiting("or") /\ ir' = NewBlocks(ir, 1) /\ Continue(<<t, Visit(node.lhs)>>)
      /\ Or_Cond_Stack' = Append(Or_Cond_Stack, <<Last(Or_Cond_Stack)[1], Len(ir'.code)>>)
      /\ UNCHANGED <<prog, insert, cur_basic_block_list, While_Stack, pre_enter_scope, fault>>
  BY DEF BeginLOr
<1> HIDE DEF t
<1>2. QED
  BY <1>1, BeginLogicalKeeps DEF t

(* And after it. *)
LEMMA EndLogicalKeeps ==
  ASSUME IInv, NEW k \in {"and", "or"}, Doing(k),
         NEW y, NEW tt, NEW ff,
         k = "and" => y = Last(Or_Cond_Stack)[2] /\ tt = bbs[1] /\ ff = y,
         k = "or" => y = Last(Front(Or_Cond_Stack))[1] /\ tt = y /\ ff = bbs[1],
         ir' = create_cond_br(ir, insert, tmp_val, tt, ff), insert' = bbs[1],
         Continue(<<Visit(node.rhs)>>),
         NEW s, s = IF k = "or" THEN Front(Or_Cond_Stack) ELSE Or_Cond_Stack, Or_Cond_Stack' = s,
         UNCHANGED <<prog, cur_basic_block_list, While_Stack, pre_enter_scope, fault>>
  PROVE  IInv'
<1> DEFINE t == Top
           u == Visit(node.rhs)
           b == bbs[1]
<1>1. agenda # <<>> /\ t.task = k
  BY DEF Doing
<1>2. PICK g : On(g)
  BY <1>1, Opening
<1> DEFINE p == Over(g, t)
<1>3. /\ Good(g) /\ Good(p) /\ fault = FALSE /\ pre_enter_scope \in BOOLEAN /\ Fits(g, t)
      /\ At(ir, insert, cur_basic_block_list, While_Stack, Or_Cond_Stack, p)
  BY <1>2 DEF On
<1>4. b = t.bbs[1] /\ u.task = "visit" /\ u.node = t.node.rhs
  BY DEF bbs, Visit, node
<1>5. t.node \in Conds /\ t.node.k = k
  BY <1>1, <1>3 DEF Fits, IfTasks, LoopTasks
<1>6. t.node.rhs \in Conds
  BY <1>5, CondNode
<1>7. Kinds(g, t) /\ Fields(g, t, p)
  BY <1>3, FitsKinds, OverFields
<1> HIDE DEF t, u, b, p
<1>8. g.mode = "cond" /\ b \notin g.own
  BY <1>1, <1>4, <1>7 DEF Kinds
<1>9. p.mode = "cond" /\ p.held = g.held \cup {b} /\ p.conds = CondsOf(g, t)
  <2>1. Own(t) = {b} /\ Entered(t) = {}
    BY <1>1, <1>4 DEF Own, Entered
  <2>2. ModeOf(g, t) = "cond"
    BY <1>1 DEF ModeOf, CondTasks
  <2>3. QED
    BY <1>7, <2>1, <2>2 DEF Fields
<1>10. ~ IsTerminated(ir, insert) /\ UnderWay(ir, insert, p.held) /\ Or_Cond_Stack = p.conds
  BY <1>3, <1>9 DEF At, Place, OpenModes
<1>11. g.conds # <<>> /\ Sequence(g.conds)
  BY <1>3, <1>8 DEF Good, CondModes
<1>12. s = g.conds /\ (k = "and" => y = Last(g.conds)[2]) /\ (k = "or" => y = Last(g.conds)[1])
  <2>1. CASE k = "and"
    BY <1>1, <1>9, <1>10, <2>1 DEF CondsOf
  <2>2. CASE k = "or"
    <3>1. Or_Cond_Stack = Append(g.conds, <<Last(g.conds)[1], t.bbs[1]>>)
      BY <1>1, <1>9, <1>10, <2>2 DEF CondsOf
    <3>2. Front(Or_Cond_Stack) = g.conds
      BY <1>11, <3>1, AppendSequence
    <3>3. QED
      BY <2>2, <3>2
  <2>3. QED
    BY <2>1, <2>2
<1>13. y \in g.held \ g.spare
  <2>1. Last(g.conds) = g.conds[Len(g.conds)] /\ Len(g.conds) \in 1 .. Len(g.conds)
    BY <1>11, FrontSequence, SequenceFacts1
  <2>2. QED
    BY <1>3, <1>12, <2>1 DEF Good
<1>14. y # b /\ y \in p.held /\ b \in p.held
  BY <1>3, <1>8, <1>9, <1>13 DEF Good
<1>15. Branched(ir, ir', insert, p.held, {b, y})
  <2>1. tt \in p.held /\ ff \in p.held /\ tt # ff /\ {tt, ff} = {b, y}
    BY <1>14 DEF b
  <2>2. Branched(ir, ir', insert, p.held, {tt, ff})
    BY <1>10, <2>1, Fork
  <2>3. QED
    BY <2>1, <2>2
<1>16. Fits(g, u) /\ At(ir', b, cur_basic_block_list, While_Stack, g.conds, Over(g, u))
  <2>1. /\ At(ir, insert, cur_basic_block_list, While_Stack, Or_Cond_Stack, Over(g, t))
        /\ Branched(ir, ir', insert, Over(g, t).held, {b, y})
    BY <1>3, <1>15 DEF p
  <2>2. QED
    BY <1>1, <1>3, <1>4, <1>6, <1>10, <1>13, <2>1, EndLogical
<1>17. At(ir', insert', cur_basic_block_list', While_Stack', Or_Cond_Stack', Over(g, u))
  BY <1>12, <1>16 DEF b
<1>18. Continue(<<u>>) /\ prog' = prog /\ fault' = FALSE /\ pre_enter_scope' \in BOOLEAN
  BY <1>3 DEF u
<1>19. QED
  BY <1>2, <1>16, <1>17, <1>18, ContinueOneKeeps

(* && branches to its right side or to the false target around it.         *)
LEMMA EndLAndKeeps ==
  ASSUME IInv, EndLAnd
  PROVE  IInv'
<1> DEFINE y == Last(Or_Cond_Stack)[2]
<1>1. /\ Doing("and") /\ ir' = create_cond_br(ir, insert, tmp_val, bbs[1], y) /\ insert' = bbs[1]
      /\ Continue(<<Visit(node.rhs)>>) /\ Or_Cond_Stack' = Or_Cond_Stack
      /\ UNCHANGED <<prog, cur_basic_block_list, While_Stack, pre_enter_scope, fault>>
  BY DEF EndLAnd
<1>2. QED
  BY <1>1, EndLogicalKeeps

(* || branches to the true target around it or to its right side.          *)
LEMMA EndLOrKeeps ==
  ASSUME IInv, EndLOr
  PROVE  IInv'
<1> DEFINE y == Last(Front(Or_Cond_Stack))[1]
<1>1. /\ Doing("or") /\ ir' = create_cond_br(ir, insert, tmp_val, y, bbs[1]) /\ insert' = bbs[1]
      /\ Continue(<<Visit(node.rhs)>>) /\ Or_Cond_Stack' = Front(Or_Cond_Stack)
      /\ UNCHANGED <<prog, cur_basic_block_list, While_Stack, pre_enter_scope, fault>>
  BY DEF EndLOr
<1>2. QED
  BY <1>1, EndLogicalKeeps

(* An if puts two tasks in the place of its visit.                         *)
IfBegins(s, f, v, m, ins, cbl, ws, os, t, n, u) ==
  /\ Leaves(s, f) /\ Good(f) /\ Fits(f, v) /\ v.task = "visit" /\ f.mode = "stmt"
  /\ At(m, ins, cbl, ws, os, Over(f, v))
  /\ t.task = "ifCond" /\ Statement(f, t.node) /\ t.node.k = "if"
  /\ t.bbs[1] # t.bbs[2] /\ t.bbs[1] # t.bbs[3] /\ t.bbs[2] # t.bbs[3]
  /\ Added(m, n, {t.bbs[1], t.bbs[2], t.bbs[3]}) /\ u.task = "visit" /\ u.node \in Conds

(* The two tasks fit, and the state is what they left.                     *)
LEMMA IfBegun ==
  ASSUME NEW s, NEW f, NEW v, NEW m, NEW ins, NEW cbl, NEW ws, NEW os, NEW t, NEW n, NEW u,
         IfBegins(s, f, v, m, ins, cbl, ws, os, t, n, u)
  PROVE  Going(s \o <<t, u>>, n, ins, cbl, ws, Append(os, CondPair(t)))
<1>1. /\ Fits(f, t) /\ Fits(Over(f, t), u)
      /\ At(n, ins, cbl, ws, Append(os, CondPair(t)), Over(Over(f, t), u))
  BY BeginIf DEF IfBegins
<1>2. Leaves(s, f)
  BY DEF IfBegins
<1>3. QED
  BY <1>1, <1>2, GoingTwo

(* An if creates its blocks and visits its condition where it stands.      *)
LEMMA BeginIfStmtKeeps ==
  ASSUME IInv, BeginIfStmt
  PROVE  IInv'
<1> DEFINE l == Len(ir.code)
           t == After("ifCond", node, <<l + 1, l + 2, l + 3>>)
           u == Visit(node.cond)
           v == Top
           s == Front(agenda)
<1>1. /\ Visiting("if") /\ ir' = NewBlocks(ir, 3) /\ agenda' = s \o <<t, u>>
      /\ Or_Cond_Stack' = Append(Or_Cond_Stack, <<l + 1, IF HasElse THEN l + 2 ELSE l + 3>>)
      /\ prog' = prog /\ insert' = insert /\ cur_basic_block_list' = cur_basic_block_list
      /\ While_Stack' = While_Stack /\ pre_enter_scope' = pre_enter_scope /\ fault' = fault
  BY DEF BeginIfStmt, Continue
<1>2. PICK g : /\ On(g) /\ v.task = "visit" /\ v.node.k = "if" /\ g.mode = "stmt"
               /\ Statement(g, v.node) /\ StmtParts(g, v.node)
  BY <1>1, VisitOpening
<1>3. /\ prog \in Programs /\ fault = FALSE /\ pre_enter_scope \in BOOLEAN
      /\ Leaves(s, g) /\ Fits(g, v) /\ Good(g) /\ Good(Over(g, v))
      /\ At(ir, insert, cur_basic_block_list, While_Stack, Or_Cond_Stack, Over(g, v))
  BY <1>2 DEF On
<1>4. Shape(ir)
  BY <1>3, AtFacts
<1>5. Added(ir, ir', {l + 1, l + 2, l + 3}) /\ l + 1 # l + 2 /\ l + 1 # l + 3 /\ l + 2 # l + 3
  BY <1>1, <1>4, ThreeNewBlocks
<1>6. t.task = "ifCond" /\ t.node = v.node /\ t.bbs[1] = l + 1 /\ t.bbs[2] = l + 2 /\ t.bbs[3] = l + 3
  BY DEF After, node
<1>7. u.task = "visit" /\ u.node \in Conds
  BY <1>2 DEF Visit, node, StmtParts
<1>8. CondPair(t) = <<l + 1, IF HasElse THEN l + 2 ELSE l + 3>>
  <2> HIDE DEF t, l
  <2>1. Alone(t) <=> ~ HasElse
    BY <1>6 DEF Alone, HasElse, node
  <2>2. QED
    BY <1>6, <2>1 DEF CondPair
<1> HIDE DEF l, t, u, v, s
<1>9. IfBegins(s, g, v, ir, insert, cur_basic_block_list, While_Stack, Or_Cond_Stack, t, ir', u)
  BY <1>2, <1>3, <1>5, <1>6, <1>7 DEF IfBegins
<1>10. Going(s \o <<t, u>>, ir', insert, cur_basic_block_list, While_Stack,
             Append(Or_Cond_Stack, CondPair(t)))
  BY <1>9, IfBegun
<1>11. QED
  BY <1>1, <1>3, <1>8, <1>10 DEF IInv

(* The condition is done, and the first branch begins. *)
ThenBegins(s, f, m, ins, cbl, ws, os, t, n, t2, u) ==
  /\ Leaves(s, f) /\ Good(f) /\ Fits(f, t) /\ t.task = "ifCond"
  /\ At(m, ins, cbl, ws, os, Over(f, t))
  /\ Branched(m, n, ins, Over(f, t).held, {CondPair(t)[1], CondPair(t)[2]})
  /\ t2.task = "ifThen" /\ t2.node = t.node /\ t2.bbs = t.bbs
  /\ u.task = "visit" /\ Statement(f, u.node)

(* The two tasks fit, and the state is what they left.                     *)
LEMMA ThenBegun ==
  ASSUME NEW s, NEW f, NEW m, NEW ins, NEW cbl, NEW ws, NEW os, NEW t, NEW n, NEW t2, NEW u,
         ThenBegins(s, f, m, ins, cbl, ws, os, t, n, t2, u)
  PROVE  Going(s \o <<t2, u>>, n, t.bbs[1], <<t.bbs[1]>>, ws, f.conds)
<1>1. /\ Fits(f, t2) /\ Fits(Over(f, t2), u)
      /\ At(n, t.bbs[1], <<t.bbs[1]>>, ws, f.conds, Over(Over(f, t2), u))
  BY EnterThen DEF ThenBegins
<1>2. Leaves(s, f)
  BY DEF ThenBegins
<1>3. QED
  BY <1>1, <1>2, GoingTwo

(* Either pair of blocks is held, and its blocks are two.                  *)
LEMMA PairHeld ==
  ASSUME NEW f, NEW t, Good(f), Fits(f, t), t.task \in {"ifCond", "whileCond"},
         NEW p, p = Over(f, t)
  PROVE  /\ CondPair(t)[1] \in p.held /\ CondPair(t)[2] \in p.held /\ CondPair(t)[1] # CondPair(t)[2]
         /\ p.conds = Append(f.conds, CondPair(t)) /\ p.mode = "cond"
<1>1. Kinds(f, t) /\ Fields(f, t, p) /\ Good(p)
  BY FitsKinds, OverFields, GoodOver
<1>2. NewThree(f, t)
  BY <1>1 DEF Kinds, IfTasks, LoopTasks
<1>3. p.conds = Append(f.conds, CondPair(t)) /\ p.mode = "cond"
  BY <1>1 DEF Fields, CondsOf, ModeOf, CondTasks
<1>4. Sequence(f.conds)
  BY DEF Good
<1>5. Len(p.conds) \in 1 .. Len(p.conds) /\ p.conds[Len(p.conds)] = CondPair(t)
  <2>1. /\ Sequence(p.conds) /\ p.conds # <<>> /\ Last(p.conds) = CondPair(t)
    BY <1>3, <1>4, AppendSequence
  <2>2. QED
    BY <2>1, FrontSequence, SequenceFacts1
<1>6. CondPair(t)[1] \in p.held /\ CondPair(t)[2] \in p.held
  BY <1>1, <1>5 DEF Good
<1>7. CondPair(t)[1] # CondPair(t)[2]
  BY <1>2 DEF CondPair, NewThree
<1>8. QED
  BY <1>3, <1>6, <1>7

(* The condition branches to trueBB or past it.                            *)
LEMMA IfConditionKeeps ==
  ASSUME IInv, IfCondition
  PROVE  IInv'
<1> DEFINE t == Top
           t2 == After("ifThen", node, bbs)
           u == Visit(node.then)
           s == Front(agenda)
           b == bbs[1]
           y == IF HasElse THEN bbs[2] ELSE bbs[3]
<1>1. /\ Doing("ifCond") /\ Or_Cond_Stack' = Front(Or_Cond_Stack)
      /\ ir' = create_cond_br(ir, insert, tmp_val, b, y) /\ insert' = b
      /\ cur_basic_block_list' = ReplaceLast(cur_basic_block_list, b)
      /\ agenda' = s \o <<t2, u>>
      /\ prog' = prog /\ While_Stack' = While_Stack /\ pre_enter_scope' = pre_enter_scope
      /\ fault' = fault
  BY DEF IfCondition, Continue
<1>2. agenda # <<>> /\ t.task = "ifCond"
  BY <1>1 DEF Doing
<1>3. PICK g : On(g)
  BY <1>2, Opening
<1> DEFINE p == Over(g, t)
<1>4. /\ prog \in Programs /\ fault = FALSE /\ pre_enter_scope \in BOOLEAN
      /\ Leaves(s, g) /\ Fits(g, t) /\ Good(g) /\ Good(p)
      /\ At(ir, insert, cur_basic_block_list, While_Stack, Or_Cond_Stack, p)
  BY <1>3 DEF On
<1>5. /\ t2.task = "ifThen" /\ t2.node = t.node /\ t2.bbs = t.bbs /\ u.task = "visit"
      /\ u.node = t.node.then /\ b = t.bbs[1]
  BY DEF After, Visit, node, bbs
<1>6. CondPair(t)[1] = b /\ CondPair(t)[2] = y
  BY <1>2 DEF CondPair, Alone, HasElse, node, bbs
<1> HIDE DEF t, t2, u, s, b, y, p
<1>7. /\ CondPair(t)[1] \in p.held /\ CondPair(t)[2] \in p.held /\ CondPair(t)[1] # CondPair(t)[2]
      /\ p.conds = Append(g.conds, CondPair(t)) /\ p.mode = "cond"
  BY <1>2, <1>4, PairHeld DEF p
<1>8. /\ ~ IsTerminated(ir, insert) /\ UnderWay(ir, insert, p.held) /\ Or_Cond_Stack = p.conds
      /\ Sequence(cur_basic_block_list) /\ Len(cur_basic_block_list) = p.list
  BY <1>4, <1>7 DEF At, Place, OpenModes
<1>9. Branched(ir, ir', insert, p.held, {CondPair(t)[1], CondPair(t)[2]})
  <2>1. b \in p.held /\ y \in p.held /\ b # y
    BY <1>6, <1>7
  <2>2. Branched(ir, ir', insert, p.held, {b, y})
    BY <1>1, <1>8, <2>1, Fork
  <2>3. QED
    BY <1>6, <2>2
<1>10. p.list = 1 /\ Statement(g, t.node.then)
  <2>1. t.task \in IfTasks
    BY <1>2 DEF IfTasks
  <2>2. p.list = 1
    BY <1>4, <2>1, IfFields DEF p
  <2>3. Statement(g, t.node) /\ t.node.k = "if"
    BY <1>2, <1>4 DEF Fits, IfTasks, LoopTasks
  <2>4. QED
    BY <2>2, <2>3, StmtNode DEF StmtParts
<1>11. ThenBegins(s, g, ir, insert, cur_basic_block_list, While_Stack, Or_Cond_Stack, t, ir', t2, u)
  BY <1>2, <1>4, <1>5, <1>9, <1>10 DEF ThenBegins, p
<1>12. Going(s \o <<t2, u>>, ir', t.bbs[1], <<t.bbs[1]>>, While_Stack, g.conds)
  BY <1>11, ThenBegun
<1>13. Or_Cond_Stack' = g.conds
  <2>1. Sequence(g.conds)
    BY <1>4 DEF Good
  <2>2. QED
    BY <1>1, <1>7, <1>8, <2>1, AppendSequence
<1>14. cur_basic_block_list' = <<b>>
  BY <1>1, <1>8, <1>10, ReplaceOne
<1>15. QED
  BY <1>1, <1>4, <1>5, <1>12, <1>13, <1>14 DEF IInv

(* A branch of an if is done. *)
BranchDone(s, f, m, ins, cbl, ws, os, t) ==
  /\ Leaves(s, f) /\ Good(f) /\ Fits(f, t) /\ t.task \in {"ifThen", "ifElse"}
  /\ At(m, ins, cbl, ws, os, Over(f, t))

(* The end of a branch has a terminator after EndBranch.                   *)
LEMMA BranchClosed ==
  ASSUME NEW s, NEW f, NEW m, NEW ins, NEW cbl, NEW ws, NEW os, NEW t,
         BranchDone(s, f, m, ins, cbl, ws, os, t),
         NEW n, n = IF IsTerminated(m, ins) THEN m ELSE create_br(m, ins, t.bbs[3])
  PROVE  Closed(m, n, ins, Over(f, t).held, t.bbs[3])
<1> DEFINE p == Over(f, t)
           b == t.bbs[3]
<1>1. /\ Good(f) /\ Fits(f, t) /\ t.task \in IfTasks /\ t.task \in {"ifThen", "ifElse"}
      /\ At(m, ins, cbl, ws, os, p)
  BY DEF BranchDone, IfTasks
<1>2. Good(p) /\ NewThree(f, t) /\ p.held = f.held \cup ({t.bbs[1], t.bbs[2], b} \ Entered(t))
  BY <1>1, IfFields
<1>3. b \in p.held
  <2>1. b # t.bbs[1] /\ b # t.bbs[2]
    BY <1>2 DEF NewThree
  <2>2. Entered(t) \subseteq {t.bbs[1], t.bbs[2]}
    BY <1>1 DEF Entered
  <2>3. QED
    BY <1>2, <2>1, <2>2
<1> HIDE DEF p, b
<1>4. UnderWay(m, ins, p.held) /\ b \in InList(m) \ {entryBB}
  BY <1>1, <1>2, <1>3, AtFacts
<1>5. LeadsFrom(m, b, b)
  BY DEF LeadsFrom
<1>6. n = IF IsTerminated(m, ins) THEN m ELSE create_br(m, ins, b)
  BY DEF b
<1>7. Closed(m, n, ins, p.held, b)
  BY <1>3, <1>4, <1>5, <1>6, EndBranchCloses
<1>8. QED
  BY <1>7 DEF p, b

(* The visits below go on where the if ended. *)
LEMMA ThenDone ==
  ASSUME NEW s, NEW f, NEW m, NEW ins, NEW cbl, NEW ws, NEW os, NEW t,
         BranchDone(s, f, m, ins, cbl, ws, os, t), t.task = "ifThen", Alone(t),
         NEW n, n = IF IsTerminated(m, ins) THEN m ELSE create_br(m, ins, t.bbs[3]),
         NEW w, w = erase_from_parent(n, t.bbs[2])
  PROVE  w.pre[t.bbs[3]] # <<>> /\ Going(s, w, t.bbs[3], <<t.bbs[3]>>, ws, os)
<1>1. Closed(m, n, ins, Over(f, t).held, t.bbs[3])
  BY BranchClosed
<1>2. Good(f) /\ Fits(f, t) /\ At(m, ins, cbl, ws, os, Over(f, t)) /\ Leaves(s, f)
  BY DEF BranchDone
<1>3. w.pre[t.bbs[3]] # <<>> /\ At(w, t.bbs[3], <<t.bbs[3]>>, ws, os, f)
  BY <1>1, <1>2, LeaveThen
<1>4. f.mode # "start"
  BY <1>2, FitsKinds DEF Kinds
<1>5. QED
  BY <1>2, <1>3, <1>4, GoingBack

(* With an else the builder is in nextBB, or in trueBB if all is dead.     *)
LEMMA ElseDone ==
  ASSUME NEW s, NEW f, NEW m, NEW ins, NEW cbl, NEW ws, NEW os, NEW t,
         BranchDone(s, f, m, ins, cbl, ws, os, t), t.task = "ifElse",
         NEW n, n = IF IsTerminated(m, ins) THEN m ELSE create_br(m, ins, t.bbs[3]),
         NEW w, NEW h,
         \/ n.pre[t.bbs[3]] # <<>> /\ w = n /\ h = t.bbs[3]
         \/ n.pre[t.bbs[3]] = <<>> /\ w = erase_from_parent(n, t.bbs[3]) /\ h = t.bbs[1]
  PROVE  Going(s, w, h, <<t.bbs[3]>>, ws, os)
<1>1. Closed(m, n, ins, Over(f, t).held, t.bbs[3])
  BY BranchClosed
<1>2. Good(f) /\ Fits(f, t) /\ At(m, ins, cbl, ws, os, Over(f, t)) /\ Leaves(s, f)
  BY DEF BranchDone
<1>3. /\ n.pre[t.bbs[3]] # <<>> => At(n, t.bbs[3], <<t.bbs[3]>>, ws, os, f)
      /\ n.pre[t.bbs[3]] = <<>> =>
           At(erase_from_parent(n, t.bbs[3]), t.bbs[1], <<t.bbs[3]>>, ws, os, f)
  BY <1>1, <1>2, LeaveElse
<1>4. f.mode # "start"
  BY <1>2, FitsKinds DEF Kinds
<1>5. At(w, h, <<t.bbs[3]>>, ws, os, f)
  BY <1>3
<1>6. QED
  BY <1>2, <1>4, <1>5, GoingBack

(* The second branch begins in falseBB.                                    *)
LEMMA ElseBegun ==
  ASSUME NEW s, NEW f, NEW m, NEW ins, NEW cbl, NEW ws, NEW os, NEW t,
         BranchDone(s, f, m, ins, cbl, ws, os, t), t.task = "ifThen", ~ Alone(t),
         NEW n, n = IF IsTerminated(m, ins) THEN m ELSE create_br(m, ins, t.bbs[3]),
         NEW t2, t2.task = "ifElse", t2.node = t.node, t2.bbs = t.bbs,
         NEW u, u.task = "visit", Statement(f, u.node)
  PROVE  Going(s \o <<t2, u>>, n, t.bbs[2], <<t.bbs[2]>>, ws, os)
<1>1. Closed(m, n, ins, Over(f, t).held, t.bbs[3])
  BY BranchClosed
<1>2. Good(f) /\ Fits(f, t) /\ At(m, ins, cbl, ws, os, Over(f, t)) /\ Leaves(s, f)
  BY DEF BranchDone
<1>3. /\ Fits(f, t2) /\ Fits(Over(f, t2), u)
      /\ At(n, t.bbs[2], <<t.bbs[2]>>, ws, os, Over(Over(f, t2), u))
  BY <1>1, <1>2, EnterElse
<1>4. QED
  BY <1>2, <1>3, GoingTwo

(* A branch is on top. *)
LEMMA BranchOpening ==
  ASSUME IInv, Doing("ifThen") \/ Doing("ifElse")
  PROVE  /\ prog \in Programs /\ fault = FALSE /\ pre_enter_scope \in BOOLEAN
         /\ Sequence(cur_basic_block_list) /\ Len(cur_basic_block_list) = 1
         /\ \E g : /\ BranchDone(Front(agenda), g, ir, insert, cur_basic_block_list, While_Stack,
                                 Or_Cond_Stack, Top)
                   /\ Alone(Top) \/ Statement(g, node.else)
<1> DEFINE t == Top
           s == Front(agenda)
<1>1. agenda # <<>> /\ t.task \in {"ifThen", "ifElse"} /\ t.node = node
  BY DEF Doing, node
<1>2. PICK g : On(g)
  BY <1>1, Opening
<1>3. /\ prog \in Programs /\ fault = FALSE /\ pre_enter_scope \in BOOLEAN
      /\ Leaves(s, g) /\ Fits(g, t) /\ Good(g)
      /\ At(ir, insert, cur_basic_block_list, While_Stack, Or_Cond_Stack, Over(g, t))
  BY <1>2 DEF On
<1> HIDE DEF t, s
<1>4. BranchDone(s, g, ir, insert, cur_basic_block_list, While_Stack, Or_Cond_Stack, t)
  BY <1>1, <1>3 DEF BranchDone
<1>5. Over(g, t).list = 1
  BY <1>1, <1>3, IfFields DEF IfTasks
<1>6. Sequence(cur_basic_block_list) /\ Len(cur_basic_block_list) = 1
  BY <1>3, <1>5 DEF At, Place
<1>7. Statement(g, node) /\ node.k = "if"
  BY <1>1, <1>3 DEF Fits, IfTasks, LoopTasks
<1>8. node.else.k = "none" \/ Statement(g, node.else)
  BY <1>7, StmtNode DEF StmtParts
<1>9. Alone(t) \/ Statement(g, node.else)
  BY <1>1, <1>8 DEF Alone
<1>10. QED
  BY <1>3, <1>4, <1>6, <1>9 DEF t, s

(* An if without else gives falseBB up and goes on in nextBB.              *)
LEMMA EndThenOnlyKeeps ==
  ASSUME IInv, EndThenOnly
  PROVE  IInv'
<1> DEFINE t == Top
           s == Front(agenda)
           n == IF IsTerminated(ir, insert) THEN ir ELSE create_br(ir, insert, bbs[3])
           w == erase_from_parent(n, bbs[2])
           dead == w.pre[bbs[3]] = <<>>
<1>1. /\ Doing("ifThen") /\ ~ HasElse /\ agenda' = s
      /\ ir' = (IF dead THEN erase_from_parent(w, bbs[3]) ELSE w)
      /\ insert' = (IF dead THEN bbs[1] ELSE bbs[3])
      /\ cur_basic_block_list' = ReplaceLast(cur_basic_block_list, bbs[3])
      /\ prog' = prog /\ While_Stack' = While_Stack /\ Or_Cond_Stack' = Or_Cond_Stack
      /\ pre_enter_scope' = pre_enter_scope /\ fault' = fault
  BY DEF EndThenOnly, FinishIf, EndBranch, Return
<1>2. t.task = "ifThen" /\ Alone(t) /\ t.bbs = bbs
  BY <1>1 DEF Doing, Alone, HasElse, bbs, node
<1>3. /\ prog \in Programs /\ fault = FALSE /\ pre_enter_scope \in BOOLEAN
      /\ Sequence(cur_basic_block_list) /\ Len(cur_basic_block_list) = 1
  BY <1>1, BranchOpening
<1>4. PICK g : BranchDone(s, g, ir, insert, cur_basic_block_list, While_Stack, Or_Cond_Stack, t)
  BY <1>1, BranchOpening
<1>5. /\ n = IF IsTerminated(ir, insert) THEN ir ELSE create_br(ir, insert, t.bbs[3])
      /\ w = erase_from_parent(n, t.bbs[2])
  BY <1>2
<1> HIDE DEF t, s, n, w
<1>6. w.pre[t.bbs[3]] # <<>> /\ Going(s, w, t.bbs[3], <<t.bbs[3]>>, While_Stack, Or_Cond_Stack)
  BY <1>2, <1>4, <1>5, ThenDone
<1>7. cur_basic_block_list' = <<t.bbs[3]>>
  BY <1>1, <1>2, <1>3, ReplaceOne
<1>8. QED
  BY <1>1, <1>2, <1>3, <1>6, <1>7 DEF IInv

(* An if with else gives nextBB up where both branches jump away.          *)
LEMMA EndElseKeeps ==
  ASSUME IInv, EndElse
  PROVE  IInv'
<1> DEFINE t == Top
           s == Front(agenda)
           n == IF IsTerminated(ir, insert) THEN ir ELSE create_br(ir, insert, bbs[3])
           dead == n.pre[bbs[3]] = <<>>
           w == IF dead THEN erase_from_parent(n, bbs[3]) ELSE n
           h == IF dead THEN bbs[1] ELSE bbs[3]
<1>1. /\ Doing("ifElse") /\ agenda' = s /\ ir' = w /\ insert' = h
      /\ cur_basic_block_list' = ReplaceLast(cur_basic_block_list, bbs[3])
      /\ prog' = prog /\ While_Stack' = While_Stack /\ Or_Cond_Stack' = Or_Cond_Stack
      /\ pre_enter_scope' = pre_enter_scope /\ fault' = fault
  BY DEF EndElse, FinishIf, EndBranch, Return
<1>2. t.task = "ifElse" /\ t.bbs = bbs
  BY <1>1 DEF Doing, bbs
<1>3. /\ prog \in Programs /\ fault = FALSE /\ pre_enter_scope \in BOOLEAN
      /\ Sequence(cur_basic_block_list) /\ Len(cur_basic_block_list) = 1
  BY <1>1, BranchOpening
<1>4. PICK g : BranchDone(s, g, ir, insert, cur_basic_block_list, While_Stack, Or_Cond_Stack, t)
  BY <1>1, BranchOpening
<1>5. /\ n = IF IsTerminated(ir, insert) THEN ir ELSE create_br(ir, insert, t.bbs[3])
      /\ \/ n.pre[t.bbs[3]] # <<>> /\ w = n /\ h = t.bbs[3]
         \/ n.pre[t.bbs[3]] = <<>> /\ w = erase_from_parent(n, t.bbs[3]) /\ h = t.bbs[1]
  BY <1>2
<1> HIDE DEF t, s, n, w, h
<1>6. Going(s, w, h, <<t.bbs[3]>>, While_Stack, Or_Cond_Stack)
  BY <1>2, <1>4, <1>5, ElseDone
<1>7. cur_basic_block_list' = <<t.bbs[3]>>
  BY <1>1, <1>2, <1>3, ReplaceOne
<1>8. QED
  BY <1>1, <1>2, <1>3, <1>6, <1>7 DEF IInv

(* The second branch is visited in falseBB.                                *)
LEMMA BeginElseKeeps ==
  ASSUME IInv, BeginElse
  PROVE  IInv'
<1> DEFINE t == Top
           s == Front(agenda)
           n == IF IsTerminated(ir, insert) THEN ir ELSE create_br(ir, insert, bbs[3])
           t2 == After("ifElse", node, bbs)
           u == Visit(node.else)
<1>1. /\ Doing("ifThen") /\ HasElse /\ agenda' = s \o <<t2, u>> /\ ir' = n /\ insert' = bbs[2]
      /\ cur_basic_block_list' = ReplaceLast(cur_basic_block_list, bbs[2])
      /\ prog' = prog /\ While_Stack' = While_Stack /\ Or_Cond_Stack' = Or_Cond_Stack
      /\ pre_enter_scope' = pre_enter_scope /\ fault' = fault
  BY DEF BeginElse, EndBranch, Continue
<1>2. t.task = "ifThen" /\ ~ Alone(t) /\ t.bbs = bbs
  BY <1>1 DEF Doing, Alone, HasElse, bbs, node
<1>3. /\ prog \in Programs /\ fault = FALSE /\ pre_enter_scope \in BOOLEAN
      /\ Sequence(cur_basic_block_list) /\ Len(cur_basic_block_list) = 1
  BY <1>1, BranchOpening
<1>4. PICK g : /\ BranchDone(s, g, ir, insert, cur_basic_block_list, While_Stack, Or_Cond_Stack, t)
               /\ Alone(t) \/ Statement(g, node.else)
  BY <1>1, BranchOpening
<1>5. /\ n = IF IsTerminated(ir, insert) THEN ir ELSE create_br(ir, insert, t.bbs[3])
      /\ t2.task = "ifElse" /\ t2.node = t.node /\ t2.bbs = t.bbs
      /\ u.task = "visit" /\ u.node = node.else
  BY DEF After, Visit, bbs, node
<1>6. Statement(g, u.node)
  BY <1>2, <1>4, <1>5
<1> HIDE DEF t, s, n, t2, u
<1>7. Going(s \o <<t2, u>>, n, t.bbs[2], <<t.bbs[2]>>, While_Stack, Or_Cond_Stack)
  BY <1>2, <1>4, <1>5, <1>6, ElseBegun
<1>8. cur_basic_block_list' = <<t.bbs[2]>>
  BY <1>1, <1>2, <1>3, ReplaceOne
<1>9. QED
  BY <1>1, <1>2, <1>3, <1>7, <1>8 DEF IInv

(* A loop puts two tasks in the place of its visit.                        *)
LoopBegins(s, f, v, m, ins, cbl, ws, os, t, w, u) ==
  /\ Leaves(s, f) /\ Good(f) /\ Fits(f, v) /\ v.task = "visit" /\ f.mode = "stmt"
  /\ At(m, ins, cbl, ws, os, Over(f, v))
  /\ t.task = "whileCond" /\ Statement(f, t.node) /\ t.node.k = "while"
  /\ t.bbs[1] # t.bbs[2] /\ t.bbs[1] # t.bbs[3] /\ t.bbs[2] # t.bbs[3]
  /\ Added(m, w, {t.bbs[1], t.bbs[2], t.bbs[3]}) /\ u.task = "visit" /\ u.node \in Conds

(* The two tasks fit, and the state is what they left.                     *)
LEMMA LoopBegun ==
  ASSUME NEW s, NEW f, NEW v, NEW m, NEW ins, NEW cbl, NEW ws, NEW os, NEW t, NEW w, NEW u,
         LoopBegins(s, f, v, m, ins, cbl, ws, os, t, w, u)
  PROVE  /\ ~ IsTerminated(w, ins)
         /\ Going(s \o <<t, u>>, create_br(w, ins, t.bbs[1]), t.bbs[1], <<>>,
                  Append(ws, <<t.bbs[1], t.bbs[3]>>), Append(os, <<t.bbs[2], t.bbs[3]>>))
<1> DEFINE n == create_br(w, ins, t.bbs[1])
           ws2 == Append(ws, <<t.bbs[1], t.bbs[3]>>)
           os2 == Append(os, <<t.bbs[2], t.bbs[3]>>)
<1>1. /\ Fits(f, t) /\ Fits(Over(f, t), u) /\ ~ IsTerminated(w, ins)
      /\ At(n, t.bbs[1], <<>>, ws2, os2, Over(Over(f, t), u))
  BY BeginLoop DEF LoopBegins
<1>2. Leaves(s, f)
  BY DEF LoopBegins
<1> HIDE DEF n, ws2, os2
<1>3. Going(s \o <<t, u>>, n, t.bbs[1], <<>>, ws2, os2)
  BY <1>1, <1>2, GoingTwo
<1>4. QED
  BY <1>1, <1>3 DEF n, ws2, os2

(* A loop takes its place off cur_basic_block_list and enters whileBB.     *)
LEMMA BeginWhileStmtKeeps ==
  ASSUME IInv, BeginWhileStmt
  PROVE  IInv'
<1> DEFINE l == Len(ir.code)
           t == After("whileCond", node, <<l + 1, l + 2, l + 3>>)
           u == Visit(node.cond)
           v == Top
           s == Front(agenda)
           w == NewBlocks(ir, 3)
<1>1. /\ Visiting("while") /\ agenda' = s \o <<t, u>>
      /\ ir' = (IF IsTerminated(w, insert) THEN w ELSE create_br(w, insert, l + 1))
      /\ insert' = l + 1 /\ cur_basic_block_list' = Front(cur_basic_block_list)
      /\ While_Stack' = Append(While_Stack, <<l + 1, l + 3>>)
      /\ Or_Cond_Stack' = Append(Or_Cond_Stack, <<l + 2, l + 3>>)
      /\ prog' = prog /\ pre_enter_scope' = pre_enter_scope /\ fault' = fault
  BY DEF BeginWhileStmt, Continue
<1>2. PICK g : /\ On(g) /\ v.task = "visit" /\ v.node.k = "while" /\ g.mode = "stmt"
               /\ Statement(g, v.node) /\ StmtParts(g, v.node) /\ cur_basic_block_list = <<insert>>
  BY <1>1, VisitOpening
<1>3. /\ prog \in Programs /\ fault = FALSE /\ pre_enter_scope \in BOOLEAN
      /\ Leaves(s, g) /\ Fits(g, v) /\ Good(g) /\ Good(Over(g, v))
      /\ At(ir, insert, cur_basic_block_list, While_Stack, Or_Cond_Stack, Over(g, v))
  BY <1>2 DEF On
<1>4. Shape(ir)
  BY <1>3, AtFacts
<1> HIDE DEF w
<1>5. Added(ir, w, {l + 1, l + 2, l + 3}) /\ l + 1 # l + 2 /\ l + 1 # l + 3 /\ l + 2 # l + 3
  BY <1>4, ThreeNewBlocks DEF w
<1>6. t.task = "whileCond" /\ t.node = v.node /\ t.bbs[1] = l + 1 /\ t.bbs[2] = l + 2 /\ t.bbs[3] = l + 3
  BY DEF After, node
<1>7. u.task = "visit" /\ u.node \in Conds
  BY <1>2 DEF Visit, node, StmtParts
<1>8. Front(cur_basic_block_list) = <<>>
  BY <1>2, ShortSequences, ReplaceOne
<1> HIDE DEF l, t, u, v, s
<1>9. LoopBegins(s, g, v, ir, insert, cur_basic_block_list, While_Stack, Or_Cond_Stack, t, w, u)
  BY <1>2, <1>3, <1>5, <1>6, <1>7 DEF LoopBegins
<1>10. /\ ~ IsTerminated(w, insert)
       /\ Going(s \o <<t, u>>, create_br(w, insert, t.bbs[1]), t.bbs[1], <<>>,
                Append(While_Stack, <<t.bbs[1], t.bbs[3]>>), Append(Or_Cond_Stack, <<t.bbs[2], t.bbs[3]>>))
  BY <1>9, LoopBegun
<1>11. QED
  BY <1>1, <1>3, <1>6, <1>8, <1>10 DEF IInv

(* The condition is done, and the body begins. *)
BodyBegins(s, f, m, ins, cbl, ws, os, t, n, t2, u) ==
  /\ Leaves(s, f) /\ Good(f) /\ Fits(f, t) /\ t.task = "whileCond"
  /\ At(m, ins, cbl, ws, os, Over(f, t))
  /\ Branched(m, n, ins, Over(f, t).held, {t.bbs[2], t.bbs[3]})
  /\ t2.task = "whileBody" /\ t2.node = t.node /\ t2.bbs = t.bbs
  /\ u.task = "visit" /\ u.node \in LoopStmts

(* The two tasks fit, and the state is what they left.                     *)
LEMMA BodyBegun ==
  ASSUME NEW s, NEW f, NEW m, NEW ins, NEW cbl, NEW ws, NEW os, NEW t, NEW n, NEW t2, NEW u,
         BodyBegins(s, f, m, ins, cbl, ws, os, t, n, t2, u)
  PROVE  Going(s \o <<t2, u>>, n, t.bbs[2], <<t.bbs[2]>>, ws, f.conds)
<1>1. /\ Fits(f, t2) /\ Fits(Over(f, t2), u)
      /\ At(n, t.bbs[2], <<t.bbs[2]>>, ws, f.conds, Over(Over(f, t2), u))
  BY EnterLoop DEF BodyBegins
<1>2. Leaves(s, f)
  BY DEF BodyBegins
<1>3. QED
  BY <1>1, <1>2, GoingTwo

(* The condition branches to the body or past the loop.                    *)
LEMMA WhileConditionKeeps ==
  ASSUME IInv, WhileCondition
  PROVE  IInv'
<1> DEFINE t == Top
           t2 == After("whileBody", node, bbs)
           u == Visit(node.body)
           s == Front(agenda)
           b == bbs[2]
           y == bbs[3]
<1>1. /\ Doing("whileCond") /\ Or_Cond_Stack' = Front(Or_Cond_Stack)
      /\ ir' = create_cond_br(ir, insert, tmp_val, b, y) /\ insert' = b
      /\ cur_basic_block_list' = Append(cur_basic_block_list, b)
      /\ agenda' = s \o <<t2, u>>
      /\ prog' = prog /\ While_Stack' = While_Stack /\ pre_enter_scope' = pre_enter_scope
      /\ fault' = fault
  BY DEF WhileCondition, Continue
<1>2. agenda # <<>> /\ t.task = "whileCond"
  BY <1>1 DEF Doing
<1>3. PICK g : On(g)
  BY <1>2, Opening
<1> DEFINE p == Over(g, t)
<1>4. /\ prog \in Programs /\ fault = FALSE /\ pre_enter_scope \in BOOLEAN
      /\ Leaves(s, g) /\ Fits(g, t) /\ Good(g) /\ Good(p)
      /\ At(ir, insert, cur_basic_block_list, While_Stack, Or_Cond_Stack, p)
  BY <1>3 DEF On
<1>5. /\ t2.task = "whileBody" /\ t2.node = t.node /\ t2.bbs = t.bbs /\ u.task = "visit"
      /\ u.node = t.node.body /\ b = t.bbs[2] /\ y = t.bbs[3]
  BY DEF After, Visit, node, bbs
<1>6. CondPair(t)[1] = b /\ CondPair(t)[2] = y
  BY <1>2, <1>5 DEF CondPair
<1> HIDE DEF t, t2, u, s, b, y, p
<1>7. /\ CondPair(t)[1] \in p.held /\ CondPair(t)[2] \in p.held /\ CondPair(t)[1] # CondPair(t)[2]
      /\ p.conds = Append(g.conds, CondPair(t)) /\ p.mode = "cond"
  BY <1>2, <1>4, PairHeld DEF p
<1>8. /\ ~ IsTerminated(ir, insert) /\ UnderWay(ir, insert, p.held) /\ Or_Cond_Stack = p.conds
      /\ Sequence(cur_basic_block_list) /\ Len(cur_basic_block_list) = p.list
  BY <1>4, <1>7 DEF At, Place, OpenModes
<1>9. Branched(ir, ir', insert, p.held, {t.bbs[2], t.bbs[3]})
  <2>1. b \in p.held /\ y \in p.held /\ b # y
    BY <1>6, <1>7
  <2>2. Branched(ir, ir', insert, p.held, {b, y})
    BY <1>1, <1>8, <2>1, Fork
  <2>3. QED
    BY <1>5, <2>2
<1>10. p.list = 0 /\ t.node.body \in LoopStmts
  <2>1. t.task \in LoopTasks
    BY <1>2 DEF LoopTasks
  <2>2. LoopFrame(g, t, p)
    BY <1>4, <2>1, LoopFields DEF p
  <2>3. Statement(g, t.node) /\ t.node.k = "while"
    BY <1>2, <1>4 DEF Fits, IfTasks, LoopTasks
  <2>4. StmtParts(g, t.node)
    BY <2>3, StmtNode
  <2>5. QED
    BY <1>2, <2>2, <2>3, <2>4 DEF StmtParts, LoopFrame
<1>11. BodyBegins(s, g, ir, insert, cur_basic_block_list, While_Stack, Or_Cond_Stack, t, ir', t2, u)
  BY <1>2, <1>4, <1>5, <1>9, <1>10 DEF BodyBegins, p
<1>12. Going(s \o <<t2, u>>, ir', t.bbs[2], <<t.bbs[2]>>, While_Stack, g.conds)
  BY <1>11, BodyBegun
<1>13. Or_Cond_Stack' = g.conds
  <2>1. Sequence(g.conds)
    BY <1>4 DEF Good
  <2>2. QED
    BY <1>1, <1>7, <1>8, <2>1, AppendSequence
<1>14. cur_basic_block_list' = <<b>>
  <2>1. cur_basic_block_list = <<>>
    BY <1>8, <1>10, SequenceFacts1
  <2>2. QED
    BY <1>1, <2>1
<1>15. QED
  BY <1>1, <1>4, <1>5, <1>12, <1>13, <1>14 DEF IInv

(* The body is done: the builder jumps back to whileBB and goes on in      *)
(* nextBB.                                                                 *)
LoopDone(s, f, m, ins, cbl, ws, os, t) ==
  /\ Leaves(s, f) /\ Good(f) /\ Fits(f, t) /\ t.task = "whileBody"
  /\ At(m, ins, cbl, ws, os, Over(f, t))

(* The end of the body has a terminator, and the loop is left.             *)
LEMMA LoopClosed ==
  ASSUME NEW s, NEW f, NEW m, NEW ins, NEW cbl, NEW ws, NEW os, NEW t,
         LoopDone(s, f, m, ins, cbl, ws, os, t),
         NEW n, n = IF IsTerminated(m, ins) THEN m ELSE create_br(m, ins, t.bbs[1])
  PROVE  /\ Going(s, n, t.bbs[3], <<t.bbs[3]>>, f.loops, os)
         /\ ws = Append(f.loops, <<t.bbs[1], t.bbs[3]>>) /\ Sequence(f.loops)
         /\ Sequence(cbl) /\ Len(cbl) = 1
<1> DEFINE p == Over(f, t)
           b == t.bbs[1]
           h == t.bbs[3]
<1>1. /\ Leaves(s, f) /\ Good(f) /\ Fits(f, t) /\ t.task \in LoopTasks /\ t.task = "whileBody"
      /\ At(m, ins, cbl, ws, os, p)
  BY DEF LoopDone, LoopTasks
<1>2. LoopFrame(f, t, p)
  BY <1>1, LoopFields
<1>3. h \in p.held /\ <<b, h>> \in p.lead /\ Good(p) /\ b \in p.own
  <2>1. Entered(t) = {t.bbs[1], t.bbs[2]}
    BY <1>1 DEF Entered
  <2>2. QED
    BY <1>1, <1>2, <2>1 DEF LoopFrame, NewThree
<1>4. p.list = 1 /\ p.loops = Append(f.loops, <<t.bbs[1], t.bbs[3]>>)
  BY <1>1, <1>2 DEF LoopFrame
<1> HIDE DEF p, b, h
<1>5. UnderWay(m, ins, p.held) /\ b \in InList(m) \ {entryBB} /\ Kept(m, p) /\ ws = p.loops
  BY <1>1, <1>3, AtFacts
<1>6. LeadsFrom(m, b, h)
  BY <1>3, <1>5 DEF Kept
<1>7. n = IF IsTerminated(m, ins) THEN m ELSE create_br(m, ins, b)
  BY DEF b
<1>8. Closed(m, n, ins, p.held, b)
  BY <1>3, <1>5, <1>6, <1>7, EndBranchCloses
<1>9. At(n, h, <<h>>, f.loops, os, f)
  <2>1. Closed(m, n, ins, Over(f, t).held, t.bbs[1]) /\ At(m, ins, cbl, ws, os, Over(f, t))
    BY <1>1, <1>8 DEF p, b
  <2>2. At(n, t.bbs[3], <<t.bbs[3]>>, f.loops, os, f)
    BY <1>1, <2>1, LeaveLoop
  <2>3. QED
    BY <2>2 DEF h
<1>10. f.mode # "start"
  BY <1>2 DEF LoopFrame
<1>11. Going(s, n, h, <<h>>, f.loops, os)
  BY <1>1, <1>9, <1>10, GoingBack
<1>12. Sequence(f.loops) /\ Sequence(cbl) /\ Len(cbl) = 1
  BY <1>1, <1>4 DEF Good, At, Place
<1>13. QED
  BY <1>4, <1>5, <1>11, <1>12 DEF h

(* The loop goes on in nextBB.                                             *)
LEMMA EndWhileStmtKeeps ==
  ASSUME IInv, EndWhileStmt
  PROVE  IInv'
<1> DEFINE t == Top
           s == Front(agenda)
           n == IF IsTerminated(ir, insert) THEN ir ELSE create_br(ir, insert, bbs[1])
<1>1. /\ Doing("whileBody") /\ agenda' = s /\ ir' = n /\ insert' = bbs[3]
      /\ cur_basic_block_list' = ReplaceLast(cur_basic_block_list, bbs[3])
      /\ While_Stack' = Front(While_Stack)
      /\ prog' = prog /\ Or_Cond_Stack' = Or_Cond_Stack
      /\ pre_enter_scope' = pre_enter_scope /\ fault' = fault
  BY DEF EndWhileStmt, EndBranch, Return
<1>2. agenda # <<>> /\ t.task = "whileBody" /\ t.bbs = bbs
  BY <1>1 DEF Doing, bbs
<1>3. PICK g : On(g)
  BY <1>2, Opening
<1>4. /\ prog \in Programs /\ fault = FALSE /\ pre_enter_scope \in BOOLEAN
      /\ Leaves(s, g) /\ Fits(g, t) /\ Good(g)
      /\ At(ir, insert, cur_basic_block_list, While_Stack, Or_Cond_Stack, Over(g, t))
  BY <1>3 DEF On
<1>5. n = IF IsTerminated(ir, insert) THEN ir ELSE create_br(ir, insert, t.bbs[1])
  BY <1>2
<1> HIDE DEF t, s, n
<1>6. LoopDone(s, g, ir, insert, cur_basic_block_list, While_Stack, Or_Cond_Stack, t)
  BY <1>2, <1>4 DEF LoopDone
<1>7. /\ Going(s, n, t.bbs[3], <<t.bbs[3]>>, g.loops, Or_Cond_Stack)
      /\ While_Stack = Append(g.loops, <<t.bbs[1], t.bbs[3]>>) /\ Sequence(g.loops)
      /\ Sequence(cur_basic_block_list) /\ Len(cur_basic_block_list) = 1
  BY <1>5, <1>6, LoopClosed
<1>8. While_Stack' = g.loops
  BY <1>1, <1>7, AppendSequence
<1>9. cur_basic_block_list' = <<t.bbs[3]>>
  BY <1>1, <1>2, <1>7, ReplaceOne
<1>10. QED
  BY <1>1, <1>2, <1>4, <1>7, <1>8, <1>9 DEF IInv

(* The function begins with its entry block open and ret_BB held.          *)
LEMMA FuncBegun ==
  ASSUME NEW m, UnderWay(m, entryBB, {ret_BB}), ~ IsTerminated(m, entryBB), InList(m) = {entryBB, ret_BB},
         NEW t, t.task = "endFunc", NEW u, u.task = "visit", u.node \in Stmts
  PROVE  Going(<<>> \o <<t, u>>, m, entryBB, <<entryBB>>, <<>>, <<>>)
<1> DEFINE p == Over(Outside, t)
           q == Over(p, u)
<1>1. Fits(Outside, t) /\ Good(Outside)
  BY GoodOutside DEF Fits, Outside
<1>2. Good(p) /\ Fields(Outside, t, p)
  BY <1>1, GoodOver, OverFields
<1>3. /\ p.mode = "stmt" /\ p.loops = <<>> /\ p.conds = <<>> /\ p.list = 1 /\ p.own = {ret_BB}
      /\ p.held = {ret_BB} /\ p.spare = {} /\ p.fed = {} /\ p.lead = {} /\ p.from = {}
  <2>1. /\ Outside.mode = "start" /\ Outside.loops = <<>> /\ Outside.conds = <<>> /\ Outside.list = 1
        /\ Outside.own = {} /\ Outside.held = {} /\ Outside.spare = {} /\ Outside.fed = {}
        /\ Outside.lead = {} /\ Outside.from = {}
    BY DEF Outside
  <2>2. /\ ModeOf(Outside, t) = "stmt" /\ LoopsOf(Outside, t) = <<>> /\ CondsOf(Outside, t) = <<>>
        /\ Own(t) = {ret_BB} /\ Entered(t) = {} /\ Spare(t) = {} /\ Fed(t) = {}
    BY <2>1 DEF ModeOf, LoopsOf, CondsOf, Own, Entered, Spare, Fed, CondTasks, LoopTasks
  <2> HIDE DEF p
  <2>3. QED
    BY <1>2, <2>1, <2>2 DEF Fields
<1> HIDE DEF p
<1>4. Fits(p, u)
  BY <1>3 DEF Fits, Statement
<1>5. Good(q) /\ Like(q, p)
  BY <1>2, <1>4, GoodOver, VisitLike
<1> HIDE DEF q
<1>6. /\ q.loops = <<>> /\ q.conds = <<>> /\ q.list = 1 /\ q.own = {ret_BB}
      /\ q.held = {ret_BB} /\ q.spare = {} /\ q.fed = {} /\ q.lead = {} /\ q.from = {}
  BY <1>3, <1>5 DEF Like
<1>7. Kept(m, q)
  BY <1>6 DEF Kept, entryBB, ret_BB
<1>8. At(m, entryBB, <<entryBB>>, q.loops, q.conds, q)
  <2>1. UnderWay(m, entryBB, q.held) /\ \A a \in q.from : LeadsFrom(m, a, entryBB)
    BY <1>6
  <2>2. q.list = 1 /\ <<entryBB>> = <<entryBB>>
    BY <1>6
  <2>3. QED
    BY <1>5, <1>7, <2>1, <2>2, AtOpen
<1>9. At(m, entryBB, <<entryBB>>, <<>>, <<>>, Over(Over(Outside, t), u)) /\ Fits(Over(Outside, t), u)
  BY <1>4, <1>6, <1>8 DEF p, q
<1>10. QED
  BY <1>1, <1>9, LeavesNothing, GoingTwo

(* FuncDef creates the entry block, its alloca and ret_BB.                 *)
LEMMA BeginFuncDefKeeps ==
  ASSUME IInv, BeginFuncDef
  PROVE  IInv'
<1> DEFINE t == After("endFunc", prog, <<>>)
           u == Visit(prog.body)
           w == NewBlocks(ir, 2)
           i == [op |-> "alloca", id |-> NULL]
<1>1. /\ Doing("func") /\ ir' = (IF prog.void THEN w ELSE Emit(w, entryBB, i)) /\ insert' = entryBB
      /\ cur_basic_block_list' = Append(cur_basic_block_list, entryBB) /\ pre_enter_scope' = TRUE
      /\ agenda' = Front(agenda) \o <<t, u>> /\ prog' = prog
      /\ While_Stack' = While_Stack /\ Or_Cond_Stack' = Or_Cond_Stack /\ fault' = fault
  BY DEF BeginFuncDef, Continue
<1>2. agenda # <<>> /\ Last(agenda).task = "func"
  BY <1>1 DEF Doing, Top
<1>3. Begun
  <2>1. CASE Going(agenda, ir, insert, cur_basic_block_list, While_Stack, Or_Cond_Stack)
    <3>1. PICK g : Before(agenda, ir, insert, cur_basic_block_list, While_Stack, Or_Cond_Stack, g)
      BY <2>1, GoingBefore
    <3>2. Kinds(g, Last(agenda))
      BY <3>1, FitsKinds DEF Before
    <3>3. QED
      BY <1>2, <3>2 DEF Kinds, IfTasks, LoopTasks
  <2>2. QED
    BY <1>2, <2>1 DEF IInv, Ended
<1>4. Front(agenda) = <<>>
  <2>1. agenda = <<After("func", prog, <<>>)>>
    BY <1>3 DEF Begun
  <2>2. QED
    BY <2>1, ShortSequences, ReplaceOne
<1>5. i.op = "alloca" /\ t.task = "endFunc" /\ u.task = "visit" /\ u.node = prog.body
  BY DEF After, Visit
<1>6. u.node \in Stmts
  BY <1>5, FunctionAssumption DEF IInv
<1>7. cur_basic_block_list' = <<entryBB>> /\ While_Stack' = <<>> /\ Or_Cond_Stack' = <<>>
  BY <1>1, <1>3 DEF Begun
<1> HIDE DEF t, u, w, i
<1>8. /\ UnderWay(w, entryBB, {ret_BB}) /\ ~ IsTerminated(w, entryBB)
      /\ InList(w) = {entryBB, ret_BB} /\ BBs(w) = {entryBB, ret_BB}
  BY <1>3, FirstBlocks DEF Begun, w
<1>9. UnderWay(ir', entryBB, {ret_BB}) /\ ~ IsTerminated(ir', entryBB) /\ InList(ir') = {entryBB, ret_BB}
  <2>1. CASE prog.void
    BY <1>1, <1>8, <2>1
  <2>2. CASE ~ prog.void
    <3> DEFINE n == Emit(w, entryBB, i)
    <3>1. Shape(w) /\ entryBB \in BBs(w)
      BY <1>8 DEF UnderWay
    <3>2. Emitted(w, n, entryBB, i)
      BY <3>1, EmitFacts
    <3> HIDE DEF n
    <3>3. i.op \notin Terminators
      BY <1>5 DEF Terminators
    <3>4. UnderWay(n, entryBB, {ret_BB}) /\ ~ IsTerminated(n, entryBB) /\ SameGraph(w, n)
      BY <1>8, <3>2, <3>3, EmitPlain
    <3>5. InList(n) = InList(w)
      BY <3>4 DEF SameGraph, InList
    <3>6. QED
      BY <1>1, <1>8, <2>2, <3>4, <3>5 DEF n
  <2>3. QED
    BY <2>1, <2>2
<1>10. Going(<<>> \o <<t, u>>, ir', entryBB, <<entryBB>>, <<>>, <<>>)
  BY <1>5, <1>6, <1>9, FuncBegun
<1>11. QED
  BY <1>1, <1>4, <1>7, <1>10 DEF IInv

(* It ends with a jump to ret_BB, unless one or a break was there already, *)
(* and the return.                                                         *)
LEMMA EndFuncDefKeeps ==
  ASSUME IInv, EndFuncDef
  PROVE  IInv'
<1> DEFINE open == ~ IsTerminated(ir, insert)
           i == [op |-> "act", id |-> 0, decl |-> NULL]
           zero == IF open /\ ~ prog.void THEN Emit(ir, insert, i) ELSE ir
           jump == IF open THEN create_br(zero, insert, ret_BB) ELSE zero
           r == [op |-> "ret"]
           t == Top
<1>1. /\ Doing("endFunc") /\ ir' = Emit(jump, ret_BB, r) /\ insert' = ret_BB
      /\ cur_basic_block_list' = Front(cur_basic_block_list) /\ agenda' = Front(agenda)
      /\ prog' = prog /\ While_Stack' = While_Stack /\ Or_Cond_Stack' = Or_Cond_Stack
      /\ pre_enter_scope' = pre_enter_scope /\ fault' = fault
  BY DEF EndFuncDef, Return
<1>2. agenda # <<>> /\ t.task = "endFunc"
  BY <1>1 DEF Doing
<1>3. PICK g : On(g)
  BY <1>2, Opening
<1>4. /\ prog \in Programs /\ fault = FALSE /\ pre_enter_scope \in BOOLEAN
      /\ Leaves(Front(agenda), g) /\ Fits(g, t) /\ Good(g)
      /\ At(ir, insert, cur_basic_block_list, While_Stack, Or_Cond_Stack, Over(g, t))
  BY <1>3 DEF On
<1>5. g = Outside
  BY <1>2, <1>4 DEF Fits, IfTasks, LoopTasks
<1>6. agenda' = <<>>
  BY <1>1, <1>4, <1>5, NoneBelow
<1> DEFINE p == Over(Outside, t)
<1>7. Fields(Outside, t, p)
  BY OverFields
<1>8. p.loops = <<>> /\ p.conds = <<>> /\ p.list = 1 /\ p.own = {ret_BB} /\ p.held = {ret_BB}
  <2>1. /\ Outside.mode = "start" /\ Outside.loops = <<>> /\ Outside.conds = <<>> /\ Outside.list = 1
        /\ Outside.own = {} /\ Outside.held = {}
    BY DEF Outside
  <2>2. /\ LoopsOf(Outside, t) = <<>> /\ CondsOf(Outside, t) = <<>>
        /\ Own(t) = {ret_BB} /\ Entered(t) = {}
    BY <1>2, <2>1 DEF LoopsOf, CondsOf, Own, Entered, LoopTasks
  <2> HIDE DEF p
  <2>3. QED
    BY <1>2, <1>7, <2>1, <2>2 DEF Fields
<1>9. At(ir, insert, cur_basic_block_list, While_Stack, Or_Cond_Stack, p) /\ Good(p)
  BY <1>4, <1>5, GoodOver
<1> HIDE DEF p
<1>10. /\ UnderWay(ir, insert, {ret_BB}) /\ ret_BB \in InList(ir) \ {entryBB}
       /\ While_Stack = <<>> /\ Or_Cond_Stack = <<>>
       /\ Sequence(cur_basic_block_list) /\ Len(cur_basic_block_list) = 1
       /\ ~ open => ir.pre[ret_BB] # <<>>
  <2>1. UnderWay(ir, insert, p.held) /\ p.own \subseteq InList(ir) \ {entryBB}
    BY <1>9, AtFacts
  <2>2. QED
    BY <1>8, <1>9, <2>1 DEF At, Place
<1>11. i.op = "act" /\ r.op = "ret"
  OBVIOUS
<1> HIDE DEF i, r
<1>12. open => UnderWay(zero, insert, {ret_BB}) /\ ~ IsTerminated(zero, insert) /\ InList(zero) = InList(ir)
  <2>1. CASE open /\ ~ prog.void
    <3> DEFINE n == Emit(ir, insert, i)
    <3>1. UnderWay(n, insert, {ret_BB}) /\ ~ IsTerminated(n, insert) /\ SameGraph(ir, n)
      BY <1>10, <1>11, <2>1, EmitOpen
    <3> HIDE DEF n
    <3>2. InList(n) = InList(ir)
      BY <3>1 DEF SameGraph, InList
    <3>3. zero = n
      BY <2>1 DEF n
    <3>4. QED
      BY <3>1, <3>2, <3>3
  <2>2. CASE open /\ prog.void
    BY <1>10, <2>2
  <2>3. QED
    BY <2>1, <2>2
<1>13. UnderWay(jump, insert, {ret_BB}) /\ IsTerminated(jump, insert) /\ jump.pre[ret_BB] # <<>>
  <2>1. CASE open
    <3> DEFINE n == create_br(zero, insert, ret_BB)
    <3> HIDE DEF zero
    <3>1. LeadsFrom(zero, ret_BB, ret_BB)
      BY DEF LeadsFrom
    <3>2. UnderWay(zero, insert, {ret_BB}) /\ ~ IsTerminated(zero, insert)
          /\ ret_BB \in InList(zero) \ {entryBB} /\ ret_BB \in {ret_BB}
      BY <1>10, <1>12, <2>1
    <3>3. Branched(zero, n, insert, {ret_BB}, {ret_BB})
      BY <3>1, <3>2, Jump
    <3>4. jump = n
      BY <2>1
    <3> HIDE DEF n, jump
    <3>5. QED
      BY <3>3, <3>4 DEF Branched
  <2>2. CASE ~ open
    BY <1>10, <2>2
  <2>3. QED
    BY <2>1, <2>2
<1> HIDE DEF jump
<1>14. Complete(ir')
  BY <1>1, <1>11, <1>13, EmitReturn
<1>15. cur_basic_block_list' = <<>>
  BY <1>1, <1>10, ReplaceOne
<1>16. Ended'
  BY <1>1, <1>6, <1>10, <1>14, <1>15 DEF Ended
<1>17. QED
  BY <1>1, <1>4, <1>16 DEF IInv

-----------------------------------------------------------------------------
(* The invariant holds when FuncDef is visited.                            *)
LEMMA StartsUnderWay == Init => IInv
BY DEF Init, IInv, Begun

(* It is about the variables of the builder only.                          *)
LEMMA Stutter ==
  ASSUME IInv, UNCHANGED irVars
  PROVE  IInv'
<1>1. /\ prog' = prog /\ agenda' = agenda /\ ir' = ir /\ insert' = insert
      /\ cur_basic_block_list' = cur_basic_block_list /\ While_Stack' = While_Stack
      /\ Or_Cond_Stack' = Or_Cond_Stack /\ pre_enter_scope' = pre_enter_scope /\ fault' = fault
  BY DEF irVars, buildVars
<1>2. QED
  BY <1>1 DEF IInv, Begun, Ended

(* Every step keeps it.                                                    *)
LEMMA StepKeeps ==
  ASSUME IInv, [BuildNext]_irVars
  PROVE  IInv'
<1>1. CASE UNCHANGED irVars
  BY <1>1, Stutter
<1>2. CASE BuildNext
  BY <1>2, BeginFuncDefKeeps, EndFuncDefKeeps, BeginBlockStmtKeeps, NextStmtKeeps, EndBlockStmtKeeps,
     VarDefKeeps, VisitActKeeps, EmptyStmtKeeps, ReturnStmtKeeps, BreakStmtKeeps, ContinueStmtKeeps,
     VisitAtomKeeps, BeginLAndKeeps, EndLAndKeeps, BeginLOrKeeps, EndLOrKeeps,
     BeginIfStmtKeeps, IfConditionKeeps, EndThenOnlyKeeps, BeginElseKeeps, EndElseKeeps,
     BeginWhileStmtKeeps, WhileConditionKeeps, EndWhileStmtKeeps
  DEF BuildNext
<1>3. QED
  BY <1>1, <1>2

-----------------------------------------------------------------------------
(***************************************************************************)
(* What the invariant says                                                 *)
(***************************************************************************)
(* The function is one whose edges and instructions are in order. *)
Sound(m) ==
  /\ Shape(m) /\ Edges(m) /\ Instructions(m)
  /\ \A b \in BBs(m) \ InList(m) : m.code[b] = <<>>

(* A function without blocks is in order.                                  *)
LEMMA EmptySound ==
  ASSUME NEW m, m = [code |-> <<>>, pre |-> <<>>, succ |-> <<>>, list |-> <<>>]
  PROVE  Sound(m)
<1>1. /\ m.code = <<>> /\ m.pre = <<>> /\ m.succ = <<>> /\ m.list = <<>>
      /\ DOMAIN m = {"code", "pre", "succ", "list"}
  OBVIOUS
<1>2. BBs(m) = {} /\ Len(m.list) = 0
  BY <1>1, ShortSequences DEF BBs
<1> SUFFICES Shape(m) /\ Edges(m) /\ Instructions(m)
  BY <1>2 DEF Sound
<1>3. m.list \in Seq(BBs(m)) /\ Distinct(m.list)
  BY <1>1, <1>2 DEF Distinct
<1>4. Shape(m)
  <2>1. Sequence(m.code) /\ Sequence(m.pre) /\ Sequence(m.succ) /\ Len(m.pre) = Len(m.code)
        /\ Len(m.succ) = Len(m.code)
    BY <1>1, ShortSequences
  <2>2. QED
    BY <1>1, <1>2, <1>3, <2>1 DEF Shape
<1>5. QED
  BY <1>2, <1>4 DEF Edges, Instructions

(* So is one under construction.                                           *)
LEMMA UnderWaySound ==
  ASSUME NEW m, NEW ins, NEW H, UnderWay(m, ins, H)
  PROVE  Sound(m)
BY DEF UnderWay, Sound, Placed

(* So is a finished one.                                                   *)
LEMMA CompleteSound ==
  ASSUME NEW m, Complete(m)
  PROVE  Sound(m)
BY DEF Complete, Sound, Placed

(* The visits in progress are at a function in order.                      *)
LEMMA GoingSound ==
  ASSUME NEW ag, NEW m, NEW ins, NEW cbl, NEW ws, NEW os, Going(ag, m, ins, cbl, ws, os)
  PROVE  Sound(m)
<1>1. PICK f : At(m, ins, cbl, ws, os, f)
  BY DEF Going
<1>2. UnderWay(m, ins, f.held)
  BY <1>1 DEF At
<1>3. QED
  BY <1>2, UnderWaySound

(* The function is always in order, and finished when none are left.       *)
LEMMA AlwaysSound ==
  ASSUME IInv
  PROVE  Sound(ir) /\ (Built => Complete(ir)) /\ fault = FALSE
<1>1. CASE Begun
  <2>1. Sound(ir)
    BY <1>1, EmptySound DEF Begun
  <2>2. agenda # <<>>
    BY <1>1, ShortSequences DEF Begun
  <2>3. QED
    BY <2>1, <2>2 DEF IInv, Built
<1>2. CASE Ended
  BY <1>2, CompleteSound DEF IInv, Ended
<1>3. CASE Going(agenda, ir, insert, cur_basic_block_list, While_Stack, Or_Cond_Stack)
  <2>1. Sound(ir)
    BY <1>3, GoingSound
  <2>2. agenda # <<>>
    BY <1>3 DEF Going
  <2>3. QED
    BY <2>1, <2>2 DEF IInv, Built
<1>4. QED
  BY <1>1, <1>2, <1>3 DEF IInv

(* A list of pairs of blocks is a list of pairs. *)
LEMMA PairList ==
  ASSUME NEW s, Sequence(s), NEW S,
         \A j \in 1 .. Len(s) : s[j] = <<s[j][1], s[j][2]>> /\ s[j][1] \in S /\ s[j][2] \in S
  PROVE  s \in Seq(S \X S)
<1>1. ASSUME NEW j \in 1 .. Len(s) PROVE s[j] \in S \X S
  <2>1. ASSUME NEW a \in S, NEW b \in S, NEW c, c = <<a, b>> PROVE c \in S \X S
    BY <2>1
  <2> DEFINE a == s[j][1]
             b == s[j][2]
             c == s[j]
  <2>2. a \in S /\ b \in S /\ c = <<a, b>>
    BY Zenon
  <2> HIDE DEF a, b, c
  <2>3. c \in S \X S
    BY <2>1, <2>2
  <2>4. QED
    BY <2>3 DEF c
<1>2. QED
  BY <1>1, SequenceTyped

(* The stacks and lists of the builder are made of blocks. *)
Typed(m, ins, cbl, ws, os) ==
  /\ ins \in BBs(m) \cup {0} /\ cbl \in Seq(BBs(m))
  /\ ws \in Seq(BBs(m) \X BBs(m)) /\ os \in Seq(BBs(m) \X BBs(m))

(* While visits are in progress they are.                                  *)
LEMMA GoingTyped ==
  ASSUME NEW ag, NEW m, NEW ins, NEW cbl, NEW ws, NEW os, Going(ag, m, ins, cbl, ws, os)
  PROVE  Typed(m, ins, cbl, ws, os)
<1>1. PICK g : Before(ag, m, ins, cbl, ws, os, g)
  BY GoingBefore
<1> DEFINE f == Over(g, Last(ag))
<1>2. Good(f) /\ At(m, ins, cbl, ws, os, f)
  BY <1>1 DEF Before
<1> HIDE DEF f
<1>3. ins \in BBs(m) /\ f.own \subseteq BBs(m) /\ f.held \subseteq f.own /\ ws = f.loops /\ os = f.conds
  BY <1>2, AtFacts
<1>4. cbl \in Seq(BBs(m))
  <2>1. Sequence(cbl) /\ \A k \in 1 .. Len(cbl) : cbl[k] \in BBs(m)
    BY <1>2 DEF At, Place
  <2>2. QED
    BY <2>1, SequenceTyped
<1>5. ws \in Seq(BBs(m) \X BBs(m))
  <2>1. Sequence(ws) /\ \A j \in 1 .. Len(ws) : /\ ws[j] = <<ws[j][1], ws[j][2]>>
                                               /\ ws[j][1] \in BBs(m) /\ ws[j][2] \in BBs(m)
    BY <1>2, <1>3 DEF Good
  <2>2. QED
    BY <2>1, PairList
<1>6. os \in Seq(BBs(m) \X BBs(m))
  <2>1. Sequence(os) /\ \A j \in 1 .. Len(os) : /\ os[j] = <<os[j][1], os[j][2]>>
                                               /\ os[j][1] \in BBs(m) /\ os[j][2] \in BBs(m)
    BY <1>2, <1>3 DEF Good
  <2>2. QED
    BY <2>1, PairList
<1>7. QED
  BY <1>3, <1>4, <1>5, <1>6 DEF Typed

(* They always are.                                                        *)
LEMMA AlwaysTyped ==
  ASSUME IInv
  PROVE  Typed(ir, insert, cur_basic_block_list, While_Stack, Or_Cond_Stack)
<1>0. \A S : <<>> \in Seq(S)
  OBVIOUS
<1>1. CASE Begun
  <2>1. insert = 0 /\ cur_basic_block_list = <<>> /\ While_Stack = <<>> /\ Or_Cond_Stack = <<>>
    BY <1>1 DEF Begun
  <2>2. QED
    BY <1>0, <2>1 DEF Typed
<1>2. CASE Ended
  <2>1. Complete(ir) /\ insert = ret_BB
        /\ cur_basic_block_list = <<>> /\ While_Stack = <<>> /\ Or_Cond_Stack = <<>>
    BY <1>2 DEF Ended
  <2>2. insert \in BBs(ir)
    BY <2>1, InsertListed DEF Complete
  <2>3. QED
    BY <2>1, <2>2 DEF Typed
<1>3. CASE Going(agenda, ir, insert, cur_basic_block_list, While_Stack, Or_Cond_Stack)
  BY <1>3, GoingTyped
<1>4. QED
  BY <1>1, <1>2, <1>3 DEF IInv

(* The invariant says that the types are right.                            *)
LEMMA TypeHolds ==
  ASSUME IInv
  PROVE  TypeOK
<1>1. Shape(ir) /\ fault \in BOOLEAN /\ pre_enter_scope \in BOOLEAN
  BY AlwaysSound DEF Sound, IInv
<1>2. /\ Sequence(ir.code) /\ Sequence(ir.pre) /\ Sequence(ir.succ) /\ Sequence(ir.list)
      /\ InList(ir) \subseteq BBs(ir)
  BY <1>1, ListedBlocks
<1>3. AllBBs = BBs(ir) /\ DOMAIN ir.pre = BBs(ir) /\ DOMAIN ir.succ = BBs(ir)
  BY <1>1, <1>2, SequenceFacts1 DEF AllBBs, BBs, Shape
<1>4. Len(ir.list) = Cardinality(Listed) /\ Listed \subseteq AllBBs
  <2>1. Distinct(ir.list)
    BY <1>1 DEF Shape
  <2>2. Cardinality(ToSet(ir.list)) = Len(ir.list)
    BY <1>2, <2>1, DistinctLength DEF Distinct
  <2>3. QED
    BY <1>2, <1>3, <2>2 DEF Listed, InList
<1>5. \A b \in AllBBs : ir.pre[b] \in Seq(AllBBs) /\ ir.succ[b] \in Seq(AllBBs)
  BY <1>1, <1>3 DEF Shape
<1>6. /\ insert \in AllBBs \cup {0} /\ cur_basic_block_list \in Seq(AllBBs)
      /\ While_Stack \in Seq(AllBBs \X AllBBs) /\ Or_Cond_Stack \in Seq(AllBBs \X AllBBs)
  BY <1>3, AlwaysTyped DEF Typed
<1>7. QED
  BY <1>1, <1>3, <1>4, <1>5, <1>6 DEF TypeOK

(* It says where a declaration is visited and its alloca put.              *)
LEMMA DeclarationsHold ==
  ASSUME IInv
  PROVE  DeclarationsInPlace
<1>1. Sound(ir) /\ fault = FALSE
  BY AlwaysSound
<1>2. AllocasInEntry
  <2>1. /\ AllBBs = BBs(ir)
        /\ \A b \in BBs(ir) : DOMAIN ir.code[b] = 1 .. Len(ir.code[b])
    BY <1>1, ListedBlocks, EdgeLists, SequenceFacts1 DEF AllBBs, BBs, Sound
  <2>2. QED
    BY <1>1, <2>1 DEF AllocasInEntry, Sound, Instructions
<1>3. VarDefInCurrentBlock
  <2> SUFFICES ASSUME Visiting("decl")
               PROVE  /\ insert = Last(cur_basic_block_list) /\ insert \in Listed
                      /\ ~ IsTerminated(ir, insert)
    BY DEF VarDefInCurrentBlock
  <2>1. PICK g : On(g) /\ cur_basic_block_list = <<insert>> /\ ~ IsTerminated(ir, insert)
    BY VisitOpening
  <2>2. insert \in InList(ir)
    <3> DEFINE f == Over(g, Top)
    <3>1. Good(f) /\ At(ir, insert, cur_basic_block_list, While_Stack, Or_Cond_Stack, f)
      BY <2>1 DEF On
    <3> HIDE DEF f
    <3>2. insert \in InList(ir) \ f.held
      BY <3>1, AtFacts
    <3>3. QED
      BY <3>2
  <2>3. Last(cur_basic_block_list) = insert
    BY <2>1, ShortSequences, FrontSequence
  <2>4. QED
    BY <2>1, <2>2, <2>3 DEF Listed, InList
<1>4. QED
  BY <1>2, <1>3 DEF DeclarationsInPlace

(* It says that a terminator ends its block.                               *)
LEMMA OneTerminatorHolds ==
  ASSUME IInv
  PROVE  OneTerminator
<1>1. Sound(ir) /\ (Built => Complete(ir))
  BY AlwaysSound
<1>2. AllBBs = BBs(ir)
  BY <1>1, ListedBlocks, SequenceFacts1 DEF AllBBs, BBs, Sound
<1>3. \A b \in AllBBs : \A k \in 1 .. Len(ir.code[b]) - 1 : ir.code[b][k].op \notin Terminators
  BY <1>1, <1>2 DEF Sound, Instructions
<1>4. Built => \A b \in Listed : IsTerminated(ir, b)
  BY <1>1 DEF Complete, Placed, Listed, InList
<1>5. QED
  BY <1>3, <1>4 DEF OneTerminator

(* Targets is TargetsOf the function there is. *)
LEMMA TargetsIr == \A b : Targets(b) = TargetsOf(ir, b)
BY DEF Targets, TargetsOf

(* It says that the edge lists are those of the terminators.               *)
LEMMA EdgesHold ==
  ASSUME IInv
  PROVE  EdgesMatchTerminators
<1>1. Shape(ir) /\ Edges(ir) /\ \A b \in BBs(ir) \ InList(ir) : ir.code[b] = <<>>
  BY AlwaysSound DEF Sound
<1>2. Listed = InList(ir) /\ InList(ir) \subseteq BBs(ir)
  BY <1>1, ListedBlocks DEF Listed, InList
<1> SUFFICES ASSUME NEW b \in Listed
             PROVE  /\ ToSet(ir.succ[b]) = Targets(b) /\ Len(ir.succ[b]) = Cardinality(Targets(b))
                    /\ Targets(b) \subseteq Listed
                    /\ ToSet(ir.pre[b]) = {p \in Listed : b \in Targets(p)}
                    /\ Len(ir.pre[b]) = Cardinality(ToSet(ir.pre[b]))
  BY DEF EdgesMatchTerminators
<1>3. /\ Sequence(ir.pre[b]) /\ Sequence(ir.succ[b])
      /\ TargetsOf(ir, b) \subseteq InList(ir) /\ ToSet(ir.succ[b]) = TargetsOf(ir, b)
      /\ Distinct(ir.succ[b]) /\ Distinct(ir.pre[b])
      /\ ToSet(ir.pre[b]) = {a \in BBs(ir) : b \in TargetsOf(ir, a)}
  BY <1>1, <1>2, EdgeLists, EdgesInside
<1>4. Len(ir.succ[b]) = Cardinality(ToSet(ir.succ[b])) /\ Len(ir.pre[b]) = Cardinality(ToSet(ir.pre[b]))
  BY <1>3, DistinctLength DEF Distinct
<1>5. \A a \in BBs(ir) \ InList(ir) : TargetsOf(ir, a) = {}
  BY <1>1, EdgesInside
<1>6. {a \in BBs(ir) : b \in TargetsOf(ir, a)} = {p \in Listed : b \in TargetsOf(ir, p)}
  BY <1>2, <1>5
<1>7. QED
  BY <1>2, <1>3, <1>4, <1>6, TargetsIr

(* The sets of blocks Reached and Returning go through. *)
Growing(f, D, a, step) ==
  /\ f \in [Nat -> D] /\ f[0] = a
  /\ \A n \in Nat : f[n + 1] = step[f[n]]

(* A function defined by that recursion is one of these.                   *)
LEMMA RecursionGrows ==
  ASSUME NEW D, NEW a \in D, NEW step \in [D -> D], NEW f,
         f = [n \in Nat |-> IF n = 0 THEN a ELSE step[f[n - 1]]]
  PROVE  Growing(f, D, a, step)
<1>1. f[0] = a
  OBVIOUS
<1>2. ASSUME NEW n \in Nat PROVE f[n + 1] = step[f[n]]
  <2>1. n + 1 \in Nat /\ n + 1 # 0 /\ n + 1 - 1 = n
    OBVIOUS
  <2>2. QED
    BY <2>1
<1>3. \A n \in Nat : f[n] \in D
  <2> DEFINE T == {n \in Nat : f[n] \in D}
  <2>1. T \in SUBSET Nat /\ 0 \in T
    BY <1>1
  <2>2. \A n \in T : n + 1 \in T
    BY <1>2
  <2> HIDE DEF T
  <2>3. T = Nat
    BY <2>1, <2>2, Induction
  <2>4. QED
    BY <2>3 DEF T
<1>4. DOMAIN f = Nat /\ f = [n \in Nat |-> f[n]]
  <2>1. f = [n \in Nat |-> IF n = 0 THEN a ELSE step[f[n - 1]]]
    OBVIOUS
  <2>2. QED
    BY <2>1, Zenon
<1>5. QED
  BY <1>1, <1>2, <1>3, <1>4 DEF Growing

Full(R, S, a, step) == R \in SUBSET S /\ a \subseteq R /\ step[R] = R

(* A step that adds to a set, taken often enough, adds nothing more.       *)
LEMMA GrowsFull ==
  ASSUME NEW S, IsFiniteSet(S), NEW a \in SUBSET S, NEW step \in [SUBSET S -> SUBSET S],
         \A R \in SUBSET S : R \subseteq step[R], NEW f, Growing(f, SUBSET S, a, step)
  PROVE  Full(f[Cardinality(S)], S, a, step)
<1>1. f \in [Nat -> SUBSET S] /\ f[0] = a /\ \A n \in Nat : f[n + 1] = step[f[n]]
  BY DEF Growing
<1>2. \A n \in Nat : f[n] \subseteq f[n + 1]
  BY <1>1
<1>3. \A n \in Nat : f[n + 1] = f[n] => f[n + 1 + 1] = f[n + 1]
  BY <1>1
<1>4. f[0] \subseteq f[Cardinality(S)] /\ f[Cardinality(S) + 1] = f[Cardinality(S)]
  BY <1>1, <1>2, <1>3, Saturates
<1>5. Cardinality(S) \in Nat
  BY FS_CardinalityType
<1>6. QED
  BY <1>1, <1>4, <1>5 DEF Full

(* One more jump, forwards and backwards. *)
Onward(R) == R \cup UNION {Targets(b) : b \in R}
Backward(R) == R \cup {b \in Listed : Targets(b) \cap R # {}}

(* Reached is one, with the jumps as its step.                             *)
LEMMA ReachedRecursion ==
  ASSUME NEW D, {entryBB} \in D, NEW step \in [D -> D], \A R \in D : step[R] = Onward(R)
  PROVE  Growing(Reached, D, {entryBB}, step)
<1> DEFINE P(g) == g = [n \in Nat |-> IF n = 0 THEN {entryBB} ELSE Onward(g[n - 1])]
<1>1. Reached = CHOOSE g : P(g)
  BY Zenon DEF Reached, Onward
<1>2. PICK f \in [Nat -> D] : f = [n \in Nat |-> IF n = 0 THEN {entryBB} ELSE step[f[n - 1]]]
  BY IteratesExist
<1>3. P(f)
  <2>1. \A n \in Nat \ {0} : f[n - 1] \in D
    OBVIOUS
  <2>2. \A n \in Nat \ {0} : step[f[n - 1]] = Onward(f[n - 1])
    BY <2>1
  <2>3. QED
    BY <1>2, <2>2
<1>4. P(Reached)
  <2> HIDE DEF P
  <2>1. QED
    BY <1>1, <1>3
<1>5. Growing(f, D, {entryBB}, step)
  BY <1>2, RecursionGrows
<1>6. \A n \in Nat : Reached[n] = f[n]
  <2> DEFINE T == {n \in Nat : Reached[n] = f[n]}
  <2>1. T \in SUBSET Nat /\ 0 \in T
    BY <1>3, <1>4
  <2>2. ASSUME NEW n \in T PROVE n + 1 \in T
    <3>1. n + 1 \in Nat /\ n + 1 # 0 /\ n + 1 - 1 = n /\ n \in Nat
      OBVIOUS
    <3>2. Reached[n + 1] = Onward(Reached[n]) /\ f[n + 1] = Onward(f[n])
      BY <1>3, <1>4, <3>1
    <3>3. QED
      BY <3>1, <3>2
  <2> HIDE DEF T
  <2>3. T = Nat
    BY <2>1, <2>2, Induction
  <2>4. QED
    BY <2>3 DEF T
<1>7. Reached = f
  <2>1. Reached = [n \in Nat |-> IF n = 0 THEN {entryBB} ELSE Onward(Reached[n - 1])]
    BY <1>4
  <2>2. \A n \in Nat : Reached[n] = f[n]
    BY <1>6
  <2>3. QED
    BY <2>1, <2>2
<1>8. QED
  BY <1>5, <1>7

(* Returning is one, with the jumps backwards.                             *)
LEMMA ReturningRecursion ==
  ASSUME NEW D, Returns \in D, NEW step \in [D -> D], \A R \in D : step[R] = Backward(R)
  PROVE  Growing(Returning, D, Returns, step)
<1> DEFINE P(g) == g = [n \in Nat |-> IF n = 0 THEN Returns ELSE Backward(g[n - 1])]
<1>1. Returning = CHOOSE g : P(g)
  BY Zenon DEF Returning, Backward
<1>2. PICK f \in [Nat -> D] : f = [n \in Nat |-> IF n = 0 THEN Returns ELSE step[f[n - 1]]]
  BY IteratesExist
<1>3. P(f)
  <2>1. \A n \in Nat \ {0} : f[n - 1] \in D
    OBVIOUS
  <2>2. \A n \in Nat \ {0} : step[f[n - 1]] = Backward(f[n - 1])
    BY <2>1
  <2>3. QED
    BY <1>2, <2>2
<1>4. P(Returning)
  <2> HIDE DEF P
  <2>1. QED
    BY <1>1, <1>3
<1>5. Growing(f, D, Returns, step)
  BY <1>2, RecursionGrows
<1>6. \A n \in Nat : Returning[n] = f[n]
  <2> DEFINE T == {n \in Nat : Returning[n] = f[n]}
  <2>1. T \in SUBSET Nat /\ 0 \in T
    BY <1>3, <1>4
  <2>2. ASSUME NEW n \in T PROVE n + 1 \in T
    <3>1. n + 1 \in Nat /\ n + 1 # 0 /\ n + 1 - 1 = n /\ n \in Nat
      OBVIOUS
    <3>2. Returning[n + 1] = Backward(Returning[n]) /\ f[n + 1] = Backward(f[n])
      BY <1>3, <1>4, <3>1
    <3>3. QED
      BY <3>1, <3>2
  <2> HIDE DEF T
  <2>3. T = Nat
    BY <2>1, <2>2, Induction
  <2>4. QED
    BY <2>3 DEF T
<1>7. Returning = f
  <2>1. Returning = [n \in Nat |-> IF n = 0 THEN Returns ELSE Backward(Returning[n - 1])]
    BY <1>4
  <2>2. \A n \in Nat : Returning[n] = f[n]
    BY <1>6
  <2>3. QED
    BY <2>1, <2>2
<1>8. QED
  BY <1>5, <1>7

(* The blocks reached are closed under the jumps, and every one is.        *)
LEMMA ReachedAll ==
  ASSUME Complete(ir)
  PROVE  Reached[Cardinality(Listed)] = Listed
<1> DEFINE S == Listed
           D == SUBSET S
           step == [R \in D |-> Onward(R)]
           R == Reached[Cardinality(S)]
<1>1. /\ Shape(ir) /\ Edges(ir) /\ Reach(ir, {}) /\ Sequence(ir.list) /\ S = InList(ir)
      /\ S \subseteq BBs(ir) /\ entryBB \in S /\ Distinct(ir.list)
  BY ListedBlocks DEF Complete, Placed, Shape, Listed, InList
<1>2. \A b \in S : Targets(b) \subseteq S
  BY <1>1, TargetsIr DEF Edges
<1>3. IsFiniteSet(S)
  BY <1>1, DistinctLength DEF Distinct, Listed
<1>4. \A Q \in D : Onward(Q) \in D /\ Q \subseteq Onward(Q)
  BY <1>2 DEF Onward
<1>5. /\ step \in [D -> D] /\ {entryBB} \in D
      /\ \A Q \in D : step[Q] = Onward(Q) /\ Q \subseteq step[Q]
  BY <1>1, <1>4
<1> HIDE DEF step, R
<1>6. Growing(Reached, D, {entryBB}, step)
  <2> HIDE DEF D
  <2>1. QED
    BY <1>5, ReachedRecursion
<1>7. R \in SUBSET S /\ {entryBB} \subseteq R /\ step[R] = R
  <2>1. \A Q \in SUBSET S : Q \subseteq step[Q]
    BY <1>5
  <2>2. Full(Reached[Cardinality(S)], S, {entryBB}, step)
    <3> HIDE DEF S
    <3>1. QED
      BY <1>3, <1>5, <1>6, <2>1, GrowsFull
  <2>3. QED
    BY <2>2 DEF Full, R
<1>8. Onward(R) = R
  BY <1>5, <1>7
<1>9. ClosedIn(ir, R)
  BY <1>8, TargetsIr DEF ClosedIn, Onward
<1>10. S \subseteq R
  <2>1. R \in SUBSET BBs(ir) /\ entryBB \in R
    BY <1>1, <1>7
  <2>2. QED
    BY <1>1, <1>9, <2>1 DEF Reach
<1>11. QED
  BY <1>7, <1>10 DEF R

(* One block returns. *)
LEMMA OneReturns ==
  ASSUME Complete(ir)
  PROVE  Returns = {ret_BB}
<1>1. ret_BB \in Listed /\ Listed \subseteq BBs(ir)
  BY ListedBlocks DEF Complete, Placed, Listed, InList
<1>2. QED
  BY <1>1 DEF Complete, Returns

(* The blocks that reach a return are closed backwards, and every one does. *)
LEMMA ReturningAll ==
  ASSUME Complete(ir)
  PROVE  Returning[Cardinality(Listed)] = Listed
<1> DEFINE S == Listed
           D == SUBSET S
           step == [R \in D |-> Backward(R)]
           R == Returning[Cardinality(S)]
<1>1. /\ Shape(ir) /\ Edges(ir) /\ Leads(ir, {ret_BB}) /\ Sequence(ir.list) /\ S = InList(ir)
      /\ S \subseteq BBs(ir) /\ Distinct(ir.list)
      /\ \A b \in BBs(ir) \ InList(ir) : ir.code[b] = <<>>
  BY ListedBlocks DEF Complete, Placed, Shape, Listed, InList
<1>2. Returns = {ret_BB} /\ Returns \subseteq S
  BY OneReturns DEF Returns
<1>3. IsFiniteSet(S)
  BY <1>1, DistinctLength DEF Distinct, Listed
<1>4. \A Q \in D : Backward(Q) \in D /\ Q \subseteq Backward(Q)
  BY DEF Backward
<1>5. /\ step \in [D -> D] /\ Returns \in D
      /\ \A Q \in D : step[Q] = Backward(Q) /\ Q \subseteq step[Q]
  BY <1>2, <1>4
<1> HIDE DEF step, R
<1>6. Growing(Returning, D, Returns, step)
  <2> HIDE DEF D
  <2>1. QED
    BY <1>5, ReturningRecursion
<1>7. R \in SUBSET S /\ Returns \subseteq R /\ step[R] = R
  <2>1. \A Q \in SUBSET S : Q \subseteq step[Q]
    BY <1>5
  <2>2. Full(Returning[Cardinality(S)], S, Returns, step)
    <3> HIDE DEF S
    <3>1. QED
      BY <1>3, <1>5, <1>6, <2>1, GrowsFull
  <2>3. QED
    BY <2>2 DEF Full, R
<1>8. Backward(R) = R
  BY <1>5, <1>7
<1>9. Back(ir, R)
  <2>1. ASSUME NEW b \in BBs(ir), TargetsOf(ir, b) \cap R # {} PROVE b \in R
    <3>1. b \in S
      BY <1>1, <2>1, EdgesInside
    <3>2. QED
      BY <1>8, <2>1, <3>1, TargetsIr DEF Backward
  <2>2. QED
    BY <2>1 DEF Back
<1>10. S \subseteq R
  <2>1. R \in SUBSET BBs(ir) /\ {ret_BB} \subseteq R
    BY <1>1, <1>2, <1>7
  <2>2. QED
    BY <1>1, <1>9, <2>1 DEF Leads
<1>11. QED
  BY <1>7, <1>10 DEF R

(* It says that a finished graph is connected from entry to return.        *)
LEMMA BlocksReachedHold ==
  ASSUME IInv
  PROVE  AllBlocksReached
<1> SUFFICES ASSUME Complete(ir)
             PROVE  /\ ir.pre[entryBB] = <<>> /\ Reached[Cardinality(Listed)] = Listed
                    /\ Cardinality(Returns) = 1 /\ Returning[Cardinality(Listed)] = Listed
  BY AlwaysSound DEF AllBlocksReached
<1>1. ir.pre[entryBB] = <<>>
  <2>1. Shape(ir) /\ Edges(ir) /\ entryBB \in BBs(ir)
    BY InsertListed DEF Complete
  <2>2. Sequence(ir.pre[entryBB]) /\ ToSet(ir.pre[entryBB]) = {a \in BBs(ir) : entryBB \in TargetsOf(ir, a)}
    BY <2>1, EdgeLists, EdgesInside
  <2>3. \A a \in BBs(ir) : entryBB \notin TargetsOf(ir, a)
    BY <2>1 DEF Edges
  <2>4. ToSet(ir.pre[entryBB]) = {}
    BY <2>2, <2>3
  <2>5. QED
    BY <2>2, <2>4, SequenceFacts1
<1>2. Cardinality(Returns) = 1
  BY OneReturns, FS_Singleton
<1>3. QED
  BY <1>1, <1>2, ReachedAll, ReturningAll

-----------------------------------------------------------------------------
(* What the builder keeps at every step.                                   *)
THEOREM Invariance == BuildSpec => []IInv
<1>1. Init => IInv
  BY StartsUnderWay
<1>2. IInv /\ [BuildNext]_irVars => IInv'
  BY StepKeeps
<1>3. QED
  BY <1>1, <1>2, PTL DEF BuildSpec

(* The function and the stacks of the builder hold what they are for: the  *)
(* lists of every block and of the builder name blocks of the function.    *)
THEOREM TypeCorrect == BuildSpec => []TypeOK
<1>1. IInv => TypeOK
  BY TypeHolds
<1>2. QED
  BY <1>1, Invariance, PTL

(* Every declaration is visited in the block VarDef takes it for, and its  *)
(* alloca is in the entry block.                                           *)
THEOREM DeclarationsPlaced == BuildSpec => []DeclarationsInPlace
<1>1. IInv => DeclarationsInPlace
  BY DeclarationsHold
<1>2. QED
  BY <1>1, Invariance, PTL

(* The graph of a function is what DominateTree, RDominateTree and Mem2Reg *)
(* take for granted.                                                       *)
THEOREM GraphWellFormed == BuildSpec => []WellFormedGraph
<1>1. IInv => WellFormedGraph
  BY OneTerminatorHolds, EdgesHold, BlocksReachedHold DEF WellFormedGraph
<1>2. QED
  BY <1>1, Invariance, PTL

=============================================================================
