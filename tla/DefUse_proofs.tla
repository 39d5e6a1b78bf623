---------------------------- MODULE DefUse_proofs ----------------------------
(***************************************************************************)
(* Machine-checked facts about the def-use chains, for any number of       *)
(* instructions, constants and operands, and any order of the operations.  *)
(*                                                                         *)
(* UsesExact alone is not inductive: nothing in it says that a new         *)
(* instruction starts with an empty use list, or that the operands of an   *)
(* instruction in place are values in place that were not replaced.        *)
(***************************************************************************)
EXTENDS DefUse, TLAPS

(* Operand i of u, an instruction in place, is v. *)
IsUse(u, i, v) == status[u] = "placed" /\ i \in OperandIndices(u) /\ Operand(u, i) = v

(* A value nobody made yet has no users and is not replaced. *)
NewInv ==
  \A u \in Instructions : status[u] = "new" => use_list[u] = {} /\ u \notin replaced

(* What an instruction in place points at is there for it to use. *)
OperandsInv ==
  \A u \in Instructions, i \in Indices, v \in Values : IsUse(u, i, v) => Usable(v)

(* UsesExact, entry by entry. *)
UsesInv ==
  \A v \in Values : Usable(v) =>
    \A u \in Instructions, i \in Indices : <<u, i>> \in use_list[v] <=> IsUse(u, i, v)

IInv == TypeOK /\ NewInv /\ OperandsInv /\ UsesInv /\ NoNullDeref

-----------------------------------------------------------------------------
(* The operands of an instruction are values, at the indices of its list.  *)
LEMMA OperandFacts ==
  ASSUME TypeOK, NEW u \in Instructions
  PROVE  /\ u \in Values
         /\ operands[u] \in Seq(Values) /\ Len(operands[u]) \in 0 .. MaxOperands
         /\ \A i \in OperandIndices(u) : i \in Indices /\ Operand(u, i) \in Values
BY ValueAssumption DEF TypeOK, OperandIndices, Operand, Indices, Values

(* What the use lists ought to say, entry by entry. *)
LEMMA TrueUsesByIndex ==
  ASSUME NEW v, NEW u \in Instructions, NEW i \in Indices
  PROVE  <<u, i>> \in TrueUses(v) <=> IsUse(u, i, v)
BY DEF TrueUses, Uses, IsUse

(* At first there is nothing to list. *)
LEMMA InitIInv == Init => IInv
<1> SUFFICES ASSUME Init PROVE IInv
  OBVIOUS
<1>1. TypeOK
  <2>1. operands \in [Instructions -> Seq(Values)] /\ \A u \in Instructions : Len(operands[u]) = 0
    BY DEF Init
  <2>2. use_list \in [Values -> SUBSET Uses]
    BY DEF Init
  <2>3. status \in [Instructions -> Statuses] /\ replaced = {} /\ null_deref \in BOOLEAN
    BY DEF Init, Statuses
  <2>4. QED
    BY <2>1, <2>2, <2>3, ValueAssumption DEF TypeOK
<1>2. ASSUME NEW w \in Instructions PROVE status[w] = "new"
  BY DEF Init
<1>3. \A v \in Values : use_list[v] = {}
  BY DEF Init
<1>4. NewInv
  BY <1>2, <1>3 DEF Init, NewInv, Values
<1>5. OperandsInv /\ UsesInv
  BY <1>2, <1>3 DEF OperandsInv, UsesInv, IsUse
<1>6. QED
  BY <1>1, <1>4, <1>5 DEF IInv, Init, NoNullDeref

(* A new instruction: its operands were usable, and no list knew of it.    *)
LEMMA CreateIInv ==
  ASSUME NEW u \in Instructions, NEW ops \in OperandLists
  PROVE  IInv /\ Create(u, ops) => IInv'
<1> SUFFICES ASSUME IInv, Create(u, ops) PROVE IInv'
  OBVIOUS
<1>1. /\ ops \in Seq(Values) /\ Len(ops) \in 0 .. MaxOperands
      /\ \A k \in 1 .. Len(ops) : ops[k] \in Values
  <2>1. PICK n \in 0 .. MaxOperands : ops \in [1 .. n -> Values]
    BY DEF OperandLists
  <2>2. n \in Nat /\ ops \in Seq(Values) /\ Len(ops) = n
    BY <2>1, ValueAssumption
  <2>3. QED
    BY <2>1, <2>2
<1>2. /\ operands \in [Instructions -> Seq(Values)] /\ use_list \in [Values -> SUBSET Uses]
      /\ status \in [Instructions -> Statuses] /\ Instructions \subseteq Values
  BY DEF IInv, TypeOK, Values
<1>3. /\ operands'[u] = ops /\ status'[u] = "placed" /\ status[u] = "new"
      /\ \A w \in Instructions \ {u} : operands'[w] = operands[w] /\ status'[w] = status[w]
      /\ UNCHANGED <<replaced, null_deref>>
      /\ \A k \in 1 .. Len(ops) : Usable(ops[k])
  BY <1>2 DEF Create
<1>4. \A w \in Instructions \ {u} : \A i, v : IsUse(w, i, v)' <=> IsUse(w, i, v)
  BY <1>3 DEF IsUse, OperandIndices, Operand
<1>5. \A i, v : IsUse(u, i, v)' <=> i \in 0 .. Len(ops) - 1 /\ ops[i + 1] = v
  BY <1>3 DEF IsUse, OperandIndices, Operand
<1>6. \A v \in Values : Usable(v) => Usable(v)'
  BY <1>3 DEF Usable, Placed
<1>7. ASSUME NEW v \in Values, Usable(v)'
      PROVE  v # u => Usable(v)
  BY <1>3, <1>7 DEF Usable, Placed
<1>8. TypeOK'
  <2>1. operands' \in [Instructions -> Seq(Values)]
    BY <1>1, <1>2 DEF Create
  <2>2. \A w \in Instructions : Len(operands'[w]) <= MaxOperands
    BY <1>1, <1>3, ValueAssumption DEF IInv, TypeOK
  <2>3. \A i \in 0 .. Len(ops) - 1 : <<u, i>> \in Uses
    BY <1>1, ValueAssumption DEF Uses, Indices
  <2>4. use_list' \in [Values -> SUBSET Uses]
    BY <1>2, <2>3 DEF Create
  <2>5. status' \in [Instructions -> Statuses]
    BY <1>2 DEF Statuses, Create
  <2>6. QED
    BY <1>3, <2>1, <2>2, <2>4, <2>5 DEF IInv, TypeOK
<1>9. NewInv'
  <2> SUFFICES ASSUME NEW w \in Instructions, status'[w] = "new"
               PROVE  use_list'[w] = {} /\ w \notin replaced'
    BY DEF NewInv
  <2>1. w # u /\ status[w] = "new" /\ w \in Values
    BY <1>2, <1>3
  <2>2. use_list[w] = {} /\ w \notin replaced
    BY <2>1 DEF IInv, NewInv
  <2>3. \A k \in 1 .. Len(ops) : ops[k] # w
    BY <1>3, <2>1 DEF Usable, Placed
  <2>4. {j \in 0 .. Len(ops) - 1 : ops[j + 1] = w} = {}
    BY <1>1, <2>3
  <2>5. QED
    BY <1>3, <2>1, <2>2, <2>4 DEF Create
<1>10. OperandsInv'
  <2> SUFFICES ASSUME NEW w \in Instructions, NEW i \in Indices, NEW v \in Values,
                      IsUse(w, i, v)'
               PROVE  Usable(v)'
    BY DEF OperandsInv
  <2>1. CASE w = u
    <3>1. i + 1 \in 1 .. Len(ops) /\ ops[i + 1] = v
      BY <1>1, <1>5, <2>1
    <3>2. QED
      BY <1>3, <1>6, <3>1
  <2>2. CASE w # u
    BY <1>4, <1>6, <2>2 DEF IInv, OperandsInv
  <2>3. QED
    BY <2>1, <2>2
<1>11. UsesInv'
  <2> SUFFICES ASSUME NEW v \in Values, Usable(v)',
                      NEW w \in Instructions, NEW i \in Indices
               PROVE  <<w, i>> \in use_list[v]' <=> IsUse(w, i, v)'
    BY Zenon DEF UsesInv
  <2>1. <<w, i>> \in use_list[v] <=> IsUse(w, i, v)
    <3>1. CASE v = u
      <4>1. ~ Usable(u) /\ use_list[u] = {}
        BY <1>3 DEF IInv, NewInv, Usable, Placed
      <4>2. QED
        BY <3>1, <4>1 DEF IInv, OperandsInv
    <3>2. CASE v # u
      BY <1>7, <3>2 DEF IInv, UsesInv
    <3>3. QED
      BY <3>1, <3>2
  <2>2. <<w, i>> \in use_list'[v] <=>
          \/ <<w, i>> \in use_list[v]
          \/ w = u /\ i \in 0 .. Len(ops) - 1 /\ ops[i + 1] = v
    BY DEF Create
  <2>3. ~ IsUse(u, i, v)
    BY <1>3 DEF IsUse
  <2>4. QED
    BY <1>4, <1>5, <2>1, <2>2, <2>3
<1>12. QED
  BY <1>3, <1>8, <1>9, <1>10, <1>11 DEF IInv, NoNullDeref

(* One operand more: the list of the value gains this use, and no other.   *)
LEMMA AddOperandIInv ==
  ASSUME NEW u \in Instructions, NEW o \in Values
  PROVE  IInv /\ AddOperand(u, o) => IInv'
<1> SUFFICES ASSUME IInv, AddOperand(u, o) PROVE IInv'
  OBVIOUS
<1> DEFINE n == Len(operands[u])
<1>1. /\ operands \in [Instructions -> Seq(Values)] /\ use_list \in [Values -> SUBSET Uses]
      /\ n \in Indices /\ status[u] = "placed" /\ Usable(o)
      /\ UNCHANGED <<status, replaced, null_deref>>
  BY ValueAssumption DEF IInv, TypeOK, AddOperand, Indices
<1>2. /\ operands' = [operands EXCEPT ![u] = Append(operands[u], o)]
      /\ use_list' = [use_list EXCEPT ![o] = use_list[o] \cup {<<u, n>>}]
  BY DEF AddOperand
<1>3. /\ Append(operands[u], o) \in Seq(Values)
      /\ Len(Append(operands[u], o)) = n + 1
      /\ Append(operands[u], o)[n + 1] = o
      /\ \A k \in 1 .. n : Append(operands[u], o)[k] = operands[u][k]
  BY <1>1
<1>4. \A w \in Instructions \ {u} : \A i, v : IsUse(w, i, v)' <=> IsUse(w, i, v)
  BY <1>1, <1>2 DEF IsUse, OperandIndices, Operand
<1>5. \A i, v : IsUse(u, i, v)' <=> IsUse(u, i, v) \/ (i = n /\ v = o)
  <2>1. operands'[u] = Append(operands[u], o) /\ n \in Nat
    BY <1>1, <1>2 DEF Indices
  <2>2. \A i : i \in 0 .. n + 1 - 1 <=> i \in 0 .. n - 1 \/ i = n
    BY <2>1
  <2>3. \A i \in 0 .. n - 1 : Append(operands[u], o)[i + 1] = operands[u][i + 1]
    BY <1>3, <2>1
  <2>4. QED
    BY <1>1, <1>3, <2>1, <2>2, <2>3 DEF IsUse, OperandIndices, Operand
<1>6. \A v : Usable(v)' <=> Usable(v)
  BY <1>1 DEF Usable, Placed
<1>7. TypeOK'
  <2>1. operands' \in [Instructions -> Seq(Values)]
    BY <1>1, <1>2, <1>3
  <2>2. \A w \in Instructions : Len(operands'[w]) <= MaxOperands
    BY <1>1, <1>2, <1>3, ValueAssumption DEF IInv, TypeOK, Indices
  <2>3. use_list' \in [Values -> SUBSET Uses]
    BY <1>1, <1>2 DEF Uses
  <2>4. QED
    BY <1>1, <2>1, <2>2, <2>3 DEF IInv, TypeOK
<1>8. NewInv'
  <2>1. \A w \in Instructions : status[w] = "new" => use_list'[w] = use_list[w]
    BY <1>1, <1>2 DEF Usable, Placed, Values
  <2>2. QED
    BY <1>1, <2>1 DEF IInv, NewInv
<1>9. OperandsInv'
  BY <1>1, <1>4, <1>5, <1>6 DEF IInv, OperandsInv
<1>10. UsesInv'
  <2> SUFFICES ASSUME NEW v \in Values, Usable(v)',
                      NEW w \in Instructions, NEW i \in Indices
               PROVE  <<w, i>> \in use_list[v]' <=> IsUse(w, i, v)'
    BY Zenon DEF UsesInv
  <2>1. <<w, i>> \in use_list[v] <=> IsUse(w, i, v)
    BY <1>6 DEF IInv, UsesInv
  <2>2. <<w, i>> \in use_list[v]' <=>
          <<w, i>> \in use_list[v] \/ (v = o /\ w = u /\ i = n)
    BY <1>1, <1>2
  <2>3. QED
    BY <1>4, <1>5, <2>1, <2>2
<1>11. QED
  BY <1>1, <1>7, <1>8, <1>9, <1>10 DEF IInv, NoNullDeref

(* Every operand that was old is new now, and only those: the list of old  *)
(* was exact.                                                              *)
LEMMA ReplaceIInv ==
  ASSUME NEW old \in Values, NEW new \in Values
  PROVE  IInv /\ ReplaceAllUseWith(old, new) => IInv'
<1> SUFFICES ASSUME IInv, ReplaceAllUseWith(old, new) PROVE IInv'
  OBVIOUS
<1>1. /\ operands \in [Instructions -> Seq(Values)] /\ use_list \in [Values -> SUBSET Uses]
      /\ old \in Instructions /\ Usable(old) /\ Usable(new) /\ new # old
      /\ status' = status /\ replaced' = replaced \cup {old}
  BY DEF IInv, TypeOK, ReplaceAllUseWith
<1>2. use_list' = [use_list EXCEPT ![new] = use_list[new] \cup use_list[old]]
  BY DEF ReplaceAllUseWith
<1>3. ASSUME NEW w \in Instructions
      PROVE  /\ operands'[w] = [k \in 1 .. Len(operands[w]) |->
                   IF <<w, k - 1>> \in use_list[old] THEN new ELSE operands[w][k]]
             /\ operands'[w] \in Seq(Values) /\ Len(operands'[w]) = Len(operands[w])
  BY <1>1 DEF ReplaceAllUseWith
<1>4. ASSUME NEW w \in Instructions, NEW i \in OperandIndices(w)
      PROVE  operands'[w][i + 1] = IF <<w, i>> \in use_list[old] THEN new ELSE Operand(w, i)
  <2>1. i \in Int /\ i + 1 \in 1 .. Len(operands[w]) /\ (i + 1) - 1 = i
    BY <1>1, <1>4 DEF OperandIndices
  <2>2. QED
    BY <1>3, <2>1 DEF Operand
<1>5. ASSUME NEW w \in Instructions, NEW i \in Indices
      PROVE  <<w, i>> \in use_list[old] <=> IsUse(w, i, old)
  BY <1>1 DEF IInv, UsesInv
<1>6. ASSUME NEW w \in Instructions, NEW i \in Indices, NEW v
      PROVE  IsUse(w, i, v)' <=> \/ v = new /\ IsUse(w, i, old)
                                 \/ v # old /\ IsUse(w, i, v)
  <2>1. OperandIndices(w)' = OperandIndices(w)
    BY <1>3 DEF OperandIndices
  <2>2. IsUse(w, i, v)' <=> status[w] = "placed" /\ i \in OperandIndices(w) /\ operands'[w][i + 1] = v
    BY <1>1, <2>1 DEF IsUse, Operand
  <2>3. QED
    BY <1>4, <1>5, <2>2 DEF IsUse
<1>7. \A v : Usable(v)' <=> Usable(v) /\ v # old
  BY <1>1 DEF Usable, Placed
<1>8. TypeOK'
  <2>1. operands' \in [Instructions -> Seq(Values)]
    BY <1>3 DEF ReplaceAllUseWith
  <2>2. use_list' \in [Values -> SUBSET Uses]
    BY <1>1, <1>2
  <2>3. null_deref' \in BOOLEAN
    BY DEF ReplaceAllUseWith, IInv, TypeOK
  <2>4. \A w \in Instructions : Len(operands'[w]) <= MaxOperands
    BY <1>3 DEF IInv, TypeOK
  <2>5. QED
    BY <1>1, <2>1, <2>2, <2>3, <2>4 DEF IInv, TypeOK
<1>9. NewInv'
  <2>1. \A w \in Instructions : status[w] = "new" => use_list'[w] = use_list[w] /\ w # old
    BY <1>1, <1>2 DEF Usable, Placed, Values
  <2>2. QED
    BY <1>1, <2>1 DEF IInv, NewInv
<1>10. OperandsInv'
  <2> SUFFICES ASSUME NEW w \in Instructions, NEW i \in Indices, NEW v \in Values,
                      IsUse(w, i, v)'
               PROVE  Usable(v)'
    BY DEF OperandsInv
  <2>1. QED
    BY <1>1, <1>6, <1>7 DEF IInv, OperandsInv
<1>11. UsesInv'
  <2> SUFFICES ASSUME NEW v \in Values, Usable(v)',
                      NEW w \in Instructions, NEW i \in Indices
               PROVE  <<w, i>> \in use_list[v]' <=> IsUse(w, i, v)'
    BY Zenon DEF UsesInv
  <2>1. v # old /\ (<<w, i>> \in use_list[v] <=> IsUse(w, i, v))
    BY <1>7 DEF IInv, UsesInv
  <2>2. <<w, i>> \in use_list[v]' <=>
          <<w, i>> \in use_list[v] \/ (v = new /\ <<w, i>> \in use_list[old])
    BY <1>1, <1>2
  <2>3. QED
    BY <1>5, <1>6, <2>1, <2>2
<1>12. NoNullDeref'
  <2>1. ASSUME NEW e \in use_list[old] PROVE Alive(e[1])
    <3>1. PICK w \in Instructions, i \in Indices : e = <<w, i>>
      BY <1>1, <2>1 DEF Uses
    <3>2. status[w] = "placed"
      BY <1>5, <2>1, <3>1 DEF IsUse
    <3>3. QED
      BY <3>1, <3>2 DEF Alive
  <2>2. QED
    BY <2>1 DEF IInv, NoNullDeref, ReplaceAllUseWith
<1>13. QED
  BY <1>8, <1>9, <1>10, <1>11, <1>12 DEF IInv

(* The operands forget all uses by u, and u had no uses itself.            *)
LEMMA DeleteInstrIInv ==
  ASSUME NEW u \in Instructions
  PROVE  IInv /\ DeleteInstr(u) => IInv'
<1> SUFFICES ASSUME IInv, DeleteInstr(u) PROVE IInv'
  OBVIOUS
<1>1. /\ use_list \in [Values -> SUBSET Uses] /\ status \in [Instructions -> Statuses]
      /\ status[u] = "placed" /\ TrueUses(u) = {}
      /\ UNCHANGED <<operands, replaced>>
      /\ status' = [status EXCEPT ![u] = "removed"]
  BY DEF IInv, TypeOK, DeleteInstr
<1>2. \A v \in Values : use_list'[v] = IF v \in OperandsOf(u)
                                         THEN {e \in use_list[v] : e[1] # u} ELSE use_list[v]
  BY DEF DeleteInstr
<1>3. \A w \in Instructions : \A i, v : IsUse(w, i, v)' <=> w # u /\ IsUse(w, i, v)
  BY <1>1 DEF IsUse, OperandIndices, Operand
<1>4. \A v : Usable(v)' <=> Usable(v) /\ v # u
  BY <1>1 DEF Usable, Placed
<1>5. \A w \in Instructions, i \in Indices : ~ IsUse(w, i, u)
  BY <1>1, TrueUsesByIndex
<1>6. \A i, v : IsUse(u, i, v) => i \in Indices /\ v \in Values /\ v \in OperandsOf(u)
  BY OperandFacts DEF IsUse, OperandsOf, IInv
<1>7. TypeOK'
  <2>1. \A v \in Values : use_list'[v] \in SUBSET Uses
    BY <1>1, <1>2
  <2>2. use_list' \in [Values -> SUBSET Uses]
    BY <2>1 DEF DeleteInstr
  <2>3. status' \in [Instructions -> Statuses]
    BY <1>1 DEF Statuses
  <2>4. null_deref' \in BOOLEAN
    BY DEF DeleteInstr, IInv, TypeOK
  <2>5. QED
    BY <1>1, <2>2, <2>3, <2>4 DEF IInv, TypeOK
<1>8. NewInv'
  <2>1. \A w \in Instructions :
          status'[w] = "new" => status[w] = "new" /\ use_list'[w] \subseteq use_list[w]
    BY <1>1, <1>2 DEF Values
  <2>2. QED
    BY <1>1, <2>1 DEF IInv, NewInv
<1>9. OperandsInv'
  <2> SUFFICES ASSUME NEW w \in Instructions, NEW i \in Indices, NEW v \in Values,
                      IsUse(w, i, v)'
               PROVE  Usable(v)'
    BY DEF OperandsInv
  <2>1. QED
    BY <1>3, <1>4, <1>5 DEF IInv, OperandsInv
<1>10. UsesInv'
  <2> SUFFICES ASSUME NEW v \in Values, Usable(v)',
                      NEW w \in Instructions, NEW i \in Indices
               PROVE  <<w, i>> \in use_list[v]' <=> IsUse(w, i, v)'
    BY Zenon DEF UsesInv
  <2>1. <<w, i>> \in use_list[v] <=> IsUse(w, i, v)
    BY <1>4 DEF IInv, UsesInv
  <2>2. <<w, i>> \in use_list[v]' <=>
          <<w, i>> \in use_list[v] /\ ~ (v \in OperandsOf(u) /\ w = u)
    <3>1. <<w, i>>[1] = w
      OBVIOUS
    <3>2. use_list[v]' = IF v \in OperandsOf(u)
                           THEN {e \in use_list[v] : e[1] # u} ELSE use_list[v]
      BY <1>2
    <3>3. QED
      BY <3>1, <3>2
  <2>3. QED
    BY <1>3, <1>6, <2>1, <2>2
<1>11. NoNullDeref'
  <2>1. ASSUME NEW v \in OperandsOf(u) PROVE Alive(v)
    <3>1. PICK i \in OperandIndices(u) : v = Operand(u, i)
      BY <2>1 DEF OperandsOf
    <3>2. i \in Indices /\ v \in Values /\ IsUse(u, i, v)
      BY <1>1, <3>1, OperandFacts DEF IsUse, IInv
    <3>3. QED
      BY <3>2 DEF IInv, OperandsInv, Usable, Placed, Alive
  <2>2. QED
    BY <2>1 DEF IInv, NoNullDeref, DeleteInstr
<1>12. QED
  BY <1>7, <1>8, <1>9, <1>10, <1>11 DEF IInv

(* An instruction out of its block is nobody's operand. *)
LEMMA DestroyIInv ==
  ASSUME NEW u \in Instructions
  PROVE  IInv /\ Destroy(u) => IInv'
<1> SUFFICES ASSUME IInv, Destroy(u) PROVE IInv'
  OBVIOUS
<1>1. /\ operands \in [Instructions -> Seq(Values)] /\ use_list \in [Values -> SUBSET Uses]
      /\ status \in [Instructions -> Statuses]
      /\ status[u] = "removed" /\ UNCHANGED <<replaced, null_deref>>
      /\ status' = [status EXCEPT ![u] = "destroyed"]
      /\ operands' = [operands EXCEPT ![u] = <<>>]
      /\ use_list' = [use_list EXCEPT ![u] = {}]
  BY DEF IInv, TypeOK, Destroy
<1>2. \A w \in Instructions : \A i, v : IsUse(w, i, v)' <=> IsUse(w, i, v)
  BY <1>1 DEF IsUse, OperandIndices, Operand
<1>3. (\A v : Usable(v)' <=> Usable(v)) /\ ~ Usable(u)
  BY <1>1 DEF Usable, Placed
<1>4. TypeOK'
  <2>1. operands' \in [Instructions -> Seq(Values)]
    <3>1. <<>> \in Seq(Values)
      OBVIOUS
    <3>2. QED
      BY <1>1, <3>1
  <2>2. use_list' \in [Values -> SUBSET Uses]
    BY <1>1
  <2>3. \A w \in Instructions : Len(operands'[w]) <= MaxOperands
    BY <1>1, ValueAssumption DEF IInv, TypeOK
  <2>4. status' \in [Instructions -> Statuses]
    BY <1>1 DEF Statuses
  <2>5. QED
    BY <1>1, <2>1, <2>2, <2>3, <2>4 DEF IInv, TypeOK
<1>5. NewInv' /\ NoNullDeref'
  BY <1>1 DEF IInv, NewInv, NoNullDeref, Values
<1>6. OperandsInv'
  BY <1>2, <1>3 DEF IInv, OperandsInv
<1>7. UsesInv'
  <2> SUFFICES ASSUME NEW v \in Values, Usable(v)',
                      NEW w \in Instructions, NEW i \in Indices
               PROVE  <<w, i>> \in use_list[v]' <=> IsUse(w, i, v)'
    BY Zenon DEF UsesInv
  <2>1. v # u /\ (<<w, i>> \in use_list[v] <=> IsUse(w, i, v))
    BY <1>3 DEF IInv, UsesInv
  <2>2. use_list[v]' = use_list[v]
    BY <1>1, <2>1
  <2>3. QED
    BY <1>2, <2>1, <2>2
<1>8. QED
  BY <1>4, <1>5, <1>6, <1>7 DEF IInv

(* A step that changes nothing. *)
LEMMA StutterIInv == IInv /\ UNCHANGED vars => IInv'
BY DEF vars, IInv, TypeOK, NewInv, OperandsInv, UsesInv, NoNullDeref, IsUse, Usable, Placed,
       OperandIndices, Operand

(* Every step keeps the invariant. *)
LEMMA NextIInv == IInv /\ [Next]_vars => IInv'
BY CreateIInv, AddOperandIInv, ReplaceIInv, DeleteInstrIInv, DestroyIInv, StutterIInv DEF Next

(* The invariant is inductive. *)
THEOREM InductiveInvariant == Spec => []IInv
BY InitIInv, NextIInv, PTL DEF Spec

-----------------------------------------------------------------------------
(* Operands, use lists and the states of the instructions keep their types; *)
(* in particular no instruction gets more operands than the bound.          *)
THEOREM TypeCorrect == Spec => []TypeOK
<1>1. IInv => TypeOK
  BY DEF IInv
<1>2. QED
  BY <1>1, InductiveInvariant, PTL

(* A value that was not replaced lists exactly the operands that are it,    *)
(* however many instructions are created, changed and deleted: what         *)
(* replace_all_use_with and the dead-code tests rely on.                    *)
THEOREM UseListsExact == Spec => []UsesExact
<1>1. IInv => UsesExact
  <2> SUFFICES ASSUME IInv, NEW v \in Values, Usable(v) PROVE use_list[v] = TrueUses(v)
    BY DEF UsesExact
  <2>1. use_list[v] \subseteq Uses /\ TrueUses(v) \subseteq Uses
    BY DEF IInv, TypeOK, TrueUses
  <2>2. ASSUME NEW u \in Instructions, NEW i \in Indices
        PROVE  <<u, i>> \in TrueUses(v) <=> <<u, i>> \in use_list[v]
    BY TrueUsesByIndex DEF IInv, UsesInv
  <2>3. \A e \in Uses : e \in TrueUses(v) <=> e \in use_list[v]
    BY <2>2 DEF Uses
  <2>4. QED
    BY <2>1, <2>3
<1>2. QED
  BY <1>1, InductiveInvariant, PTL

(* No instruction in place uses a value that was ever replaced.             *)
THEOREM ReplacedStaysUnused == Spec => []ReplacedIsUnused
<1>1. IInv => ReplacedIsUnused
  <2> SUFFICES ASSUME IInv, NEW v \in replaced, NEW e \in TrueUses(v) PROVE FALSE
    BY DEF ReplacedIsUnused
  <2>1. PICK u \in Instructions, i \in Indices : e = <<u, i>> /\ IsUse(u, i, v)
    BY DEF TrueUses, Uses, IsUse
  <2>2. v \in Values
    BY DEF IInv, TypeOK, Values
  <2>3. QED
    BY <2>1, <2>2 DEF IInv, OperandsInv, Usable
<1>2. QED
  BY <1>1, InductiveInvariant, PTL

(* No expired pointer is followed through the chains. *)
THEOREM NeverNull == Spec => []NoNullDeref
<1>1. IInv => NoNullDeref
  BY DEF IInv
<1>2. QED
  BY <1>1, InductiveInvariant, PTL
=============================================================================
