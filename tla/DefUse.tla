------------------------------- MODULE DefUse -------------------------------
(***************************************************************************)
(* The def-use chains of the IR (src/src/SysYFIR/Value.cpp, User.cpp and   *)
(* BasicBlock::delete_instr).  An instruction is a User: it points weakly  *)
(* at its operands, and each operand keeps a use_list_ of <<user, index>>  *)
(* entries, also weak.  An instruction taken out of its block lives on     *)
(* while a pass still holds it, and is destroyed after that.               *)
(*                                                                         *)
(* The clients are the passes: they replace a value once, by a value that  *)
(* stays, and delete an instruction only when nothing uses it any more.    *)
(***************************************************************************)
EXTENDS Integers, Sequences

CONSTANTS Instructions,   \* values that are users
          Constants,      \* values that are not: constants and arguments
          MaxOperands     \* bound on the operands of one instruction

ASSUME ValueAssumption ==
  /\ Instructions \cap Constants = {}
  /\ MaxOperands \in Nat

VARIABLES operands,    \* User::operands_
          use_list,    \* Value::use_list_
          status,      \* where the instruction is in its life
          replaced,    \* values replace_all_use_with was called on
          null_deref   \* an expired weak pointer was followed

vars == <<operands, use_list, status, replaced, null_deref>>

Values == Instructions \cup Constants
Indices == 0 .. MaxOperands - 1
Uses == Instructions \X Indices
Statuses == {"new", "placed", "removed", "destroyed"}

Placed(v) == v \in Instructions => status[v] = "placed"
Alive(v) == v \in Instructions => status[v] \in {"placed", "removed"}

OperandIndices(u) == 0 .. Len(operands[u]) - 1
Operand(u, i) == operands[u][i + 1]
OperandsOf(u) == {Operand(u, i) : i \in OperandIndices(u)}

(* What the use lists ought to say of v: the operands that are v.          *)
TrueUses(v) ==
  {e \in Uses : /\ status[e[1]] = "placed"
                /\ e[2] \in OperandIndices(e[1])
                /\ Operand(e[1], e[2]) = v}

-----------------------------------------------------------------------------
Init ==
  /\ operands = [u \in Instructions |-> <<>>]
  /\ use_list = [v \in Values |-> {}]
  /\ status = [u \in Instructions |-> "new"]
  /\ replaced = {}
  /\ null_deref = FALSE

(* A value a pass may still use: in place, and not replaced.               *)
Usable(v) == Placed(v) /\ v \notin replaced

(* The constructor of an instruction with fixed operands: resize, then     *)
(* set_operand for each.                                                   *)
Create(u, ops) ==
  /\ status[u] = "new"
  /\ \A i \in 1 .. Len(ops) : Usable(ops[i])
  /\ status' = [status EXCEPT ![u] = "placed"]
  /\ operands' = [operands EXCEPT ![u] = ops]
  /\ use_list' = [v \in Values |->
       use_list[v] \cup {<<u, i>> : i \in {j \in 0 .. Len(ops) - 1 : ops[j + 1] = v}}]
  /\ UNCHANGED <<replaced, null_deref>>

(* User::add_operand, as phi instructions grow by add_phi_pair_operand.    *)
AddOperand(u, v) ==
  /\ status[u] = "placed"
  /\ Len(operands[u]) < MaxOperands
  /\ Usable(v)
  /\ operands' = [operands EXCEPT ![u] = Append(@, v)]
  /\ use_list' = [use_list EXCEPT ![v] = @ \cup {<<u, Len(operands[u])>>}]
  /\ UNCHANGED <<status, replaced, null_deref>>

(* Faulty: operands_[i] = v without v->add_use.                            *)
ReplaceAllUseWith_NoAddUse(old, new) ==
  /\ old \in Instructions /\ Usable(old)
  /\ Usable(new) /\ new # old
  /\ operands' = [u \in Instructions |-> [k \in 1 .. Len(operands[u]) |->
       IF <<u, k - 1>> \in use_list[old] THEN new ELSE operands[u][k]]]
  /\ replaced' = replaced \cup {old}
  /\ UNCHANGED <<use_list, status, null_deref>>

(* Value::replace_all_use_with: set_operand on every use of old.  The      *)
(* entries of old stay in its use_list_.  A user that is destroyed is a    *)
(* null pointer here.  (With new = old the loop would append to the list   *)
(* it walks and not end; no pass does that.)                               *)
ReplaceAllUseWith(old, new) ==
  /\ old \in Instructions /\ Usable(old)
  /\ Usable(new) /\ new # old
  /\ operands' = [u \in Instructions |-> [k \in 1 .. Len(operands[u]) |->
       IF <<u, k - 1>> \in use_list[old] THEN new ELSE operands[u][k]]]
  /\ use_list' = [use_list EXCEPT ![new] = @ \cup use_list[old]]
  /\ null_deref' = (null_deref \/ \E e \in use_list[old] : ~ Alive(e[1]))
  /\ replaced' = replaced \cup {old}
  /\ UNCHANGED status

(* Faulty: only the first operand forgets the user.                        *)
DeleteInstr_FirstOperand(u) ==
  /\ status[u] = "placed"
  /\ TrueUses(u) = {}
  /\ status' = [status EXCEPT ![u] = "removed"]
  /\ use_list' = [v \in Values |->
       IF operands[u] # <<>> /\ v = Operand(u, 0)
         THEN {e \in use_list[v] : e[1] # u} ELSE use_list[v]]
  /\ UNCHANGED <<operands, replaced, null_deref>>

(* BasicBlock::delete_instr: out of the list, and remove_use_of_ops: every *)
(* operand forgets all its uses by u.                                      *)
DeleteInstr(u) ==
  /\ status[u] = "placed"
  /\ TrueUses(u) = {}
  /\ status' = [status EXCEPT ![u] = "removed"]
  /\ use_list' = [v \in Values |->
       IF v \in OperandsOf(u) THEN {e \in use_list[v] : e[1] # u} ELSE use_list[v]]
  /\ null_deref' = (null_deref \/ \E v \in OperandsOf(u) : ~ Alive(v))
  /\ UNCHANGED <<operands, replaced>>

(* The pass lets go of the last shared pointer: the object, its operands   *)
(* and its use_list_ are gone.                                             *)
Destroy(u) ==
  /\ status[u] = "removed"
  /\ status' = [status EXCEPT ![u] = "destroyed"]
  /\ operands' = [operands EXCEPT ![u] = <<>>]
  /\ use_list' = [use_list EXCEPT ![u] = {}]
  /\ UNCHANGED <<replaced, null_deref>>

OperandLists == UNION {[1 .. n -> Values] : n \in 0 .. MaxOperands}

Next ==
  \/ \E u \in Instructions, ops \in OperandLists : Create(u, ops)
  \/ \E u \in Instructions, v \in Values : AddOperand(u, v)
  \/ \E old, new \in Values : ReplaceAllUseWith(old, new)
  \/ \E u \in Instructions : DeleteInstr(u) \/ Destroy(u)

Spec == Init /\ [][Next]_vars

-----------------------------------------------------------------------------
TypeOK ==
  /\ operands \in [Instructions -> Seq(Values)]
  /\ \A u \in Instructions : Len(operands[u]) <= MaxOperands
  /\ use_list \in [Values -> SUBSET Uses]
  /\ status \in [Instructions -> Statuses]
  /\ replaced \in SUBSET Instructions
  /\ null_deref \in BOOLEAN

(* A value that was not replaced lists its uses, all of them and no other: *)
(* every operand of an instruction in place, under the right index, without*)
(* which replace_all_use_with would miss it; no user that is deleted, and  *)
(* no operand that has changed since.                                      *)
UsesExact ==
  \A v \in Values : Usable(v) => use_list[v] = TrueUses(v)

(* When a value is replaced, no instruction in place uses it ever again,   *)
(* however the lists are rebuilt afterwards.                               *)
ReplacedIsUnused ==
  \A v \in replaced : TrueUses(v) = {}

(* No pass meets an expired pointer through the chains: not in the users   *)
(* of a value it replaces, not in the operands of one it deletes.          *)
NoNullDeref == ~ null_deref
=============================================================================
