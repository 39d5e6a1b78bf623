---------------------------- MODULE ExprMachine -----------------------------
(***************************************************************************)
(* What the instructions that ExprBuilder makes do, and what LLVM requires *)
(* of their operands.  A pointer is an object and a position in it; memory *)
(* that a function allocates holds garbage until it is written.            *)
(***************************************************************************)
EXTENDS ExprBuilder

Garbage == 3
FunctionType == TypeOf(unit.ret)

(* Is the instruction well-formed? *)
Typed(i) ==
  LET types == [j \in DOMAIN i.args |-> i.args[j].type]
      ptr == types[1]
  IN /\ NULL \notin ToSet(i.args)
     /\ CASE i.op[1] = "int" -> types = <<INT32_T, INT32_T>> /\ i.type = INT32_T
          [] i.op[1] = "float" -> types = <<FLOAT_T, FLOAT_T>> /\ i.op[2] # "%"
          [] i.op[1] = "icmp" -> is_integer_type(ptr) /\ types[2] = ptr
          [] i.op[1] = "fcmp" -> types = <<FLOAT_T, FLOAT_T>>
          [] i.op[1] = "fptosi" -> types = <<FLOAT_T>>
          [] i.op[1] = "sitofp" -> is_integer_type(ptr)
          [] i.op[1] = "zext" -> types = <<INT1_T>>
          [] i.op[1] = "condbr" -> types = <<INT1_T>>
          [] i.op[1] = "load" -> ptr[1] = "ptr" /\ ptr[2][1] # "array"
          [] i.op[1] = "store" -> types[2] = PointerTo(ptr)
          [] i.op[1] = "gep" ->
               /\ ptr[1] = "ptr"
               /\ Tail(types) = IF ptr[2][1] = "array" THEN <<INT32_T, INT32_T>> ELSE <<INT32_T>>
          [] i.op[1] = "call" ->
               types = [j \in DOMAIN Parameters(i.op[2]) |-> ParameterType(Parameters(i.op[2])[j])]
          [] i.op[1] = "ret" -> IF FunctionType = VOID_T THEN types = <<>> ELSE types = <<FunctionType>>
          [] i.op[1] = "alloca" -> types = <<>>
          [] i.op[1] = "br" -> types = <<>>

-----------------------------------------------------------------------------
(* reg holds the result of every instruction executed so far.              *)
ValueOf(m, val) ==
  CASE val.v \in {"const", "arg"} -> val.val
    [] val.v = "global" -> <<val.id, 0>>
    [] val.v = "instr" -> m.reg[val.at]

Elements(t) == [j \in 1 .. IF t[1] = "array" THEN t[3] ELSE 1 |-> Garbage]
Extend(mem, o, elements) == [p \in DOMAIN mem \cup {o} |-> IF p = o THEN elements ELSE mem[p]]
IsPlace(m, p) == p[1] \in DOMAIN m.mem /\ p[2] + 1 \in DOMAIN m.mem[p[1]]

Result(m, n) == [m EXCEPT !.reg = Append(@, n)]
Stop(m) == [Result(m, 0) EXCEPT !.ok = FALSE]

Step(m, i) ==
  LET a == [j \in DOMAIN i.args |-> ValueOf(m, i.args[j])]
      allocated == 100 + Len(m.reg)
  IN CASE i.op[1] = "int" ->
            IF Traps(i.op[2], a[1], a[2]) THEN Stop(m) ELSE Result(m, IntOp(i.op[2], a[1], a[2]))
       [] i.op[1] = "float" -> Result(m, FloatOp(i.op[2], a[1], a[2]))
       [] i.op[1] \in {"icmp", "fcmp"} -> Result(m, Bit(Holds(i.op[2], a[1], a[2])))
       [] i.op[1] = "fptosi" -> Result(m, ToInt(a[1]))
       [] i.op[1] = "sitofp" -> Result(m, ToFloat(a[1]))
       [] i.op[1] = "zext" -> Result(m, a[1])
       [] i.op[1] = "alloca" ->
            Result([m EXCEPT !.mem = Extend(@, allocated, Elements(i.type[2]))], <<allocated, 0>>)
       [] i.op[1] = "load" ->
            IF IsPlace(m, a[1]) THEN Result(m, m.mem[a[1][1]][a[1][2] + 1]) ELSE Stop(m)
       [] i.op[1] = "store" ->
            IF IsPlace(m, a[2]) THEN Result([m EXCEPT !.mem[a[2][1]][a[2][2] + 1] = a[1]], 0)
            ELSE Stop(m)
       [] i.op[1] = "gep" -> Result(m, <<a[1][1], a[1][2] + Last(a)>>)
       [] i.op[1] = "call" ->
            LET called == Called(i.op[2], a, m.mem)
            IN Result([m EXCEPT !.mem = called.mem, !.seen = Append(@, <<i.op[2], called.seen>>)],
                      called.ret)
       [] i.op[1] = "condbr" -> Result([m EXCEPT !.seen = Append(@, <<"test", a[1]>>)], 0)
       [] i.op[1] = "ret" -> Result([m EXCEPT !.ret = IF a = <<>> THEN 0 ELSE a[1]], 0)
       [] i.op[1] = "br" -> Result(m, 0)

(* The memory a module starts with, and the run of its function.           *)
Loaded ==
  [reg |-> <<>>, seen |-> <<>>, ret |-> 0, ok |-> TRUE,
   mem |-> FoldLeft(LAMBDA mem, g : Extend(mem, g.id, [j \in DOMAIN g.init |-> g.init[j].val]),
                    [o \in {} |-> <<>>], globals)]
Executed == FoldLeft(LAMBDA m, i : IF m.ok THEN Step(m, i) ELSE m, Loaded, code)
=============================================================================
